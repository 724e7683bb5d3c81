--------------------------- MODULE CompressorProofs ---------------------------
(***************************************************************************)
(* Proofs about Compressor, for any files and any number of values a byte  *)
(* has: what is packed unpacks to the file.                                *)
(*                                                                         *)
(* Every phase and every layer is a loop over a buffer (Walk), so the      *)
(* argument is made once: if a second loop, wherever the first put         *)
(* something out, puts out the part of the buffer that stands for and      *)
(* moves behind it, then it undoes the first (Undoes).  Layer 1 undoes     *)
(* phase 1 that way, a round of layer 3 a round of phase 3, and PutBack    *)
(* the replacement of a string.                                            *)
(*                                                                         *)
(* What the rounds do together is told by chains: RoundsOf for the pairs,  *)
(* Chain for the strings, each a sequence of data in which an element is   *)
(* what the decompressor makes of the next one.  Every step of the         *)
(* compressor makes a chain longer; the decompressor goes down all of it.  *)
(***************************************************************************)
EXTENDS Compressor, Loops, SequenceTheorems, TLAPS

-----------------------------------------------------------------------------
(* Loops over a buffer                                                     *)

\* What holds of a place whenever it holds of all places behind it holds of all.
LEMMA FromTheEnd ==
  ASSUME NEW n \in Nat, NEW S, \A i \in 1 .. n : (\A j \in i + 1 .. n : j \in S) => i \in S
  PROVE  1 .. n \subseteq S
<1> DEFINE T == {j \in 0 .. n : \A i \in 1 .. n : i > n - j => i \in S}
<1>1. 0 \in T
  OBVIOUS
<1>2. ASSUME NEW j \in 1 .. n, j - 1 \in T PROVE j \in T
  <2>1. \A i \in 1 .. n : i > n - (j - 1) => i \in S
    BY <1>2
  <2>2. n + 1 - j \in 1 .. n /\ \A i \in (n + 1 - j) + 1 .. n : i \in S
    BY <2>1
  <2>3. n + 1 - j \in S
    BY <2>2
  <2> QED BY <2>1, <2>3
<1> HIDE DEF T
<1>3. 0 .. n \subseteq T
  BY <1>1, <1>2, LoopInduction
<1>4. n \in T
  BY <1>3
<1> QED BY <1>4 DEF T

\* f is defined at each place from a later one, up to the end.
Follows(f, n, behind, next, step) ==
  /\ \A i \in 1 .. n : f[i] = step[i][f[next[i]]]
  /\ \A i \in Nat : i \notin 1 .. n => f[i] = behind[i]

\* Such a function exists.
LEMMA LaterExists ==
  ASSUME NEW n \in Nat, NEW X, NEW behind \in [Nat -> X],
         NEW next \in [1 .. n -> Nat], \A i \in 1 .. n : next[i] > i,
         NEW step \in [1 .. n -> [X -> X]]
  PROVE  \E f \in [Nat -> X] : Follows(f, n, behind, next, step)
<1> DEFINE Y == [Nat -> X]
           F == [j \in 1 .. n |-> [f \in Y |-> [f EXCEPT ![n + 1 - j] = step[n + 1 - j][f[next[n + 1 - j]]]]]]
<1>1. F \in [1 .. n -> [Y -> Y]]
  <2> SUFFICES ASSUME NEW j \in 1 .. n, NEW f \in Y
               PROVE  [f EXCEPT ![n + 1 - j] = step[n + 1 - j][f[next[n + 1 - j]]]] \in Y
    OBVIOUS
  <2>1. n + 1 - j \in 1 .. n
    OBVIOUS
  <2>2. next[n + 1 - j] \in Nat
    BY <2>1
  <2>3. f[next[n + 1 - j]] \in X
    BY <2>2
  <2>4. step[n + 1 - j][f[next[n + 1 - j]]] \in X
    BY <2>1, <2>3
  <2> QED BY <2>4
<1>2. behind \in Y
  OBVIOUS
<1> HIDE DEF Y, F
<1>3. PICK g : IsLoop(g, n, Y, behind, F)
  BY <1>1, <1>2, LoopExists
<1> DEFINE Right(f, i) == f[i] = step[i][f[next[i]]]
           T == {j \in 0 .. n : /\ \A i \in Nat : i \notin 1 .. n => g[j][i] = behind[i]
                               /\ \A i \in 1 .. n : i > n - j => Right(g[j], i)}
<1>4. 0 \in T
  BY <1>3 DEF IsLoop
<1>5. ASSUME NEW j \in 1 .. n, j - 1 \in T PROVE j \in T
  <2> DEFINE m == n + 1 - j
             f == g[j - 1]
  <2>1. f \in Y /\ g[j] = F[j][f]
    BY <1>3 DEF IsLoop
  <2>2. g[j] = [f EXCEPT ![m] = step[m][f[next[m]]]]
    BY <2>1 DEF F
  <2>3. m \in 1 .. n /\ DOMAIN f = Nat
    BY <2>1 DEF Y
  <2> HIDE DEF m, f
  <2>4. g[j][m] = step[m][f[next[m]]] /\ \A i \in Nat : i # m => g[j][i] = f[i]
    BY <2>2, <2>3
  <2>5. \A i \in Nat : i \notin 1 .. n => g[j][i] = behind[i]
    BY <1>5, <2>3, <2>4 DEF f
  <2>6. ASSUME NEW i \in 1 .. n, i > n - j PROVE Right(g[j], i)
    <3>1. next[i] \in Nat /\ next[i] # m
      BY <2>6 DEF m
    <3>2. g[j][next[i]] = f[next[i]]
      BY <2>4, <3>1
    <3>3. CASE i = m
      BY <2>4, <3>2, <3>3
    <3>4. CASE i # m
      <4>1. i > n - (j - 1) /\ g[j][i] = f[i]
        BY <2>4, <2>6, <3>4 DEF m
      <4>2. Right(f, i)
        BY <1>5, <4>1 DEF f
      <4> QED BY <3>2, <4>1, <4>2
    <3> QED BY <3>3, <3>4
  <2> QED BY <2>5, <2>6
<1> HIDE DEF T
<1>6. 0 .. n \subseteq T
  BY <1>4, <1>5, LoopInduction
<1>7. n \in T /\ g[n] \in [Nat -> X]
  BY <1>3, <1>6 DEF IsLoop, Y
<1>8. /\ \A i \in 1 .. n : g[n][i] = step[i][g[n][next[i]]]
      /\ \A i \in Nat : i \notin 1 .. n => g[n][i] = behind[i]
  BY <1>7 DEF T
<1> QED BY <1>7, <1>8 DEF Follows

\* f[i] is what a loop over a buffer with places D puts out from i on.
Outputs(f, D, out, took) ==
  f = [i \in Nat |-> IF i \in D THEN out[i] \o f[i + took[i]] ELSE <<>>]

\* There is such a function.
LEMMA OutputExists ==
  ASSUME NEW S, NEW n \in Nat, NEW D, D = 1 .. n,
         NEW out \in [1 .. n -> Seq(S)], NEW took \in [1 .. n -> Nat \ {0}]
  PROVE  \E f : Outputs(f, D, out, took)
<1> DEFINE X == Seq(S)
           behind == [i \in Nat |-> <<>>]
           next == [i \in 1 .. n |-> i + took[i]]
           step == [i \in 1 .. n |-> [r \in X |-> out[i] \o r]]
<1>1. behind \in [Nat -> X]
  OBVIOUS
<1>2. next \in [1 .. n -> Nat]
  OBVIOUS
<1>3. \A i \in 1 .. n : next[i] > i
  OBVIOUS
<1>4. step \in [1 .. n -> [X -> X]]
  OBVIOUS
<1> HIDE DEF behind, next, step, X
<1>5. PICK f \in [Nat -> X] : Follows(f, n, behind, next, step)
  BY <1>1, <1>2, <1>3, <1>4, LaterExists
<1>6. ASSUME NEW i \in Nat PROVE f[i] = IF i \in D THEN out[i] \o f[i + took[i]] ELSE <<>>
  <2>1. CASE i \in 1 .. n
    <3>1. f[i] = step[i][f[next[i]]]
      BY <1>5, <2>1, Zenon DEF Follows
    <3>2. next[i] \in Nat /\ next[i] = i + took[i]
      BY <2>1 DEF next
    <3>3. f[next[i]] \in X
      BY <3>2
    <3>4. f[i] = out[i] \o f[next[i]]
      BY <2>1, <3>1, <3>3 DEF step
    <3> QED BY <2>1, <3>2, <3>4, Zenon
  <2>2. CASE i \notin 1 .. n
    <3>1. f[i] = behind[i]
      BY <1>5, <2>2, Zenon DEF Follows
    <3> QED BY <2>2, <3>1 DEF behind
  <2> QED BY <2>1, <2>2
<1>7. f = [i \in Nat |-> f[i]]
  OBVIOUS
<1>8. [i \in Nat |-> f[i]] = [i \in Nat |-> IF i \in D THEN out[i] \o f[i + took[i]] ELSE <<>>]
  BY <1>6, Zenon
<1> QED BY <1>7, <1>8, Zenon DEF Outputs

\* out and took tell what a loop over a buffer x of n bytes puts out at each place,
\* and how far it moves.
Codes(S, x, n, out, took) ==
  /\ n \in Nat /\ DOMAIN x = 1 .. n
  /\ out \in [1 .. n -> Seq(S)] /\ took \in [1 .. n -> Nat \ {0}]

\* What a loop over a buffer of n bytes puts out from a place on: the place's own
\* part, then the rest.
Walked(S, x, n, out, took) ==
  /\ \A i \in Nat : Walk(x, i, out, took) \in Seq(S)
  /\ \A i \in 1 .. n : Walk(x, i, out, took) = out[i] \o Walk(x, i + took[i], out, took)
  /\ \A i \in Nat : i \notin 1 .. n => Walk(x, i, out, took) = <<>>

\* Such a loop over n places puts out a sequence, at each place its part and then the rest.
LEMMA WalkIs ==
  ASSUME NEW S, NEW x, NEW n, NEW out, NEW took, Codes(S, x, n, out, took)
  PROVE  Walked(S, x, n, out, took)
<1> USE DEF Codes
<1> DEFINE Rest == CHOOSE f : Outputs(f, DOMAIN x, out, took)
<1>1. \E f : Outputs(f, DOMAIN x, out, took)
  BY OutputExists
<1>2. Outputs(Rest, DOMAIN x, out, took)
  BY <1>1, Zenon
<1>3. ASSUME NEW i PROVE Walk(x, i, out, took) = Rest[i]
  BY DEF Walk, Outputs
<1> HIDE DEF Rest
<1>4. ASSUME NEW i \in Nat PROVE Rest[i] = IF i \in 1 .. n THEN out[i] \o Rest[i + took[i]] ELSE <<>>
  BY <1>2, Zenon DEF Outputs
<1> DEFINE T == {i \in 1 .. n : Rest[i] \in Seq(S)}
<1>5. ASSUME NEW i \in 1 .. n, \A j \in i + 1 .. n : j \in T PROVE i \in T
  <2> DEFINE l == i + took[i]
  <2>1. i \in Nat /\ l \in Nat /\ l > i
    OBVIOUS
  <2>0. Rest[i] = IF i \in 1 .. n THEN out[i] \o Rest[i + took[i]] ELSE <<>>
    BY <1>4, <2>1, Zenon
  <2>3. Rest[i] = out[i] \o Rest[l]
    BY <2>0, Zenon
  <2> HIDE DEF l
  <2>2. Rest[l] \in Seq(S)
    <3>1. CASE l \in 1 .. n
      BY <1>5, <2>1, <3>1
    <3>2. CASE l \notin 1 .. n
      <4>1. Rest[l] = <<>>
        BY <1>4, <2>1, <3>2, Zenon
      <4> QED BY <4>1
    <3> QED BY <3>1, <3>2
  <2>4. Rest[i] \in Seq(S)
    BY ONLY i \in 1 .. n, out \in [1 .. n -> Seq(S)], <2>2, <2>3
  <2> QED BY <2>4
<1> HIDE DEF T
<1>6. 1 .. n \subseteq T
  BY <1>5, FromTheEnd
<1>7. ASSUME NEW i \in Nat PROVE Rest[i] \in Seq(S)
  <2>1. CASE i \in 1 .. n
    BY <1>6, <2>1 DEF T
  <2>2. CASE i \notin 1 .. n
    <3>1. Rest[i] = <<>>
      BY <1>4, <2>2, Zenon
    <3> QED BY <3>1
  <2> QED BY <2>1, <2>2
<1>8. ASSUME NEW i \in 1 .. n PROVE Rest[i] = out[i] \o Rest[i + took[i]]
  <2>1. i \in Nat
    OBVIOUS
  <2> QED BY <1>4, <2>1, Zenon
<1>9. ASSUME NEW i \in Nat, i \notin 1 .. n PROVE Rest[i] = <<>>
  BY <1>4, <1>9, Zenon
<1>10. \A i \in Nat : Walk(x, i, out, took) \in Seq(S)
  BY <1>3, <1>7, Zenon
<1>11. \A i \in 1 .. n : Walk(x, i, out, took) = out[i] \o Walk(x, i + took[i], out, took)
  BY <1>3, <1>8, Zenon
<1>12. \A i \in Nat : i \notin 1 .. n => Walk(x, i, out, took) = <<>>
  BY <1>3, <1>9, Zenon
<1> QED BY <1>10, <1>11, <1>12, Zenon DEF Walked

\* The buffer y ends with v, from p on.
Stands(y, p, v) ==
  /\ p \in Nat \ {0}
  /\ Len(y) = p - 1 + Len(v)
  /\ \A j \in 1 .. Len(v) : y[p - 1 + j] = v[j]

\* Two sequences one behind the other.
LEMMA Joined ==
  ASSUME NEW S, NEW a \in Seq(S), NEW b \in Seq(S)
  PROVE  /\ a \o b \in Seq(S) /\ Len(a \o b) = Len(a) + Len(b)
         /\ \A j \in 1 .. Len(a) : (a \o b)[j] = a[j]
         /\ \A j \in 1 .. Len(b) : (a \o b)[Len(a) + j] = b[j]
  OBVIOUS

\* When what stands has two parts, the second stands behind the first.
LEMMA StandsParts ==
  ASSUME NEW S, NEW y \in Seq(S), NEW a \in Seq(S), NEW b \in Seq(S), NEW p, Stands(y, p, a \o b)
  PROVE  /\ \A j \in 1 .. Len(a) : p - 1 + j \in 1 .. Len(y) /\ y[p - 1 + j] = a[j]
         /\ Stands(y, p + Len(a), b)
<1> DEFINE v == a \o b
<1>1. /\ Len(v) = Len(a) + Len(b)
      /\ \A j \in 1 .. Len(a) : v[j] = a[j]
      /\ \A j \in 1 .. Len(b) : v[Len(a) + j] = b[j]
  BY Joined
<1>2. Stands(y, p, v)
  OBVIOUS
<1> HIDE DEF v
<1>3. Len(a) \in Nat /\ Len(b) \in Nat /\ p \in Nat /\ p >= 1 /\ Len(y) = p - 1 + Len(a) + Len(b)
  BY <1>1, <1>2 DEF Stands
<1>4. ASSUME NEW j \in 1 .. Len(a) PROVE p - 1 + j \in 1 .. Len(y) /\ y[p - 1 + j] = a[j]
  <2>1. j \in 1 .. Len(v)
    BY <1>1, <1>3
  <2> QED BY <1>1, <1>2, <1>3, <2>1 DEF Stands
<1>5. ASSUME NEW j \in 1 .. Len(b) PROVE y[(p + Len(a)) - 1 + j] = b[j]
  <2>1. Len(a) + j \in 1 .. Len(v)
    BY <1>1, <1>3
  <2>2. y[p - 1 + (Len(a) + j)] = v[Len(a) + j]
    BY <1>2, <2>1 DEF Stands
  <2>3. p - 1 + (Len(a) + j) = (p + Len(a)) - 1 + j
    BY <1>3
  <2> QED BY <1>1, <2>2, <2>3
<1> QED BY <1>3, <1>4, <1>5 DEF Stands

\* A part of a buffer and what is behind that part make what stands from its place on.
LEMMA SplitAgain ==
  ASSUME NEW S, NEW x \in Seq(S), NEW i \in 1 .. Len(x), NEW l \in i .. Len(x) + 1
  PROVE  SubSeq(x, i, l - 1) \o SubSeq(x, l, Len(x)) = SubSeq(x, i, Len(x))
<1> DEFINE a == SubSeq(x, i, l - 1)
           b == SubSeq(x, l, Len(x))
           c == SubSeq(x, i, Len(x))
<1>1. a \in Seq(S) /\ b \in Seq(S) /\ c \in Seq(S)
  OBVIOUS
<1>2. Len(a) = l - i /\ Len(b) = Len(x) + 1 - l /\ Len(c) = Len(x) + 1 - i /\ Len(x) \in Nat
  OBVIOUS
<1>3. /\ \A j \in 1 .. Len(a) : a[j] = x[i - 1 + j]
      /\ \A j \in 1 .. Len(b) : b[j] = x[l - 1 + j]
      /\ \A j \in 1 .. Len(c) : c[j] = x[i - 1 + j]
  OBVIOUS
<1> HIDE DEF a, b, c
<1>6. a \o b \in Seq(S) /\ Len(a \o b) = Len(a) + Len(b)
  BY <1>1, Joined
<1>4. Len(a \o b) = Len(c)
  BY <1>2, <1>6
<1>5. ASSUME NEW j \in 1 .. Len(c) PROVE (a \o b)[j] = c[j]
  <2>1. CASE j <= Len(a)
    <3>1. (a \o b)[j] = a[j] /\ j \in 1 .. Len(a)
      BY <1>1, <1>2, <2>1, Joined
    <3> QED BY <1>3, <3>1
  <2>2. CASE j > Len(a)
    <3>1. j - Len(a) \in 1 .. Len(b) /\ j = Len(a) + (j - Len(a))
      BY <1>2, <2>2
    <3>2. (a \o b)[j] = b[j - Len(a)]
      BY <1>1, <3>1, Joined
    <3>3. l - 1 + (j - Len(a)) = i - 1 + j
      BY <1>2
    <3> QED BY <1>3, <3>1, <3>2, <3>3
  <2> QED BY <1>2, <2>1, <2>2
<1>7. \A j \in 1 .. Len(a \o b) : (a \o b)[j] = c[j]
  BY <1>4, <1>5
<1> DEFINE d == a \o b
<1> HIDE DEF d
<1>8. d \in Seq(S) /\ c \in Seq(S) /\ Len(d) = Len(c) /\ \A j \in 1 .. Len(d) : d[j] = c[j]
  BY <1>1, <1>4, <1>6, <1>7 DEF d
<1>9. d = c
  BY ONLY <1>8, SeqEqual
<1> QED BY <1>9 DEF d, a, b, c

\* b is the part of x at i of length t for which o was put out, and q passes o.
Undone(x, i, t, o, b, q) ==
  /\ i + t <= Len(x) + 1
  /\ b = SubSeq(x, i, (i + t) - 1)
  /\ q = Len(o)

\* A second loop undoes at each place what the first put out there.
Inverts(x, n, out, took, y, m, back, passed) ==
  \A i \in 1 .. n, p \in 1 .. m :
    Stands(y, p, Walk(x, i, out, took)) => Undone(x, i, took[i], out[i], back[p], passed[p])

\* Then it undoes all of it.
LEMMA Undoes ==
  ASSUME NEW S, NEW x \in Seq(S), NEW n, NEW out, NEW took, Codes(S, x, n, out, took),
         NEW y \in Seq(S), NEW m, NEW back, NEW passed, Codes(S, y, m, back, passed),
         Inverts(x, n, out, took, y, m, back, passed),
         \A i \in 1 .. n : Len(out[i]) > 0,
         NEW start, Stands(y, start, Walk(x, 1, out, took))
  PROVE  Walk(y, start, back, passed) = x
<1> DEFINE W(i) == Walk(x, i, out, took)
           B(p) == Walk(y, p, back, passed)
           T == {i \in 1 .. n : \A p \in 1 .. m : Stands(y, p, W(i)) => B(p) = SubSeq(x, i, n)}
<1>0. /\ n \in Nat /\ n = Len(x) /\ out \in [1 .. n -> Seq(S)] /\ took \in [1 .. n -> Nat \ {0}]
      /\ m \in Nat /\ m = Len(y) /\ back \in [1 .. m -> Seq(S)] /\ passed \in [1 .. m -> Nat \ {0}]
  BY DEF Codes
<1>9. n \in Nat /\ m \in Nat
  BY <1>0
<1>10. ASSUME NEW i \in 1 .. n PROVE i \in Nat /\ i >= 1 /\ i <= n
  BY ONLY <1>9, i \in 1 .. n
<1>11. ASSUME NEW i \in 1 .. m PROVE i \in Nat /\ i >= 1 /\ i <= m
  BY ONLY <1>9, i \in 1 .. m
<1>12. ASSUME NEW i \in 1 .. n PROVE took[i] \in Nat /\ took[i] > 0
  <2>1. took[i] \in Nat \ {0}
    BY ONLY <1>0, i \in 1 .. n, Zenon
  <2> QED BY ONLY <2>1
<1>13. ASSUME NEW i \in 1 .. n PROVE out[i] \in Seq(S) /\ Len(out[i]) > 0
  BY <1>0
<1> USE <1>0
<1>1. /\ \A i \in Nat : W(i) \in Seq(S)
      /\ \A i \in 1 .. n : W(i) = out[i] \o W(i + took[i])
      /\ \A i \in Nat : i \notin 1 .. n => W(i) = <<>>
  <2>1. Walked(S, x, n, out, took)
    BY WalkIs
  <2> QED BY <2>1, Zenon DEF Walked
<1>2. /\ \A p \in 1 .. m : B(p) = back[p] \o B(p + passed[p])
      /\ \A p \in Nat : p \notin 1 .. m => B(p) = <<>>
  <2>1. Walked(S, y, m, back, passed)
    BY WalkIs
  <2> QED BY <2>1, Zenon DEF Walked
<1>3. \A i \in 1 .. n, p \in 1 .. m :
        Stands(y, p, W(i)) => Undone(x, i, took[i], out[i], back[p], passed[p])
  BY Zenon DEF Inverts
<1> HIDE DEF W, B
<1>4. ASSUME NEW i \in 1 .. n PROVE Len(W(i)) > 0
  <2>1. W(i) = out[i] \o W(i + took[i])
    BY <1>1, Zenon
  <2>5. took[i] \in Nat /\ i \in Nat
    BY <1>10, <1>12, Zenon
  <2>2. i + took[i] \in Nat
    BY ONLY <2>5
  <2>3. W(i + took[i]) \in Seq(S)
    BY <1>1, <2>2, Zenon
  <2>4. out[i] \in Seq(S) /\ Len(out[i]) > 0
    BY <1>13, Zenon
  <2>6. PICK o : o = out[i]
    OBVIOUS
  <2>7. PICK r : r = W(i + took[i])
    OBVIOUS
  <2>8. o \in Seq(S) /\ r \in Seq(S) /\ Len(o) > 0
    BY <2>3, <2>4, <2>6, <2>7, Zenon
  <2>9. Len(o \o r) > 0
    BY ONLY <2>8
  <2> QED BY <2>1, <2>6, <2>7, <2>9, Zenon
<1>5. ASSUME NEW i \in 1 .. n, \A j \in i + 1 .. n : j \in T PROVE i \in T
  <2> SUFFICES ASSUME NEW p \in 1 .. m, Stands(y, p, W(i)) PROVE B(p) = SubSeq(x, i, n)
    OBVIOUS
  <2> DEFINE l == i + took[i]
             q == p + passed[p]
  <2>1. l \in Nat /\ l > i /\ p \in Nat /\ p > 0
    <3>1. /\ i \in Nat /\ took[i] \in Nat /\ took[i] > 0 /\ p \in Nat /\ p >= 1
      BY <1>10, <1>11, <1>12, Zenon
    <3> QED BY ONLY <3>1
  <2>2. W(i) = out[i] \o W(l)
    BY <1>1, Zenon
  <2>3. B(p) = back[p] \o B(q)
    BY <1>2, Zenon
  <2>4. l <= n + 1 /\ back[p] = SubSeq(x, i, l - 1) /\ passed[p] = Len(out[i])
    <3>1. Stands(y, p, W(i))
      OBVIOUS
    <3>2. Undone(x, i, took[i], out[i], back[p], passed[p])
      BY <1>3, <3>1, Zenon
    <3>3. Len(x) = n
      BY <1>0
    <3>4. l <= Len(x) + 1 /\ back[p] = SubSeq(x, i, l - 1) /\ passed[p] = Len(out[i])
      BY <3>2, Zenon DEF Undone
    <3>5. l <= n + 1
      BY ONLY <3>3, <3>4
    <3> QED BY <3>4, <3>5, Zenon
  <2>5. q = p + Len(out[i]) /\ out[i] \in Seq(S) /\ Len(out[i]) > 0
    BY <1>0, <2>4
  <2>10. n \in Nat /\ i \in 1 .. n /\ Len(x) = n /\ x \in Seq(S)
    BY <1>0
  <2> HIDE DEF l, q
  <2>6. W(l) \in Seq(S)
    BY <1>1, <2>1, Zenon
  <2>7. Stands(y, q, W(l))
    BY <2>2, <2>5, <2>6, StandsParts
  <2>8. B(q) = SubSeq(x, l, n)
    <3>1. CASE l \in 1 .. n
      <4>1. Len(W(l)) > 0
        BY <1>4, <3>1
      <4>2. q \in 1 .. m
        BY <2>7, <4>1 DEF Stands
      <4>4. l \in i + 1 .. n
        BY ONLY <2>1, <2>10, <3>1
      <4>3. l \in T
        BY <1>5, <4>4, Zenon
      <4> QED BY <2>7, <4>2, <4>3
    <3>2. CASE l \notin 1 .. n
      <4>1. W(l) = <<>>
        BY <1>1, <2>1, <3>2, Zenon
      <4>4. l = n + 1
        BY ONLY <2>1, <2>4, <2>10, <3>2
      <4>2. Len(y) = q - 1 /\ q \in Nat
        BY <2>7, <4>1 DEF Stands
      <4>3. B(q) = <<>>
        BY <1>2, <4>2
      <4> QED BY <4>3, <4>4
    <3> QED BY <3>1, <3>2
  <2>9. SubSeq(x, i, l - 1) \o SubSeq(x, l, n) = SubSeq(x, i, n)
    <3>1. i \in 1 .. Len(x) /\ l \in i .. Len(x) + 1
      BY ONLY <2>1, <2>4, <2>10
    <3> QED BY ONLY <2>10, <3>1, SplitAgain
  <2> QED BY <2>3, <2>4, <2>8, <2>9
<1> HIDE DEF T
<1>6. 1 .. n \subseteq T
  BY <1>5, FromTheEnd
<1>7. Stands(y, start, W(1))
  BY DEF W
<1>8. B(start) = x
  <2>1. CASE n = 0
    <3>1. 1 \in Nat /\ 1 \notin 1 .. n
      BY <2>1
    <3>4. W(1) = <<>>
      BY <1>1, <3>1, Zenon
    <3>5. x = <<>>
      <4>1. x \in Seq(S) /\ Len(x) = n
        OBVIOUS
      <4> QED BY ONLY <2>1, <4>1
    <3>2. Len(y) = start - 1 /\ start \in Nat
      BY <1>7, <3>4 DEF Stands
    <3>3. start \notin 1 .. m
      BY <3>2
    <3> QED BY <1>2, <3>2, <3>3, <3>5
  <2>2. CASE n > 0
    <3>4. 1 \in 1 .. n
      BY ONLY <1>9, <2>2
    <3>1. 1 \in T /\ Len(W(1)) > 0
      BY <1>4, <1>6, <3>4, Zenon
    <3>2. start \in 1 .. m
      BY <1>7, <3>1 DEF Stands
    <3>3. B(start) = SubSeq(x, 1, n)
      BY <1>7, <3>1, <3>2 DEF T
    <3> QED BY <3>3
  <2> QED BY <2>1, <2>2
<1> QED BY <1>8 DEF B

-----------------------------------------------------------------------------
(* Phase 1 and layer 1: runs                                               *)

\* Of some numbers that are not larger than b there is a largest.
LEMMA LargestExists ==
  ASSUME NEW b \in Nat, NEW T \in SUBSET (0 .. b), T # {}
  PROVE  \E m \in T : \A l \in T : m >= l
<1> DEFINE U == {b - m : m \in T}
<1>1. U \in SUBSET Nat /\ U # {}
  <2>1. \A m \in T : m \in 0 .. b /\ b - m \in Nat
    OBVIOUS
  <2> QED BY <2>1
<1>2. PICK u \in U : \A v \in U : u <= v
  BY <1>1, SmallestExists
<1>3. PICK m \in T : u = b - m
  BY <1>2
<1>4. ASSUME NEW l \in T PROVE m >= l
  <2>1. b - l \in U
    OBVIOUS
  <2> QED BY <1>2, <1>3, <2>1
<1> QED BY <1>4

\* Of some numbers the one with the least n[b], and of those the smallest, exists.
LEMMA BestExists ==
  ASSUME NEW A \in SUBSET Nat, A # {}, NEW n \in [A -> Nat]
  PROVE  \E b \in A : \A d \in A : n[b] < n[d] \/ (n[b] = n[d] /\ b <= d)
<1> DEFINE U == {n[b] : b \in A}
<1>1. U \in SUBSET Nat /\ U # {}
  OBVIOUS
<1>2. PICK u \in U : \A v \in U : u <= v
  BY <1>1, SmallestExists
<1> DEFINE V == {b \in A : n[b] = u}
<1>3. V \in SUBSET Nat /\ V # {}
  BY <1>2
<1>4. PICK b \in V : \A d \in V : b <= d
  BY <1>3, SmallestExists
<1>5. ASSUME NEW d \in A PROVE n[b] < n[d] \/ (n[b] = n[d] /\ b <= d)
  <2>1. n[d] \in U /\ u <= n[d] /\ n[b] = u /\ n[d] \in Nat /\ u \in Nat
    BY <1>1, <1>2, <1>4
  <2>2. CASE n[d] = u
    BY <1>4, <2>1, <2>2
  <2>3. CASE n[d] # u
    BY <2>1, <2>3
  <2> QED BY <2>2, <2>3
<1> QED BY <1>4, <1>5

\* FindBestChar finds a byte that does not occur when there is one, and then the
\* smallest of them.
LEMMA BestCharIs ==
  ASSUME NEW x \in Seq(Bytes), NEW allowed \in SUBSET Bytes, allowed # {}
  PROVE  /\ FindBestChar(x, allowed) \in allowed
         /\ \A d \in allowed : d \notin ToSet(x) =>
              FindBestChar(x, allowed) \notin ToSet(x) /\ FindBestChar(x, allowed) <= d
<1> DEFINE n == [b \in allowed |-> Cardinality({i \in DOMAIN x : x[i] = b})]
           best == FindBestChar(x, allowed)
<1>1. ASSUME NEW b \in allowed
      PROVE  /\ Cardinality({i \in DOMAIN x : x[i] = b}) \in Nat
             /\ Cardinality({i \in DOMAIN x : x[i] = b}) = 0 <=> b \notin ToSet(x)
  <2> DEFINE P == {i \in DOMAIN x : x[i] = b}
  <2>1. IsFiniteSet(1 .. Len(x)) /\ DOMAIN x = 1 .. Len(x)
    BY FS_Interval
  <2>2. IsFiniteSet(P)
    BY <2>1, FS_Subset
  <2>3. P = {} <=> b \notin ToSet(x)
    BY DEF ToSet
  <2> HIDE DEF P
  <2>4. Cardinality(P) \in Nat /\ (Cardinality(P) = 0 <=> P = {})
    BY <2>2, FS_CardinalityType, FS_EmptySet
  <2> QED BY <2>3, <2>4 DEF P
<1>2. n \in [allowed -> Nat] /\ allowed \in SUBSET Nat
  BY <1>1, CompressorAssumption DEF Bytes
<1>3. best = CHOOSE b \in allowed : \A d \in allowed : n[b] < n[d] \/ (n[b] = n[d] /\ b <= d)
  BY DEF FindBestChar
<1>4. \A b \in allowed : n[b] = 0 <=> b \notin ToSet(x)
  BY <1>1
<1> HIDE DEF n, best
<1>5. \E b \in allowed : \A d \in allowed : n[b] < n[d] \/ (n[b] = n[d] /\ b <= d)
  BY <1>2, BestExists
<1>6. best \in allowed /\ \A d \in allowed : n[best] < n[d] \/ (n[best] = n[d] /\ best <= d)
  BY <1>3, <1>5
<1>7. ASSUME NEW d \in allowed, d \notin ToSet(x) PROVE best \notin ToSet(x) /\ best <= d
  <2>1. n[d] = 0 /\ n[best] \in Nat
    BY <1>2, <1>4, <1>6, <1>7
  <2>2. n[best] = 0 /\ best <= d
    BY <1>6, <2>1
  <2> QED BY <1>4, <1>6, <2>2
<1> QED BY <1>6, <1>7 DEF best

\* A run has a byte at least, lies in the buffer, and its bytes are equal.
LEMMA RunIs ==
  ASSUME NEW x \in Seq(Bytes), NEW i \in 1 .. Len(x)
  PROVE  /\ Run(x, i) \in 1 .. CharValues + 2 /\ i + Run(x, i) - 1 <= Len(x)
         /\ \A j \in i .. i + Run(x, i) - 1 : x[j] = x[i]
<1> DEFINE T == {n \in 1 .. CharValues + 2 : i + n - 1 <= Len(x) /\ \A j \in i .. i + n - 1 : x[j] = x[i]}
           b == CharValues + 2
<1>1. b \in Nat /\ b >= 1
  BY CompressorAssumption
<1>2. 1 \in T
  <2>1. i .. i + 1 - 1 = {i}
    OBVIOUS
  <2> QED BY <1>1, <2>1
<1>3. T \in SUBSET (0 .. b)
  BY <1>1
<1> HIDE DEF b
<1>4. Run(x, i) = CHOOSE m \in T : \A l \in T : m >= l
  BY DEF Run, Max
<1> HIDE DEF T
<1>5. \E m \in T : \A l \in T : m >= l
  BY <1>1, <1>2, <1>3, LargestExists
<1>6. Run(x, i) \in T
  BY <1>4, <1>5
<1> QED BY <1>6 DEF T

\* What the assumption says about bytes.
LEMMA ByteFacts ==
  /\ CharValues \in Nat /\ CharValues > 4
  /\ 0 \in Bytes /\ Marker \in Bytes /\ Bytes \subseteq Nat
  /\ \A S \in SUBSET Nat : Seq(S) \subseteq Seq(Nat)
<1>1. CharValues \in Nat /\ CharValues > 4
  BY CompressorAssumption
<1>2. 0 \in Bytes /\ Marker \in Bytes /\ Bytes \subseteq Nat
  BY <1>1 DEF Bytes, Marker
<1>3. \A S \in SUBSET Nat : Seq(S) \subseteq Seq(Nat)
  BY SeqMonotonic
<1> QED BY <1>1, <1>2, <1>3

\* What phase 1 puts out at each place, and the places it takes.
RunOut(x, k) == [i \in DOMAIN x |-> IF Run(x, i) >= 4 THEN <<k, Run(x, i) - 3, x[i]>>
                                   ELSE IF x[i] = k THEN <<k, 0>> ELSE <<x[i]>>]
RunTook(x) == [i \in DOMAIN x |-> IF Run(x, i) >= 4 THEN Run(x, i) ELSE 1]

\* Phase 1 is a loop over the file behind its key.
LEMMA Phase1Is ==
  ASSUME NEW x \in Seq(Bytes), NEW n, n = Len(x), NEW k, k = FindBestChar(x, Bytes)
  PROVE  /\ k \in Bytes
         /\ RunOut(x, k) \in [1 .. n -> Seq(Bytes)] /\ RunTook(x) \in [1 .. n -> Nat \ {0}]
         /\ Phase1(x) = <<k>> \o Walk(x, 1, RunOut(x, k), RunTook(x))
         /\ Phase1(x) \in Seq(Bytes)
<1>1. k \in Bytes
  <2>1. Bytes # {}
    BY ByteFacts
  <2> QED BY <2>1, BestCharIs
<1>2. ASSUME NEW i \in 1 .. n
      PROVE  RunOut(x, k)[i] \in Seq(Bytes) /\ RunTook(x)[i] \in Nat \ {0}
  <2>1. x[i] \in Bytes /\ 0 \in Bytes /\ i \in DOMAIN x
    BY ByteFacts
  <2>2. Run(x, i) \in 1 .. CharValues + 2
    BY RunIs
  <2>3. Run(x, i) >= 4 => Run(x, i) - 3 \in Bytes
    BY <2>2, ByteFacts DEF Bytes
  <2>4. RunTook(x)[i] \in Nat \ {0}
    BY <2>1, <2>2, ByteFacts DEF RunTook
  <2>5. CASE Run(x, i) >= 4
    <3>1. RunOut(x, k)[i] = <<k, Run(x, i) - 3, x[i]>>
      BY <2>1, <2>5 DEF RunOut
    <3> QED BY <1>1, <2>1, <2>3, <2>4, <2>5, <3>1
  <2>6. CASE ~ (Run(x, i) >= 4)
    <3>1. RunOut(x, k)[i] = IF x[i] = k THEN <<k, 0>> ELSE <<x[i]>>
      BY <2>1, <2>6 DEF RunOut
    <3> QED BY <1>1, <2>1, <2>4, <3>1
  <2> QED BY <2>5, <2>6
<1>3. DOMAIN x = 1 .. n /\ n \in Nat
  OBVIOUS
<1>4. RunOut(x, k) \in [1 .. n -> Seq(Bytes)] /\ RunTook(x) \in [1 .. n -> Nat \ {0}]
  <2>1. RunOut(x, k) = [i \in 1 .. n |-> RunOut(x, k)[i]] /\ RunTook(x) = [i \in 1 .. n |-> RunTook(x)[i]]
    BY <1>3 DEF RunOut, RunTook
  <2> QED BY <1>2, <2>1
<1>5. Phase1(x) = <<k>> \o Walk(x, 1, RunOut(x, k), RunTook(x))
  BY DEF Phase1, RunOut, RunTook
<1>6. Walked(Bytes, x, n, RunOut(x, k), RunTook(x))
  <2>1. Codes(Bytes, x, n, RunOut(x, k), RunTook(x))
    BY <1>3, <1>4, Zenon DEF Codes
  <2> QED BY <2>1, WalkIs, Zenon
<1>7. Walk(x, 1, RunOut(x, k), RunTook(x)) \in Seq(Bytes)
  BY <1>6, Zenon DEF Walked
<1>8. <<k>> \in Seq(Bytes)
  BY <1>1
<1> QED BY <1>1, <1>4, <1>5, <1>7, <1>8

\* The byte at a place of the buffer.
LEMMA CharAtIs ==
  ASSUME NEW y \in Seq(Bytes), NEW p \in Nat
  PROVE  CharAt(y, p) \in Nat /\ (p \in 1 .. Len(y) => CharAt(y, p) = y[p])
<1>1. DOMAIN y = 1 .. Len(y)
  OBVIOUS
<1>2. p \in 1 .. Len(y) => y[p] \in Nat
  BY ByteFacts
<1> QED BY <1>1, <1>2, ByteFacts DEF CharAt

\* A part of a buffer from its bytes.
LEMMA PartIs ==
  ASSUME NEW S, NEW x \in Seq(S), NEW i \in 1 .. Len(x), NEW t \in Nat, i + t - 1 <= Len(x)
  PROVE  /\ SubSeq(x, i, i + t - 1) \in Seq(S) /\ Len(SubSeq(x, i, i + t - 1)) = t
         /\ \A j \in 1 .. t : SubSeq(x, i, i + t - 1)[j] = x[i + j - 1]
  OBVIOUS

\* A part of one byte.
LEMMA OneIs ==
  ASSUME NEW S, NEW x \in Seq(S), NEW i \in 1 .. Len(x)
  PROVE  SubSeq(x, i, i + 1 - 1) = <<x[i]>>
<1> DEFINE s == SubSeq(x, i, i + 1 - 1)
<1>1. 1 \in Nat /\ i + 1 - 1 <= Len(x) /\ i \in Nat /\ x[i] \in S
  OBVIOUS
<1>2. s \in Seq(S) /\ Len(s) = 1 /\ \A j \in 1 .. 1 : s[j] = x[i + j - 1]
  BY <1>1, PartIs
<1> HIDE DEF s
<1>3. s[1] = x[i]
  BY <1>1, <1>2
<1>4. s = <<x[i]>>
  BY <1>1, <1>2, <1>3
<1> QED BY <1>4 DEF s

\* A part of equal bytes.
LEMMA EqualsAre ==
  ASSUME NEW S, NEW x \in Seq(S), NEW i \in 1 .. Len(x), NEW t \in Nat, i + t - 1 <= Len(x),
         \A j \in i .. i + t - 1 : x[j] = x[i]
  PROVE  SubSeq(x, i, i + t - 1) = [j \in 1 .. t |-> x[i]]
<1> DEFINE s == SubSeq(x, i, i + t - 1)
<1>1. s \in Seq(S) /\ Len(s) = t /\ \A j \in 1 .. t : s[j] = x[i + j - 1]
  BY PartIs
<1> HIDE DEF s
<1>2. \A j \in 1 .. t : i + j - 1 \in i .. i + t - 1
  OBVIOUS
<1>3. \A j \in 1 .. t : s[j] = x[i]
  BY <1>1, <1>2
<1>4. s = [j \in 1 .. t |-> x[i]]
  BY <1>1, <1>3
<1> QED BY <1>4 DEF s

\* What layer 1 puts out at each place, and the places it takes.
RunBack(y) == [i \in DOMAIN y |-> IF y[i] # y[1] \/ CharAt(y, i + 1) = 0 THEN <<y[i]>>
                                 ELSE [j \in 1 .. CharAt(y, i + 1) + 3 |-> CharAt(y, i + 2)]]
RunPassed(y) == [i \in DOMAIN y |-> IF y[i] # y[1] THEN 1 ELSE IF CharAt(y, i + 1) = 0 THEN 2 ELSE 3]

\* Layer 1 is a loop over the packed runs behind the key.
LEMMA Layer1Is ==
  ASSUME NEW y PROVE Layer1(y) = Walk(y, 2, RunBack(y), RunPassed(y))
<1> DEFINE plain == [i \in DOMAIN y |-> y[i] # y[1]]
           count == [i \in DOMAIN y |-> CharAt(y, i + 1)]
           back == [i \in DOMAIN y |-> IF plain[i] \/ count[i] = 0 THEN <<y[i]>>
                                      ELSE [j \in 1 .. count[i] + 3 |-> CharAt(y, i + 2)]]
           passed == [i \in DOMAIN y |-> IF plain[i] THEN 1 ELSE IF count[i] = 0 THEN 2 ELSE 3]
<1>1. Layer1(y) = Walk(y, 2, back, passed)
  BY DEF Layer1
<1>2. \A i \in DOMAIN y : plain[i] = (y[i] # y[1]) /\ count[i] = CharAt(y, i + 1)
  OBVIOUS
<1> HIDE DEF plain, count
<1>3. back = RunBack(y)
  BY <1>2, Zenon DEF RunBack
<1>4. passed = RunPassed(y)
  BY <1>2, Zenon DEF RunPassed
<1> QED BY <1>1, <1>3, <1>4, Zenon

\* Layer 1 puts out bytes and moves on.
LEMMA RunBackTyped ==
  ASSUME NEW y \in Seq(Bytes), NEW m, m = Len(y)
  PROVE  RunBack(y) \in [1 .. m -> Seq(Nat)] /\ RunPassed(y) \in [1 .. m -> Nat \ {0}]
<1>1. DOMAIN y = 1 .. m
  OBVIOUS
<1>2. ASSUME NEW p \in 1 .. m PROVE RunBack(y)[p] \in Seq(Nat) /\ RunPassed(y)[p] \in Nat \ {0}
  <2> DEFINE c == CharAt(y, p + 1)
             d == CharAt(y, p + 2)
  <2>1. p + 1 \in Nat /\ p + 2 \in Nat
    OBVIOUS
  <2>2. c \in Nat /\ d \in Nat
    BY <2>1, CharAtIs
  <2>3. RunBack(y)[p] = IF y[p] # y[1] \/ c = 0 THEN <<y[p]>> ELSE [j \in 1 .. c + 3 |-> d]
    BY <1>1 DEF RunBack
  <2>4. RunPassed(y)[p] = IF y[p] # y[1] THEN 1 ELSE IF c = 0 THEN 2 ELSE 3
    BY <1>1 DEF RunPassed
  <2> HIDE DEF c, d
  <2>5. y[p] \in Nat
    BY ByteFacts
  <2>6. [j \in 1 .. c + 3 |-> d] \in Seq(Nat) /\ <<y[p]>> \in Seq(Nat)
    <3>1. c + 3 \in Nat
      BY <2>2
    <3> QED BY <2>2, <2>5, <3>1
  <2>7. RunBack(y)[p] \in Seq(Nat)
    BY ONLY <2>3, <2>6
  <2>8. RunPassed(y)[p] \in Nat \ {0}
    BY ONLY <2>4
  <2> QED BY <2>7, <2>8
<1>3. DOMAIN RunBack(y) = 1 .. m /\ DOMAIN RunPassed(y) = 1 .. m
  BY <1>1 DEF RunBack, RunPassed
<1>4. RunBack(y) = [p \in 1 .. m |-> RunBack(y)[p]] /\ RunPassed(y) = [p \in 1 .. m |-> RunPassed(y)[p]]
  BY <1>1 DEF RunBack, RunPassed
<1> QED BY <1>2, <1>4

\* The bytes of o stand at p.
Part(y, p, o) == \A j \in 1 .. Len(o) : p - 1 + j \in 1 .. Len(y) /\ y[p - 1 + j] = o[j]

\* Where phase 1 put out o, layer 1 puts out the part that o stands for.
LEMMA RunPlace ==
  ASSUME NEW x \in Seq(Bytes), NEW k \in Bytes, NEW i \in 1 .. Len(x),
         NEW y \in Seq(Bytes), NEW p \in 1 .. Len(y), y[1] = k,
         Part(y, p, RunOut(x, k)[i])
  PROVE  Undone(x, i, RunTook(x)[i], RunOut(x, k)[i], RunBack(y)[p], RunPassed(y)[p])
<1> DEFINE o == RunOut(x, k)[i]
           t == RunTook(x)[i]
<1> SUFFICES /\ i + t <= Len(x) + 1 /\ RunBack(y)[p] = SubSeq(x, i, (i + t) - 1)
             /\ RunPassed(y)[p] = Len(o)
  BY Zenon DEF Undone
<1>16. Part(y, p, o)
  OBVIOUS
<1> DEFINE r == Run(x, i)
           n == Len(x)
           m == Len(y)
           c == CharAt(y, p + 1)
           d == CharAt(y, p + 2)
<1>1. /\ r \in 1 .. CharValues + 2 /\ i + r - 1 <= n
      /\ \A j \in i .. i + r - 1 : x[j] = x[i]
  BY RunIs
<1>2. x[i] \in Nat /\ k \in Nat
  BY ByteFacts
<1>3. DOMAIN x = 1 .. n /\ DOMAIN y = 1 .. m /\ n \in Nat /\ m \in Nat /\ CharValues \in Nat
  BY ByteFacts
<1>4. /\ o = IF r >= 4 THEN <<k, r - 3, x[i]>> ELSE IF x[i] = k THEN <<k, 0>> ELSE <<x[i]>>
      /\ t = IF r >= 4 THEN r ELSE 1
  BY <1>3 DEF RunOut, RunTook
<1>5. RunBack(y)[p] = IF y[p] # k \/ c = 0 THEN <<y[p]>> ELSE [j \in 1 .. c + 3 |-> d]
  BY <1>3 DEF RunBack
<1>6. RunPassed(y)[p] = IF y[p] # k THEN 1 ELSE IF c = 0 THEN 2 ELSE 3
  BY <1>3 DEF RunPassed
<1>7. p + 1 \in Nat /\ p + 2 \in Nat /\ p \in Nat /\ i \in Nat /\ i <= n /\ i >= 1
  BY <1>3
<1>8. (p + 1 \in 1 .. m => c = y[p + 1]) /\ (p + 2 \in 1 .. m => d = y[p + 2])
  BY <1>7, CharAtIs
<1>9. \A j \in 1 .. Len(o) : p - 1 + j \in 1 .. m /\ y[p - 1 + j] = o[j]
  BY <1>16, Zenon DEF Part
<1>10. p - 1 + 1 = p /\ p - 1 + 2 = p + 1 /\ p - 1 + 3 = p + 2
  BY <1>7
<1>17. i + 1 - 1 = (i + 1) - 1 /\ i + r - 1 = (i + r) - 1
  BY <1>1, <1>7
<1>11. SubSeq(x, i, (i + 1) - 1) = <<x[i]>>
  <2>1. SubSeq(x, i, i + 1 - 1) = <<x[i]>>
    BY OneIs
  <2> QED BY <1>17, <2>1, Zenon
<1>12. SubSeq(x, i, (i + r) - 1) = [j \in 1 .. r |-> x[i]]
  <2>1. SubSeq(x, i, i + r - 1) = [j \in 1 .. r |-> x[i]]
    BY <1>1, <1>3, EqualsAre
  <2> QED BY <1>17, <2>1, Zenon
<1> HIDE DEF r, n, m, c, d, o, t
<1>13. CASE r >= 4
  <2> DEFINE e == r - 3
  <2>1. o = <<k, e, x[i]>> /\ t = r /\ e \in Nat /\ e # 0 /\ e + 3 = r
    BY <1>1, <1>3, <1>4, <1>13
  <2> HIDE DEF e
  <2>2. Len(o) = 3 /\ o[1] = k /\ o[2] = e /\ o[3] = x[i]
    BY <2>1
  <2>3. 1 \in 1 .. Len(o) /\ 2 \in 1 .. Len(o) /\ 3 \in 1 .. Len(o)
    BY <2>2
  <2>4. y[p] = k /\ p + 1 \in 1 .. m /\ y[p + 1] = e /\ p + 2 \in 1 .. m /\ y[p + 2] = x[i]
    BY <1>9, <1>10, <2>2, <2>3
  <2>5. c = e /\ d = x[i]
    BY <1>8, <2>4
  <2>6. RunBack(y)[p] = [j \in 1 .. r |-> x[i]] /\ RunPassed(y)[p] = 3
    BY <1>5, <1>6, <2>1, <2>4, <2>5
  <2>7. i + r <= n + 1
    BY <1>1, <1>3, <1>7
  <2> QED BY ONLY <1>12, <2>1, <2>2, <2>6, <2>7 DEF n
<1>14. CASE ~ (r >= 4) /\ x[i] = k
  <2>1. o = <<k, 0>> /\ t = 1
    BY <1>4, <1>14
  <2>2. Len(o) = 2 /\ o[1] = k /\ o[2] = 0
    BY <2>1
  <2>3. 1 \in 1 .. Len(o) /\ 2 \in 1 .. Len(o)
    BY <2>2
  <2>4. y[p] = k /\ p + 1 \in 1 .. m /\ y[p + 1] = 0
    BY <1>9, <1>10, <2>2, <2>3
  <2>5. RunBack(y)[p] = <<x[i]>> /\ RunPassed(y)[p] = 2
    BY <1>5, <1>6, <1>8, <1>14, <2>4
  <2>6. i + 1 <= n + 1
    BY <1>3, <1>7
  <2> QED BY ONLY <1>11, <2>1, <2>2, <2>5, <2>6 DEF n
<1>15. CASE ~ (r >= 4) /\ x[i] # k
  <2>1. o = <<x[i]>> /\ t = 1
    BY <1>4, <1>15
  <2>2. Len(o) = 1 /\ o[1] = x[i]
    BY <2>1
  <2>3. 1 \in 1 .. Len(o)
    BY <2>2
  <2>4. y[p] = x[i]
    BY <1>9, <1>10, <2>2, <2>3
  <2>5. RunBack(y)[p] = <<x[i]>> /\ RunPassed(y)[p] = 1
    BY <1>5, <1>6, <1>15, <2>4
  <2>6. i + 1 <= n + 1
    BY <1>3, <1>7
  <2> QED BY ONLY <1>11, <2>1, <2>2, <2>5, <2>6 DEF n
<1> QED BY <1>13, <1>14, <1>15

\* What stands where a loop put something out: the part of that place, then the rest.
LEMMA PlaceParts ==
  ASSUME NEW S, NEW x, NEW n, NEW out, NEW took, Codes(S, x, n, out, took),
         NEW y \in Seq(S), NEW i \in 1 .. n, NEW p, Stands(y, p, Walk(x, i, out, took))
  PROVE  /\ Part(y, p, out[i]) /\ out[i] \in Seq(S)
         /\ Stands(y, p + Len(out[i]), Walk(x, i + took[i], out, took))
         /\ Walk(x, i + took[i], out, took) \in Seq(S)
<1> DEFINE o == out[i]
           r == Walk(x, i + took[i], out, took)
<1>1. Walked(S, x, n, out, took)
  BY WalkIs
<1>2. Walk(x, i, out, took) = o \o r
  BY <1>1, Zenon DEF Walked
<1>3. i + took[i] \in Nat
  BY ONLY Codes(S, x, n, out, took), i \in 1 .. n DEF Codes
<1>4. r \in Seq(S)
  BY <1>1, <1>3, Zenon DEF Walked
<1>5. o \in Seq(S)
  BY DEF Codes
<1>6. Stands(y, p, o \o r)
  BY <1>2, Zenon
<1> HIDE DEF o, r
<1>7. /\ \A j \in 1 .. Len(o) : p - 1 + j \in 1 .. Len(y) /\ y[p - 1 + j] = o[j]
      /\ Stands(y, p + Len(o), r)
  BY <1>4, <1>5, <1>6, StandsParts
<1>8. Part(y, p, o)
  BY <1>7, Zenon DEF Part
<1> QED BY <1>4, <1>5, <1>7, <1>8, Zenon DEF o, r

\* What is put behind something stands there.
LEMMA StandsBehind ==
  ASSUME NEW S, NEW a \in Seq(S), NEW w \in Seq(S)
  PROVE  Stands(a \o w, Len(a) + 1, w) /\ a \o w \in Seq(S)
<1> DEFINE v == a \o w
<1>1. v \in Seq(S) /\ Len(v) = Len(a) + Len(w) /\ \A j \in 1 .. Len(w) : v[Len(a) + j] = w[j]
  BY Joined
<1> HIDE DEF v
<1>2. Len(a) \in Nat /\ Len(w) \in Nat
  OBVIOUS
<1>3. Len(a) + 1 \in Nat \ {0} /\ Len(v) = (Len(a) + 1) - 1 + Len(w)
  BY <1>1, <1>2
<1>4. ASSUME NEW j \in 1 .. Len(w) PROVE v[(Len(a) + 1) - 1 + j] = w[j]
  <2>1. (Len(a) + 1) - 1 + j = Len(a) + j
    BY <1>2
  <2> QED BY <1>1, <2>1
<1>5. Stands(v, Len(a) + 1, w)
  BY <1>3, <1>4 DEF Stands
<1> QED BY <1>1, <1>5 DEF v

\* Layer 1 undoes phase 1.
THEOREM Layer1Undoes ==
  ASSUME NEW x \in Seq(Bytes)
  PROVE  Layer1(Phase1(x)) = x
<1>0. PICK n \in Nat : n = Len(x)
  OBVIOUS
<1>1. PICK k : k = FindBestChar(x, Bytes)
  OBVIOUS
<1>2. PICK out : out = RunOut(x, k)
  OBVIOUS
<1>3. PICK took : took = RunTook(x)
  OBVIOUS
<1> DEFINE w == Walk(x, 1, out, took)
<1>4. k \in Bytes /\ out \in [1 .. n -> Seq(Bytes)] /\ took \in [1 .. n -> Nat \ {0}]
  BY <1>0, <1>1, <1>2, <1>3, Phase1Is
<1>5. Phase1(x) = <<k>> \o w
  BY <1>1, <1>2, <1>3, Phase1Is
<1>6. DOMAIN x = 1 .. n
  BY <1>0
<1>19. n \in Nat /\ Codes(Bytes, x, n, out, took)
  BY <1>4, <1>6 DEF Codes
<1>7. Walked(Bytes, x, n, out, took)
  BY <1>19, WalkIs
<1>8. w \in Seq(Bytes)
  BY <1>7, Zenon DEF Walked
<1>9. PICK y : y = Phase1(x)
  OBVIOUS
<1>10. PICK m : m = Len(y)
  OBVIOUS
<1>11. y \in Seq(Bytes) /\ Stands(y, 2, w) /\ y[1] = k
  <2> HIDE DEF w
  <2>1. <<k>> \in Seq(Bytes) /\ Len(<<k>>) = 1 /\ <<k>>[1] = k
    BY <1>4
  <2>2. Stands(<<k>> \o w, 1 + 1, w) /\ <<k>> \o w \in Seq(Bytes)
    BY <1>8, <2>1, StandsBehind
  <2>3. (<<k>> \o w)[1] = k
    BY <1>8, <2>1, Joined
  <2> QED BY <1>5, <1>9, <2>2, <2>3
<1>12. PICK back : back = RunBack(y)
  OBVIOUS
<1>13. PICK passed : passed = RunPassed(y)
  OBVIOUS
<1>14. m \in Nat /\ back \in [1 .. m -> Seq(Nat)] /\ passed \in [1 .. m -> Nat \ {0}]
  BY <1>10, <1>11, <1>12, <1>13, RunBackTyped
<1>15. x \in Seq(Nat) /\ y \in Seq(Nat) /\ out \in [1 .. n -> Seq(Nat)]
  <2>1. Seq(Bytes) \subseteq Seq(Nat)
    BY ByteFacts
  <2> QED BY <1>4, <1>11, <2>1
<1>16. ASSUME NEW i \in 1 .. n, NEW p \in 1 .. m, Stands(y, p, Walk(x, i, out, took))
       PROVE  Undone(x, i, took[i], out[i], back[p], passed[p])
  <2>1. y \in Seq(Bytes) /\ Codes(Bytes, x, n, out, took) /\ Stands(y, p, Walk(x, i, out, took))
    BY <1>11, <1>16, <1>19
  <2>2. Part(y, p, out[i])
    BY ONLY <2>1, i \in 1 .. n, PlaceParts, Zenon
  <2>3. k \in Bytes /\ y \in Seq(Bytes) /\ y[1] = k /\ i \in 1 .. Len(x) /\ p \in 1 .. Len(y)
    BY <1>0, <1>4, <1>10, <1>11
  <2>4. Part(y, p, RunOut(x, k)[i])
    BY <1>2, <2>2, Zenon
  <2>5. Undone(x, i, RunTook(x)[i], RunOut(x, k)[i], RunBack(y)[p], RunPassed(y)[p])
    BY ONLY x \in Seq(Bytes), <2>3, <2>4, RunPlace, Zenon
  <2> QED BY <1>2, <1>3, <1>12, <1>13, <2>5, Zenon
<1>17. ASSUME NEW i \in 1 .. n PROVE Len(out[i]) > 0
  <2>1. PICK o : o = out[i]
    OBVIOUS
  <2>2. o = <<k, Run(x, i) - 3, x[i]>> \/ o = <<k, 0>> \/ o = <<x[i]>>
    BY <1>2, <1>6, <2>1 DEF RunOut
  <2>3. Len(o) > 0
    <3>1. CASE o = <<k, Run(x, i) - 3, x[i]>>
      BY ONLY <3>1
    <3>2. CASE o = <<k, 0>>
      BY ONLY <3>2
    <3>3. CASE o = <<x[i]>>
      BY ONLY <3>3
    <3> QED BY <2>2, <3>1, <3>2, <3>3
  <2> QED BY <2>1, <2>3
<1>20. Codes(Nat, x, n, out, took) /\ Codes(Nat, y, m, back, passed)
  <2>1. DOMAIN y = 1 .. m
    BY <1>10, <1>11
  <2> QED BY <1>4, <1>6, <1>14, <1>15, <1>19, <2>1 DEF Codes
<1>21. Inverts(x, n, out, took, y, m, back, passed)
  BY <1>16, Zenon DEF Inverts
<1> HIDE DEF w
<1>18. Walk(y, 2, back, passed) = x
  <2>1. Stands(y, 2, Walk(x, 1, out, took))
    BY <1>11 DEF w
  <2> QED BY ONLY <1>15, <1>17, <1>20, <1>21, <2>1, Undoes
<1> QED BY <1>9, <1>12, <1>13, <1>18, Layer1Is

-----------------------------------------------------------------------------
(* Phase 3 and layer 3: pairs                                              *)

\* What layer 3 puts out at each place of y, and the places it takes.
PairBack(y, s) == [i \in DOMAIN y |-> IF y[i] = y[1] /\ CharAt(y, i + 1) # s THEN Window(y, 2, 2) ELSE <<y[i]>>]
PairPassed(y, s) == [i \in DOMAIN y |-> IF y[i] = y[1] /\ CharAt(y, i + 1) = s THEN 2 ELSE 1]

\* A round of layer 3 is a loop over the data behind the key and the pair.
LEMMA PairsBackIs ==
  ASSUME NEW y, NEW s PROVE PairsBack(y, s) = Walk(y, 4, PairBack(y, s), PairPassed(y, s))
<1> DEFINE kept == [i \in DOMAIN y |-> y[i] = y[1] /\ CharAt(y, i + 1) = s]
           back == [i \in DOMAIN y |-> IF y[i] = y[1] /\ ~ kept[i] THEN Window(y, 2, 2) ELSE <<y[i]>>]
           passed == [i \in DOMAIN y |-> IF kept[i] THEN 2 ELSE 1]
<1>1. PairsBack(y, s) = Walk(y, 4, back, passed)
  BY DEF PairsBack
<1>2. \A i \in DOMAIN y : kept[i] = (y[i] = y[1] /\ CharAt(y, i + 1) = s)
  OBVIOUS
<1> HIDE DEF kept
<1>3. back = PairBack(y, s)
  BY <1>2 DEF PairBack
<1>4. passed = PairPassed(y, s)
  BY <1>2 DEF PairPassed
<1> QED BY <1>1, <1>3, <1>4, Zenon

\* What a round of phase 3 puts out at each place of x, and the places it takes, when
\* k stands for the pair w.
PairOn(x, s, k, w, i) == x[i] # k /\ i < Len(x) - 1 /\ <<x[i], x[i + 1]>> = w /\ x[i + 2] # s
PairOut(x, s, k, w) == [i \in DOMAIN x |-> IF x[i] = k THEN <<k, s>>
                                          ELSE IF PairOn(x, s, k, w, i) THEN <<k>> ELSE <<x[i]>>]
PairTook(x, s, k, w) == [i \in DOMAIN x |-> IF PairOn(x, s, k, w, i) THEN 2 ELSE 1]

\* Of the pair that is replaced only that it is one of the pairs matters.
LEMMA ShorterIs ==
  ASSUME packed \in Seq(Bytes), Shrinks
  PROVE  \E k \in Bytes \ {special}, w \in Bytes \X Bytes :
           Shorter = (<<k>> \o w) \o Walk(packed, 1, PairOut(packed, special, k, w), PairTook(packed, special, k, w))
<1> DEFINE k == FindBestChar(packed, Bytes \ {special})
           w == BestPair
           replaced == [i \in DOMAIN packed |-> packed[i] # k /\ PairAt(i, w)]
           out == [i \in DOMAIN packed |-> IF packed[i] = k THEN <<k, special>>
                                          ELSE IF replaced[i] THEN <<k>> ELSE <<packed[i]>>]
           took == [i \in DOMAIN packed |-> IF replaced[i] THEN 2 ELSE 1]
<1>1. Shorter = (<<k>> \o w) \o Walk(packed, 1, out, took)
  BY DEF Shorter
<1>2. \A i \in DOMAIN packed : replaced[i] = PairOn(packed, special, k, w, i)
  BY DEF PairAt, PairFrom, PairOn
<1>3. k \in Bytes \ {special}
  <2>1. Bytes \ {special} # {} /\ Bytes \ {special} \in SUBSET Bytes
    <3>1. 0 \in Bytes /\ 1 \in Bytes
      BY ByteFacts DEF Bytes
    <3> QED BY <3>1
  <2> QED BY <2>1, BestCharIs
<1>4. w \in Bytes \X Bytes
  <2>1. Occurs(w) >= 3
    BY DEF Shrinks
  <2>2. PICK i \in 1 .. Len(packed) - 1 : PairFrom(i) = w
    <3>1. CASE {i \in 1 .. Len(packed) - 1 : PairFrom(i) = w} = {}
      <4>1. Occurs(w) = 0
        BY <3>1, FS_EmptySet DEF Occurs
      <4> QED BY <2>1, <4>1
    <3> QED BY <3>1
  <2>3. i \in 1 .. Len(packed) /\ i + 1 \in 1 .. Len(packed)
    OBVIOUS
  <2>4. packed[i] \in Bytes /\ packed[i + 1] \in Bytes
    BY <2>3
  <2> QED BY <2>2, <2>4 DEF PairFrom
<1> HIDE DEF k, w, replaced
<1>5. out = PairOut(packed, special, k, w)
  BY <1>2 DEF PairOut
<1>6. took = PairTook(packed, special, k, w)
  BY <1>2 DEF PairTook
<1> QED BY <1>1, <1>3, <1>4, <1>5, <1>6

\* A round of phase 3 puts out bytes and moves on.
LEMMA PairOutTyped ==
  ASSUME NEW x \in Seq(Bytes), NEW n, n = Len(x), NEW s \in Bytes, NEW k \in Bytes, NEW w
  PROVE  /\ Codes(Bytes, x, n, PairOut(x, s, k, w), PairTook(x, s, k, w))
         /\ \A i \in 1 .. n : Len(PairOut(x, s, k, w)[i]) > 0
<1>1. DOMAIN x = 1 .. n /\ n \in Nat
  OBVIOUS
<1>2. ASSUME NEW i \in 1 .. n
      PROVE  /\ PairOut(x, s, k, w)[i] \in Seq(Bytes) /\ Len(PairOut(x, s, k, w)[i]) > 0
             /\ PairTook(x, s, k, w)[i] \in Nat \ {0}
  <2>1. x[i] \in Bytes
    OBVIOUS
  <2>2. <<k, s>> \in Seq(Bytes) /\ <<k>> \in Seq(Bytes) /\ <<x[i]>> \in Seq(Bytes)
    BY <2>1
  <2>3. Len(<<k, s>>) > 0 /\ Len(<<k>>) > 0 /\ Len(<<x[i]>>) > 0
    OBVIOUS
  <2>4. \/ PairOut(x, s, k, w)[i] = <<k, s>> \/ PairOut(x, s, k, w)[i] = <<k>>
        \/ PairOut(x, s, k, w)[i] = <<x[i]>>
    BY <1>1 DEF PairOut
  <2>5. PairTook(x, s, k, w)[i] \in {1, 2}
    BY <1>1 DEF PairTook
  <2>6. PairOut(x, s, k, w)[i] \in Seq(Bytes) /\ Len(PairOut(x, s, k, w)[i]) > 0
    BY ONLY <2>2, <2>3, <2>4, Zenon
  <2>7. PairTook(x, s, k, w)[i] \in Nat \ {0}
    BY ONLY <2>5
  <2> QED BY <2>6, <2>7, Zenon
<1>3. /\ PairOut(x, s, k, w) = [i \in 1 .. n |-> PairOut(x, s, k, w)[i]]
      /\ PairTook(x, s, k, w) = [i \in 1 .. n |-> PairTook(x, s, k, w)[i]]
  BY <1>1 DEF PairOut, PairTook
<1>4. PairOut(x, s, k, w) \in [1 .. n -> Seq(Bytes)]
  BY <1>2, <1>3
<1>5. PairTook(x, s, k, w) \in [1 .. n -> Nat \ {0}]
  BY <1>2, <1>3
<1> QED BY <1>1, <1>2, <1>4, <1>5 DEF Codes

\* A round of layer 3 puts out bytes and moves on.
LEMMA PairBackTyped ==
  ASSUME NEW y \in Seq(Bytes), NEW m, m = Len(y), NEW s
  PROVE  Codes(Bytes, y, m, PairBack(y, s), PairPassed(y, s))
<1>1. DOMAIN y = 1 .. m /\ m \in Nat
  OBVIOUS
<1>2. ASSUME NEW p \in 1 .. m
      PROVE  PairBack(y, s)[p] \in Seq(Bytes) /\ PairPassed(y, s)[p] \in Nat \ {0}
  <2>1. <<y[p]>> \in Seq(Bytes)
    <3>1. y[p] \in Bytes
      OBVIOUS
    <3> QED BY <3>1
  <2>2. Window(y, 2, 2) \in Seq(Bytes)
    <3> DEFINE e == Min({2 + 2 - 1, Len(y)})
    <3>1. Len(y) \in Nat /\ 2 + 2 - 1 = 3
      OBVIOUS
    <3>2. e \in {3, Len(y)} /\ e <= Len(y)
      <4>1. e = CHOOSE a \in {3, Len(y)} : \A b \in {3, Len(y)} : a <= b
        BY <3>1 DEF Min
      <4>2. \E a \in {3, Len(y)} : \A b \in {3, Len(y)} : a <= b
        BY <3>1
      <4> HIDE DEF e
      <4>3. e \in {3, Len(y)} /\ \A b \in {3, Len(y)} : e <= b
        BY <4>1, <4>2
      <4> QED BY <4>3
    <3> HIDE DEF e
    <3>3. SubSeq(y, 2, e) \in Seq(Bytes)
      BY <3>1, <3>2
    <3> QED BY <3>3 DEF Window, e
  <2>4. PairBack(y, s)[p] \in {Window(y, 2, 2), <<y[p]>>}
    BY <1>1 DEF PairBack
  <2>5. PairPassed(y, s)[p] \in {1, 2}
    BY <1>1 DEF PairPassed
  <2>6. PairPassed(y, s)[p] \in Nat \ {0}
    BY ONLY <2>5
  <2>7. PairBack(y, s)[p] \in Seq(Bytes)
    BY ONLY <2>1, <2>2, <2>4
  <2> QED BY <2>6, <2>7, Zenon
<1>3. /\ PairBack(y, s) = [i \in 1 .. m |-> PairBack(y, s)[i]]
      /\ PairPassed(y, s) = [i \in 1 .. m |-> PairPassed(y, s)[i]]
  BY <1>1 DEF PairBack, PairPassed
<1>4. PairBack(y, s) \in [1 .. m -> Seq(Bytes)]
  BY <1>2, <1>3
<1>5. PairPassed(y, s) \in [1 .. m -> Nat \ {0}]
  BY <1>2, <1>3
<1> QED BY <1>1, <1>4, <1>5 DEF Codes

\* A part of two bytes.
LEMMA TwoAre ==
  ASSUME NEW S, NEW x \in Seq(S), NEW i \in 1 .. Len(x), i + 1 <= Len(x)
  PROVE  SubSeq(x, i, (i + 2) - 1) = <<x[i], x[i + 1]>>
<1> DEFINE s == SubSeq(x, i, (i + 2) - 1)
<1>1. i \in Nat /\ x[i] \in S /\ x[i + 1] \in S /\ (i + 2) - 1 = i + 1
  OBVIOUS
<1>3. i + 2 - 1 <= Len(x) /\ (i + 2) - 1 = i + 2 - 1 /\ 2 \in Nat
  BY <1>1
<1>5. s \in Seq(S) /\ Len(s) = 2 /\ \A j \in 1 .. 2 : s[j] = x[i + j - 1]
  BY <1>3, PartIs
<1> HIDE DEF s
<1>6. i + 1 - 1 = i /\ i + 2 - 1 = i + 1 /\ 1 \in 1 .. 2 /\ 2 \in 1 .. 2
  BY <1>1
<1>7. s[1] = x[i + 1 - 1] /\ s[2] = x[i + 2 - 1]
  BY <1>5, <1>6, Zenon
<1>2. s \in Seq(S) /\ Len(s) = 2 /\ s[1] = x[i] /\ s[2] = x[i + 1]
  BY ONLY <1>5, <1>6, <1>7
<1>4. s = <<x[i], x[i + 1]>>
  BY <1>1, <1>2
<1> QED BY <1>4 DEF s

\* A part of the one byte a part is made of.
LEMMA OneIsToo ==
  ASSUME NEW S, NEW x \in Seq(S), NEW i \in 1 .. Len(x)
  PROVE  SubSeq(x, i, (i + 1) - 1) = <<x[i]>>
<1>1. i + 1 - 1 = (i + 1) - 1
  OBVIOUS
<1>2. SubSeq(x, i, i + 1 - 1) = <<x[i]>>
  BY OneIs
<1> QED BY <1>1, <1>2, Zenon

\* Where a round of phase 3 put something out, layer 3 puts out the part it stands for.
LEMMA PairPlace ==
  ASSUME NEW x \in Seq(Bytes), NEW s \in Bytes, NEW k \in Bytes, k # s, NEW w,
         NEW i \in 1 .. Len(x), NEW y \in Seq(Bytes), NEW p \in 1 .. Len(y),
         y[1] = k, Window(y, 2, 2) = w, Part(y, p, PairOut(x, s, k, w)[i]),
         PairOn(x, s, k, w, i) => CharAt(y, p + 1) # s
  PROVE  Undone(x, i, PairTook(x, s, k, w)[i], PairOut(x, s, k, w)[i], PairBack(y, s)[p], PairPassed(y, s)[p])
<1> DEFINE n == Len(x)
           m == Len(y)
           o == PairOut(x, s, k, w)[i]
           t == PairTook(x, s, k, w)[i]
           c == CharAt(y, p + 1)
           On == PairOn(x, s, k, w, i)
<1> SUFFICES i + t <= n + 1 /\ PairBack(y, s)[p] = SubSeq(x, i, (i + t) - 1) /\ PairPassed(y, s)[p] = Len(o)
  BY Zenon DEF Undone
<1>1. DOMAIN x = 1 .. n /\ DOMAIN y = 1 .. m /\ n \in Nat /\ m \in Nat /\ i \in Nat /\ p \in Nat /\ i <= n /\ i \in 1 .. n
  OBVIOUS
<1>2. /\ o = IF x[i] = k THEN <<k, s>> ELSE IF On THEN <<k>> ELSE <<x[i]>>
      /\ t = IF On THEN 2 ELSE 1
  BY <1>1 DEF PairOut, PairTook
<1>3. PairBack(y, s)[p] = IF y[p] = k /\ c # s THEN w ELSE <<y[p]>>
  BY <1>1 DEF PairBack
<1>4. PairPassed(y, s)[p] = IF y[p] = k /\ c = s THEN 2 ELSE 1
  BY <1>1 DEF PairPassed
<1>5. \A j \in 1 .. Len(o) : p - 1 + j \in 1 .. m /\ y[p - 1 + j] = o[j]
  BY Zenon DEF Part
<1>6. p + 1 \in 1 .. m => c = y[p + 1]
  <2>1. p + 1 \in Nat
    BY <1>1
  <2> QED BY <2>1, CharAtIs
<1>7. p - 1 + 1 = p /\ p - 1 + 2 = p + 1 /\ i + 1 <= n + 1
  BY <1>1
<1>8. SubSeq(x, i, (i + 1) - 1) = <<x[i]>>
  BY <1>1, OneIsToo
<1>9. On => x[i] # k /\ i < n - 1 /\ <<x[i], x[i + 1]>> = w /\ c # s
  BY DEF PairOn
<1> HIDE DEF n, m, o, t, c, On
<1>10. CASE x[i] = k
  <2>1. o = <<k, s>> /\ t = 1
    BY <1>2, <1>9, <1>10
  <2>2. Len(o) = 2 /\ o[1] = k /\ o[2] = s /\ 1 \in 1 .. Len(o) /\ 2 \in 1 .. Len(o)
    BY <2>1
  <2>3. y[p] = k /\ p + 1 \in 1 .. m /\ y[p + 1] = s
    BY <1>5, <1>7, <2>2
  <2>4. PairBack(y, s)[p] = <<x[i]>> /\ PairPassed(y, s)[p] = 2
    BY <1>3, <1>4, <1>6, <1>10, <2>3
  <2> QED BY <1>7, <1>8, <2>1, <2>2, <2>4
<1>11. CASE x[i] # k /\ On
  <2>1. o = <<k>> /\ t = 2
    BY <1>2, <1>11
  <2>2. Len(o) = 1 /\ o[1] = k /\ 1 \in 1 .. Len(o)
    BY <2>1
  <2>3. y[p] = k
    BY <1>5, <1>7, <2>2
  <2>4. PairBack(y, s)[p] = w /\ PairPassed(y, s)[p] = 1
    BY <1>3, <1>4, <1>9, <1>11, <2>3
  <2>5. i + 1 <= n /\ i + 2 <= n + 1
    BY ONLY <1>1, <1>9, <1>11
  <2>6. SubSeq(x, i, (i + 2) - 1) = <<x[i], x[i + 1]>>
    BY <1>1, <2>5, TwoAre DEF n
  <2> QED BY <1>9, <1>11, <2>1, <2>2, <2>4, <2>5, <2>6
<1>12. CASE x[i] # k /\ ~ On
  <2>1. o = <<x[i]>> /\ t = 1
    BY <1>2, <1>12
  <2>2. Len(o) = 1 /\ o[1] = x[i] /\ 1 \in 1 .. Len(o)
    BY <2>1
  <2>3. y[p] = x[i]
    BY <1>5, <1>7, <2>2
  <2>4. PairBack(y, s)[p] = <<x[i]>> /\ PairPassed(y, s)[p] = 1
    BY <1>3, <1>4, <1>12, <2>3
  <2> QED BY <1>7, <1>8, <2>1, <2>2, <2>4
<1> QED BY <1>10, <1>11, <1>12

\* A pair is replaced only where the byte behind it is not put out as the escape byte.
LEMMA BehindPair ==
  ASSUME NEW x \in Seq(Bytes), NEW n, n = Len(x), NEW s \in Bytes, NEW k \in Bytes, k # s, NEW w,
         NEW i \in 1 .. n, NEW y \in Seq(Bytes), NEW p \in 1 .. Len(y),
         Stands(y, p, Walk(x, i, PairOut(x, s, k, w), PairTook(x, s, k, w))),
         PairOn(x, s, k, w, i)
  PROVE  CharAt(y, p + 1) # s
<1>1. PICK out : out = PairOut(x, s, k, w)
  OBVIOUS
<1>2. PICK took : took = PairTook(x, s, k, w)
  OBVIOUS
<1>3. Codes(Bytes, x, n, out, took)
  BY <1>1, <1>2, PairOutTyped, Zenon
<1>4. Stands(y, p, Walk(x, i, out, took))
  BY <1>1, <1>2, Zenon
<1>5. DOMAIN x = 1 .. n /\ n \in Nat /\ i \in Nat /\ p \in Nat
  OBVIOUS
<1>6. x[i] # k /\ i < n - 1 /\ x[i + 2] # s
  BY DEF PairOn
<1>7. out[i] = <<k>> /\ took[i] = 2
  BY <1>1, <1>2, <1>5, <1>6 DEF PairOut, PairTook
<1>8. Stands(y, p + Len(out[i]), Walk(x, i + took[i], out, took))
  BY <1>3, <1>4, PlaceParts, Zenon
<1>9. Stands(y, p + 1, Walk(x, i + 2, out, took))
  <2>1. Len(out[i]) = 1
    BY <1>7
  <2> QED BY <1>7, <1>8, <2>1, Zenon
<1>10. i + 2 \in 1 .. n
  BY <1>5, <1>6
<1>11. Part(y, p + 1, out[i + 2])
  BY <1>3, <1>9, <1>10, PlaceParts, Zenon
<1>12. PICK o : o = out[i + 2]
  OBVIOUS
<1>13. o = <<k, s>> \/ o = <<k>> \/ o = <<x[i + 2]>>
  BY <1>1, <1>5, <1>10, <1>12 DEF PairOut
<1>14. Len(o) >= 1 /\ o[1] # s
  <2>1. CASE o = <<k, s>>
    BY ONLY <2>1, k # s
  <2>2. CASE o = <<k>>
    BY ONLY <2>2, k # s
  <2>3. CASE o = <<x[i + 2]>>
    BY ONLY <2>3, <1>6
  <2> QED BY <1>13, <2>1, <2>2, <2>3
<1>15. \A j \in 1 .. Len(o) : (p + 1) - 1 + j \in 1 .. Len(y) /\ y[(p + 1) - 1 + j] = o[j]
  BY <1>11, <1>12, Zenon DEF Part
<1>16. p + 1 \in 1 .. Len(y) /\ y[p + 1] # s
  <2>1. Len(o) \in Nat
    <3>1. out[i + 2] \in Seq(Bytes)
      BY <1>3, <1>10 DEF Codes
    <3> QED BY <1>12, <3>1
  <2>2. 1 \in 1 .. Len(o) /\ (p + 1) - 1 + 1 = p + 1
    BY <1>5, <1>14, <2>1
  <2> QED BY <1>14, <1>15, <2>2
<1>17. CharAt(y, p + 1) = y[p + 1]
  <2>1. p + 1 \in Nat
    BY <1>5
  <2> QED BY <1>16, <2>1, CharAtIs
<1> QED BY <1>16, <1>17

\* y begins with k and the pair w, then there is r.
Led(y, k, w, r) ==
  y \in Seq(Bytes) /\ Len(y) >= 3 /\ y[1] = k /\ Window(y, 2, 2) = w /\ Stands(y, 4, r)

\* What a round of phase 3 gives begins with its key and its pair.
LEMMA ShorterLooks ==
  ASSUME NEW k \in Bytes, NEW w \in Bytes \X Bytes, NEW r \in Seq(Bytes)
  PROVE  Led((<<k>> \o w) \o r, k, w, r)
<1>0. PICK y : y = (<<k>> \o w) \o r
  OBVIOUS
<1>1. PICK a \in Bytes, b \in Bytes : w = <<a, b>>
  OBVIOUS
<1> DEFINE h == <<k, a, b>>
<1>2. <<k>> \o w = h
  <2>1. <<k>> \in Seq(Bytes) /\ <<a, b>> \in Seq(Bytes) /\ Len(<<k>>) = 1 /\ Len(<<a, b>>) = 2
    OBVIOUS
  <2> DEFINE v == <<k>> \o <<a, b>>
  <2>2. v \in Seq(Bytes) /\ Len(v) = 3 /\ v[1] = k /\ v[2] = a /\ v[3] = b
    BY <2>1
  <2>3. h \in Seq(Bytes) /\ Len(h) = 3 /\ h[1] = k /\ h[2] = a /\ h[3] = b
    OBVIOUS
  <2> HIDE DEF v, h
  <2>4. \A j \in 1 .. Len(v) : v[j] = h[j]
    BY <2>2, <2>3
  <2>5. v = h
    BY ONLY <2>2, <2>3, <2>4, SeqEqual
  <2> QED BY <1>1, <2>5 DEF v
<1>3. h \in Seq(Bytes) /\ Len(h) = 3 /\ h[1] = k /\ h[2] = a /\ h[3] = b
  BY <1>1
<1>4. y = h \o r
  BY <1>0, <1>2, Zenon
<1> HIDE DEF h
<1>5. Stands(y, 3 + 1, r) /\ y \in Seq(Bytes)
  BY <1>3, <1>4, StandsBehind
<1>6. /\ Len(y) = 3 + Len(r) /\ Len(r) \in Nat
      /\ \A j \in 1 .. 3 : y[j] = h[j]
  <2>1. h \o r \in Seq(Bytes) /\ Len(h \o r) = Len(h) + Len(r) /\ \A j \in 1 .. Len(h) : (h \o r)[j] = h[j]
    BY <1>3, Joined
  <2>2. Len(r) \in Nat
    OBVIOUS
  <2> QED BY ONLY <1>3, <1>4, <2>1, <2>2
<1>7. y[1] = k /\ y[2] = a /\ y[3] = b /\ Len(y) >= 3
  BY <1>3, <1>6
<1>8. Window(y, 2, 2) = w
  <2>1. 2 + 2 - 1 = 3 /\ Len(y) \in Nat
    BY <1>6
  <2>2. Min({3, Len(y)}) = 3
    <3> DEFINE e == Min({3, Len(y)})
    <3>1. e = CHOOSE u \in {3, Len(y)} : \A v \in {3, Len(y)} : u <= v
      BY DEF Min
    <3>2. 3 \in {3, Len(y)} /\ \A v \in {3, Len(y)} : 3 <= v
      BY <1>7
    <3> HIDE DEF e
    <3>3. e \in {3, Len(y)} /\ \A v \in {3, Len(y)} : e <= v
      BY <3>1, <3>2
    <3>4. e = 3
      BY <1>7, <2>1, <3>3
    <3> QED BY <3>4 DEF e
  <2>3. Window(y, 2, 2) = SubSeq(y, 2, 3)
    BY <2>1, <2>2 DEF Window
  <2>4. SubSeq(y, 2, (2 + 2) - 1) = <<y[2], y[2 + 1]>>
    <3>1. 2 \in 1 .. Len(y) /\ 2 + 1 <= Len(y)
      BY <1>7, <2>1
    <3> QED BY <1>5, <3>1, TwoAre
  <2> QED BY <1>1, <1>7, <2>3, <2>4
<1>9. y \in Seq(Bytes) /\ Len(y) >= 3 /\ y[1] = k /\ Window(y, 2, 2) = w /\ Stands(y, 4, r)
  BY <1>5, <1>7, <1>8
<1> QED BY <1>0, <1>9, Zenon DEF Led

\* Layer 3 undoes a round of phase 3.
LEMMA PairsUndone ==
  ASSUME packed \in Seq(Bytes), special \in Bytes, Shrinks
  PROVE  /\ Shorter \in Seq(Bytes) /\ Len(Shorter) >= 3 /\ Shorter[1] # special
         /\ PairsBack(Shorter, special) = packed
<1>0. PICK n \in Nat : n = Len(packed)
  OBVIOUS
<1>1. PICK k \in Bytes \ {special}, w \in Bytes \X Bytes :
        Shorter = (<<k>> \o w) \o Walk(packed, 1, PairOut(packed, special, k, w), PairTook(packed, special, k, w))
  BY ShorterIs
<1>2. PICK out : out = PairOut(packed, special, k, w)
  OBVIOUS
<1>3. PICK took : took = PairTook(packed, special, k, w)
  OBVIOUS
<1>4. PICK r : r = Walk(packed, 1, out, took)
  OBVIOUS
<1>5. PICK y : y = Shorter
  OBVIOUS
<1>6. y = (<<k>> \o w) \o r
  BY <1>1, <1>2, <1>3, <1>4, <1>5, Zenon
<1>7. k \in Bytes /\ k # special
  BY <1>1
<1>8. Codes(Bytes, packed, n, out, took) /\ \A i \in 1 .. n : Len(out[i]) > 0
  BY <1>0, <1>2, <1>3, <1>7, PairOutTyped, Zenon
<1>9. r \in Seq(Bytes)
  <2>1. Walked(Bytes, packed, n, out, took)
    BY <1>8, WalkIs
  <2> QED BY <1>4, <2>1, Zenon DEF Walked
<1>10. y \in Seq(Bytes) /\ Len(y) >= 3 /\ y[1] = k /\ Window(y, 2, 2) = w /\ Stands(y, 4, r)
  <2>1. Led((<<k>> \o w) \o r, k, w, r)
    BY <1>7, <1>9, ShorterLooks, Zenon
  <2> QED BY <1>6, <2>1, Zenon DEF Led
<1>11. PICK m : m = Len(y)
  OBVIOUS
<1>12. PICK back : back = PairBack(y, special)
  OBVIOUS
<1>13. PICK passed : passed = PairPassed(y, special)
  OBVIOUS
<1>14. Codes(Bytes, y, m, back, passed)
  BY <1>10, <1>11, <1>12, <1>13, PairBackTyped, Zenon
<1>15. ASSUME NEW i \in 1 .. n, NEW p \in 1 .. m, Stands(y, p, Walk(packed, i, out, took))
       PROVE  Undone(packed, i, took[i], out[i], back[p], passed[p])
  <2>1. Part(y, p, out[i])
    BY <1>8, <1>10, <1>15, PlaceParts, Zenon
  <2>2. i \in 1 .. Len(packed) /\ p \in 1 .. Len(y)
    BY <1>0, <1>11
  <2>3. PairOn(packed, special, k, w, i) => CharAt(y, p + 1) # special
    <3> SUFFICES ASSUME PairOn(packed, special, k, w, i) PROVE CharAt(y, p + 1) # special
      OBVIOUS
    <3>1. Stands(y, p, Walk(packed, i, PairOut(packed, special, k, w), PairTook(packed, special, k, w)))
      BY <1>2, <1>3, <1>15, Zenon
    <3> QED BY <1>7, <1>10, <2>2, <3>1, BehindPair, Zenon
  <2>4. Part(y, p, PairOut(packed, special, k, w)[i])
    BY <1>2, <2>1, Zenon
  <2>5. Undone(packed, i, PairTook(packed, special, k, w)[i], PairOut(packed, special, k, w)[i],
               PairBack(y, special)[p], PairPassed(y, special)[p])
    BY <1>7, <1>10, <2>2, <2>3, <2>4, PairPlace, Zenon
  <2> QED BY <1>2, <1>3, <1>12, <1>13, <2>5, Zenon
<1>16. Inverts(packed, n, out, took, y, m, back, passed)
  BY <1>15, Zenon DEF Inverts
<1>17. Stands(y, 4, Walk(packed, 1, out, took))
  BY <1>4, <1>10, Zenon
<1>18. Walk(y, 4, back, passed) = packed
  BY ONLY packed \in Seq(Bytes), <1>8, <1>10, <1>14, <1>16, <1>17, Undoes
<1>19. PairsBack(y, special) = packed
  BY <1>12, <1>13, <1>18, PairsBackIs, Zenon
<1> QED BY <1>5, <1>7, <1>10, <1>19

\* C goes from the data before phase 3, which a s leads, to x: each round of layer 3 goes one back.
RoundsOf(C, r, s, whole, x) ==
  /\ r \in Nat /\ C \in [0 .. r -> Seq(Bytes)]
  /\ C[0] = <<s>> \o whole /\ C[r] = x
  /\ \A j \in 1 .. r : Len(C[j]) > 0 /\ Head(C[j]) # s /\ PairsBack(C[j], s) = C[j - 1]

\* f holds the data of the rounds of layer 3, which end when the data begin with s.
RoundBy(s, x, most, f) ==
  f = [n \in 0 .. most |-> IF n = 0 THEN x
                           ELSE LET y == f[n - 1] IN IF y = <<>> \/ Head(y) = s THEN y ELSE PairsBack(y, s)]
LastRound(s, x, most) == (CHOOSE f : RoundBy(s, x, most, f))[most]
Stopped(last, s) == IF last # <<>> /\ Head(last) = s THEN last ELSE <<>>
Unpaired(s, x, most) ==
  IF Head(x) = s \/ Stopped(LastRound(s, x, most), s) = <<>> THEN <<>>
  ELSE Tail(Stopped(LastRound(s, x, most), s))

\* Layer 3 with its rounds named.
LEMMA Layer3Is ==
  ASSUME NEW z, NEW most PROVE Layer3(z, most) = Unpaired(Head(z), Tail(z), most)
  BY DEF Layer3, Rounds, Unpaired, Stopped, LastRound, RoundBy

\* Layer 3 goes all the way back.
LEMMA Layer3Undoes ==
  ASSUME NEW C, NEW r, NEW s \in Bytes, NEW whole \in Seq(Bytes), NEW x, RoundsOf(C, r, s, whole, x),
         NEW most \in Nat, r <= most, r > 0
  PROVE  Layer3(<<s>> \o x, most) = whole
<1>1. /\ r \in Nat /\ C \in [0 .. r -> Seq(Bytes)]
      /\ C[0] = <<s>> \o whole /\ C[r] = x
  BY DEF RoundsOf
<1>2. \A j \in 1 .. r : Len(C[j]) > 0 /\ Head(C[j]) # s /\ PairsBack(C[j], s) = C[j - 1]
  BY DEF RoundsOf
<1>3. x \in Seq(Bytes) /\ x # <<>> /\ Head(x) # s
  <2>1. r \in 1 .. r /\ r \in 0 .. r
    BY <1>1
  <2>2. C[r] \in Seq(Bytes) /\ Len(C[r]) > 0 /\ Head(C[r]) # s
    BY <1>1, <1>2, <2>1
  <2> QED BY <1>1, <2>2
<1>4. Head(<<s>> \o x) = s /\ Tail(<<s>> \o x) = x
  BY <1>3
<1>5. Head(<<s>> \o whole) = s /\ Tail(<<s>> \o whole) = whole /\ <<s>> \o whole # <<>>
  OBVIOUS
<1> DEFINE R(y) == PairsBack(y, s)
           Is(f) == RoundBy(s, x, most, f)
           B == [n \in 0 .. most |-> IF n <= r THEN C[r - n] ELSE C[0]]
           After == CHOOSE f : Is(f)
<1>6. Is(B)
  <2>1. ASSUME NEW n \in 1 .. most, n <= r
        PROVE  B[n] = PairsBack(B[n - 1], s) /\ ~ (B[n - 1] = <<>> \/ Head(B[n - 1]) = s)
    <3>1. n - 1 \in 0 .. most /\ n \in 0 .. most /\ n - 1 <= r /\ r - n = (r - (n - 1)) - 1 /\ r - (n - 1) \in 1 .. r
      BY <1>1, <2>1
    <3>2. B[n] = C[r - n] /\ B[n - 1] = C[r - (n - 1)]
      BY <2>1, <3>1
    <3> QED BY <1>2, <3>1, <3>2
  <2>2. ASSUME NEW n \in 1 .. most, ~ (n <= r)
        PROVE  B[n] = B[n - 1] /\ Head(B[n - 1]) = s
    <3>1. n - 1 \in 0 .. most /\ n \in 0 .. most /\ n - 1 >= r /\ (n - 1 <= r => r - (n - 1) = 0)
      BY <1>1, <2>2
    <3>2. B[n] = C[0] /\ B[n - 1] = C[0]
      BY <2>2, <3>1
    <3> QED BY <1>1, <1>5, <3>2
  <2>3. B[0] = x
    BY <1>1
  <2>4. ASSUME NEW n \in 0 .. most
        PROVE  B[n] = IF n = 0 THEN x ELSE LET y == B[n - 1] IN IF y = <<>> \/ Head(y) = s THEN y ELSE PairsBack(y, s)
    <3>1. CASE n = 0
      BY <2>3, <3>1
    <3>2. CASE n \in 1 .. most /\ n <= r
      <4>1. n # 0
        BY <3>2
      <4>2. B[n] = PairsBack(B[n - 1], s) /\ ~ (B[n - 1] = <<>> \/ Head(B[n - 1]) = s)
        BY <2>1, <3>2, Zenon
      <4> QED BY <4>1, <4>2, Zenon
    <3>3. CASE n \in 1 .. most /\ ~ (n <= r)
      <4>1. n # 0
        BY <3>3
      <4>2. B[n] = B[n - 1] /\ Head(B[n - 1]) = s
        BY <2>2, <3>3, Zenon
      <4> QED BY <4>1, <4>2, Zenon
    <3>4. n = 0 \/ n \in 1 .. most
      OBVIOUS
    <3> QED BY <3>1, <3>2, <3>3, <3>4, Zenon
  <2>5. B = [n \in 0 .. most |-> B[n]]
    OBVIOUS
  <2> HIDE DEF B
  <2> QED BY <2>4, <2>5 DEF RoundBy
<1> HIDE DEF B
<1>7. Is(After)
  BY <1>6
<1>8. Layer3(<<s>> \o x, most) = Unpaired(s, x, most)
  BY <1>4, Layer3Is, Zenon
<1>9. ASSUME NEW f, NEW g, Is(f), Is(g) PROVE f[most] = g[most]
  <2> DEFINE T == {n \in 0 .. most : f[n] = g[n]}
  <2>1. \A n \in 0 .. most :
          /\ f[n] = IF n = 0 THEN x ELSE LET y == f[n - 1] IN IF y = <<>> \/ Head(y) = s THEN y ELSE PairsBack(y, s)
          /\ g[n] = IF n = 0 THEN x ELSE LET y == g[n - 1] IN IF y = <<>> \/ Head(y) = s THEN y ELSE PairsBack(y, s)
    BY <1>9 DEF RoundBy
  <2> HIDE DEF Is
  <2>2. 0 \in T
    BY <2>1
  <2>3. ASSUME NEW n \in 1 .. most, n - 1 \in T PROVE n \in T
    <3>1. n \in 0 .. most /\ n # 0 /\ f[n - 1] = g[n - 1]
      BY <2>3
    <3> QED BY <2>1, <3>1
  <2> HIDE DEF T
  <2>4. 0 .. most \subseteq T
    BY <2>2, <2>3, LoopInduction
  <2> QED BY <2>4 DEF T
<1> HIDE DEF After, Is
<1>10. After[most] = C[0]
  <2>1. After[most] = B[most]
    BY <1>6, <1>7, <1>9
  <2>2. B[most] = C[0]
    <3>1. most <= r => r - most = 0
      BY <1>1
    <3> QED BY <3>1 DEF B
  <2> QED BY <2>1, <2>2
<1>11. Stopped(LastRound(s, x, most), s) = <<s>> \o whole
  BY <1>1, <1>5, <1>10 DEF Stopped, LastRound, After, Is
<1>12. Unpaired(s, x, most) = Tail(<<s>> \o whole)
  BY <1>3, <1>5, <1>11, Zenon DEF Unpaired
<1> QED BY <1>5, <1>8, <1>12, Zenon

-----------------------------------------------------------------------------
(* Phase 2: a string is taken out and put back                             *)

\* The smaller of two numbers.
LEMMA SmallerOf ==
  ASSUME NEW a \in Nat, NEW b \in Nat
  PROVE  Min({a, b}) \in Nat /\ Min({a, b}) <= a /\ Min({a, b}) <= b /\ (a <= b => Min({a, b}) = a)
         /\ (b <= a => Min({a, b}) = b)
<1> DEFINE e == Min({a, b})
<1>1. e = CHOOSE u \in {a, b} : \A v \in {a, b} : u <= v
  BY DEF Min
<1>2. \E u \in {a, b} : \A v \in {a, b} : u <= v
  OBVIOUS
<1> HIDE DEF e
<1>3. e \in {a, b} /\ \A v \in {a, b} : e <= v
  BY <1>1, <1>2
<1>4. e \in Nat /\ e <= a /\ e <= b /\ (a <= b => e = a) /\ (b <= a => e = b)
  BY <1>3
<1> QED BY <1>4 DEF e

\* A window that is full is a part of the buffer.
LEMMA WindowIs ==
  ASSUME NEW S, NEW x \in Seq(S), NEW i \in 1 .. Len(x), NEW n \in Nat \ {0}
  PROVE  /\ Window(x, i, n) \in Seq(S)
         /\ i + n <= Len(x) + 1 => Len(Window(x, i, n)) = n /\ Window(x, i, n) = SubSeq(x, i, (i + n) - 1)
         /\ Len(Window(x, i, n)) = n => i + n <= Len(x) + 1
<1> DEFINE e == Min({i + n - 1, Len(x)})
<1>1. i \in Nat /\ Len(x) \in Nat /\ i + n - 1 \in Nat /\ i + n - 1 = (i + n) - 1 /\ i >= 1 /\ i <= Len(x)
  OBVIOUS
<1>2. e \in Nat /\ e <= i + n - 1 /\ e <= Len(x) /\ (i + n - 1 <= Len(x) => e = i + n - 1)
      /\ (Len(x) <= i + n - 1 => e = Len(x))
  BY <1>1, SmallerOf
<1>3. Window(x, i, n) = SubSeq(x, i, e)
  BY DEF Window
<1> HIDE DEF e
<1>4. e >= i - 1
  <2>0. n \in Nat /\ n >= 1
    OBVIOUS
  <2>1. CASE i + n - 1 <= Len(x)
    BY ONLY <1>1, <1>2, <2>0, <2>1
  <2>2. CASE ~ (i + n - 1 <= Len(x))
    BY ONLY <1>1, <1>2, <2>0, <2>2
  <2> QED BY <2>1, <2>2
<1>5. SubSeq(x, i, e) \in Seq(S) /\ Len(SubSeq(x, i, e)) = (e - i) + 1
  BY <1>1, <1>2, <1>4
<1>6. n \in Nat
  OBVIOUS
<1>7. ASSUME i + n <= Len(x) + 1 PROVE e = (i + n) - 1
  BY ONLY <1>1, <1>2, <1>6, <1>7
<1>8. ASSUME i + n <= Len(x) + 1 PROVE (e - i) + 1 = n
  BY ONLY <1>1, <1>6, <1>7, <1>8
<1>9. ASSUME (e - i) + 1 = n PROVE i + n <= Len(x) + 1
  BY ONLY <1>1, <1>2, <1>6, <1>9
<1> QED BY <1>3, <1>5, <1>7, <1>8, <1>9, Zenon

\* f is the length and the place of a part of x.
Fits(x, f) == f[1] \in Nat \ {0} /\ f[2] \in 1 .. Len(x) /\ f[2] + f[1] <= Len(x) + 1

\* The string at f begins at i, not before its own place.
Begins(x, f, i) == i >= f[2] /\ Window(x, i, f[1]) = Window(x, f[2], f[1])

\* Where the string at f begins, its bytes are.
LEMMA BeginsIs ==
  ASSUME NEW S, NEW x \in Seq(S), NEW f, Fits(x, f), NEW i \in 1 .. Len(x), Begins(x, f, i)
  PROVE  /\ i + f[1] <= Len(x) + 1 /\ Len(Window(x, f[2], f[1])) = f[1]
         /\ Window(x, f[2], f[1]) = SubSeq(x, i, (i + f[1]) - 1)
<1>1. PICK n : n = f[1]
  OBVIOUS
<1>2. PICK q : q = f[2]
  OBVIOUS
<1>3. n \in Nat \ {0} /\ q \in 1 .. Len(x) /\ q + n <= Len(x) + 1
  BY <1>1, <1>2 DEF Fits
<1>4. Window(x, i, n) = Window(x, q, n)
  BY <1>1, <1>2 DEF Begins
<1>5. Len(Window(x, q, n)) = n
  BY <1>3, WindowIs
<1>6. i + n <= Len(x) + 1
  BY <1>3, <1>4, <1>5, WindowIs
<1>7. Window(x, i, n) = SubSeq(x, i, (i + n) - 1)
  BY <1>3, <1>6, WindowIs
<1> QED BY <1>1, <1>2, <1>4, <1>5, <1>6, <1>7

\* What phase 2 puts out at each place of x for the string at f, and the places it takes.
ShortOut(x, f, k, c) == [i \in DOMAIN x |-> IF Begins(x, f, i) THEN <<k, c>> ELSE <<x[i]>>]
ShortTook(x, f) == [i \in DOMAIN x |-> IF Begins(x, f, i) THEN f[1] ELSE 1]

\* Taking a string out is a loop over the text.
LEMMA ShortenedIs ==
  ASSUME NEW x, NEW f, NEW c
  PROVE  Shortened(x, f, c) = Walk(x, 1, ShortOut(x, f, key, c), ShortTook(x, f))
<1> DEFINE begins == [i \in DOMAIN x |-> i >= f[2] /\ Window(x, i, f[1]) = Window(x, f[2], f[1])]
           out == [i \in DOMAIN x |-> IF begins[i] THEN <<key, c>> ELSE <<x[i]>>]
           took == [i \in DOMAIN x |-> IF begins[i] THEN f[1] ELSE 1]
<1>1. Shortened(x, f, c) = Walk(x, 1, out, took)
  BY DEF Shortened
<1>2. \A i \in DOMAIN x : begins[i] = Begins(x, f, i)
  BY DEF Begins
<1> HIDE DEF begins
<1>3. out = ShortOut(x, f, key, c)
  BY <1>2 DEF ShortOut
<1>4. took = ShortTook(x, f)
  BY <1>2 DEF ShortTook
<1> QED BY <1>1, <1>3, <1>4, Zenon

\* What the decompressor puts out at each place of z for the string w, and the places it takes.
IsToken(z, k, c, i) == z[i] = k /\ CharAt(z, i + 1) \in {Marker, c}
BackOut(z, k, c, w) == [i \in DOMAIN z |-> IF IsToken(z, k, c, i) /\ z[i + 1] # Marker THEN w ELSE <<z[i]>>]
BackTook(z, k, c) == [i \in DOMAIN z |-> IF IsToken(z, k, c, i) THEN 2 ELSE 1]

\* Putting a string back is a loop over the text.
LEMMA PutBackIs ==
  ASSUME NEW z, NEW k, NEW c, NEW w
  PROVE  PutBack(z, k, c, w) = Walk(z, 1, BackOut(z, k, c, w), BackTook(z, k, c))
<1> DEFINE token == [i \in DOMAIN z |-> z[i] = k /\ CharAt(z, i + 1) \in {Marker, c}]
           out == [i \in DOMAIN z |-> IF token[i] /\ z[i + 1] # Marker THEN w ELSE <<z[i]>>]
           took == [i \in DOMAIN z |-> IF token[i] THEN 2 ELSE 1]
<1>1. PutBack(z, k, c, w) = Walk(z, 1, out, took)
  BY DEF PutBack
<1>2. \A i \in DOMAIN z : token[i] = IsToken(z, k, c, i)
  BY DEF IsToken
<1> HIDE DEF token
<1>3. out = BackOut(z, k, c, w)
  BY <1>2 DEF BackOut
<1>4. took = BackTook(z, k, c)
  BY <1>2 DEF BackTook
<1> QED BY <1>1, <1>3, <1>4, Zenon

\* Taking a string out puts out bytes and moves on.
LEMMA ShortTyped ==
  ASSUME NEW x \in Seq(Bytes), NEW n, n = Len(x), NEW f, Fits(x, f), NEW k \in Bytes, NEW c \in Bytes
  PROVE  /\ Codes(Bytes, x, n, ShortOut(x, f, k, c), ShortTook(x, f))
         /\ \A i \in 1 .. n : Len(ShortOut(x, f, k, c)[i]) > 0
<1>1. DOMAIN x = 1 .. n /\ n \in Nat
  OBVIOUS
<1>2. ASSUME NEW i \in 1 .. n
      PROVE  /\ ShortOut(x, f, k, c)[i] \in Seq(Bytes) /\ Len(ShortOut(x, f, k, c)[i]) > 0
             /\ ShortTook(x, f)[i] \in Nat \ {0}
  <2>1. x[i] \in Bytes
    OBVIOUS
  <2>2. <<k, c>> \in Seq(Bytes) /\ <<x[i]>> \in Seq(Bytes)
    BY <2>1
  <2>3. Len(<<k, c>>) > 0 /\ Len(<<x[i]>>) > 0
    OBVIOUS
  <2>4. ShortOut(x, f, k, c)[i] = <<k, c>> \/ ShortOut(x, f, k, c)[i] = <<x[i]>>
    BY <1>1 DEF ShortOut
  <2>5. ShortTook(x, f)[i] \in {1, f[1]}
    BY <1>1 DEF ShortTook
  <2>6. ShortOut(x, f, k, c)[i] \in Seq(Bytes) /\ Len(ShortOut(x, f, k, c)[i]) > 0
    BY ONLY <2>2, <2>3, <2>4, Zenon
  <2>8. f[1] \in Nat \ {0}
    BY Zenon DEF Fits
  <2>7. ShortTook(x, f)[i] \in Nat \ {0}
    BY ONLY <2>5, <2>8
  <2> QED BY <2>6, <2>7, Zenon
<1>3. /\ ShortOut(x, f, k, c) = [i \in 1 .. n |-> ShortOut(x, f, k, c)[i]]
      /\ ShortTook(x, f) = [i \in 1 .. n |-> ShortTook(x, f)[i]]
  BY <1>1 DEF ShortOut, ShortTook
<1>4. ShortOut(x, f, k, c) \in [1 .. n -> Seq(Bytes)]
  BY <1>2, <1>3
<1>5. ShortTook(x, f) \in [1 .. n -> Nat \ {0}]
  BY <1>2, <1>3
<1> QED BY <1>1, <1>2, <1>4, <1>5 DEF Codes

\* Putting a string back puts out bytes and moves on.
LEMMA BackTyped ==
  ASSUME NEW z \in Seq(Bytes), NEW m, m = Len(z), NEW k, NEW c, NEW w \in Seq(Bytes)
  PROVE  Codes(Bytes, z, m, BackOut(z, k, c, w), BackTook(z, k, c))
<1>1. DOMAIN z = 1 .. m /\ m \in Nat
  OBVIOUS
<1>2. ASSUME NEW p \in 1 .. m
      PROVE  BackOut(z, k, c, w)[p] \in Seq(Bytes) /\ BackTook(z, k, c)[p] \in Nat \ {0}
  <2>1. <<z[p]>> \in Seq(Bytes)
    <3>1. z[p] \in Bytes
      OBVIOUS
    <3> QED BY <3>1
  <2>4. BackOut(z, k, c, w)[p] \in {w, <<z[p]>>}
    BY <1>1 DEF BackOut
  <2>5. BackTook(z, k, c)[p] \in {1, 2}
    BY <1>1 DEF BackTook
  <2>6. BackTook(z, k, c)[p] \in Nat \ {0}
    BY ONLY <2>5
  <2>7. BackOut(z, k, c, w)[p] \in Seq(Bytes)
    BY ONLY <2>1, <2>4, w \in Seq(Bytes)
  <2> QED BY <2>6, <2>7, Zenon
<1>3. /\ BackOut(z, k, c, w) = [i \in 1 .. m |-> BackOut(z, k, c, w)[i]]
      /\ BackTook(z, k, c) = [i \in 1 .. m |-> BackTook(z, k, c)[i]]
  BY <1>1 DEF BackOut, BackTook
<1>4. BackOut(z, k, c, w) \in [1 .. m -> Seq(Bytes)]
  BY <1>2, <1>3
<1>5. BackTook(z, k, c) \in [1 .. m -> Nat \ {0}]
  BY <1>2, <1>3
<1> QED BY <1>1, <1>4, <1>5 DEF Codes

\* Every key of z is followed by a byte that is the key again or the place of one of n strings.
TokensOK(z, k, n) ==
  \A i \in DOMAIN z : z[i] = k => i < Len(z) /\ z[i + 1] # Marker /\ (z[i + 1] = k \/ z[i + 1] < n)

\* Where the string at f was taken out, it is put back, and a key that stays is no token for it.
LEMMA PutPlace ==
  ASSUME NEW x \in Seq(Bytes), NEW f, Fits(x, f), NEW k \in Bytes, NEW c \in Bytes, c # Marker,
         NEW i \in 1 .. Len(x), NEW y \in Seq(Bytes), NEW p \in 1 .. Len(y),
         Part(y, p, ShortOut(x, f, k, c)[i]),
         x[i] = k /\ ~ Begins(x, f, i) => CharAt(y, p + 1) \notin {Marker, c}
  PROVE  Undone(x, i, ShortTook(x, f)[i], ShortOut(x, f, k, c)[i],
                BackOut(y, k, c, Window(x, f[2], f[1]))[p], BackTook(y, k, c)[p])
<1> DEFINE n == Len(x)
           m == Len(y)
           w == Window(x, f[2], f[1])
           o == ShortOut(x, f, k, c)[i]
           t == ShortTook(x, f)[i]
           h == CharAt(y, p + 1)
           On == Begins(x, f, i)
<1> SUFFICES i + t <= n + 1 /\ BackOut(y, k, c, w)[p] = SubSeq(x, i, (i + t) - 1) /\ BackTook(y, k, c)[p] = Len(o)
  BY Zenon DEF Undone
<1>1. DOMAIN x = 1 .. n /\ DOMAIN y = 1 .. m /\ n \in Nat /\ m \in Nat /\ i \in Nat /\ p \in Nat /\ i <= n /\ i \in 1 .. n
  OBVIOUS
<1>2. /\ o = IF On THEN <<k, c>> ELSE <<x[i]>>
      /\ t = IF On THEN f[1] ELSE 1
  BY <1>1 DEF ShortOut, ShortTook
<1>3. BackOut(y, k, c, w)[p] = IF (y[p] = k /\ h \in {Marker, c}) /\ y[p + 1] # Marker THEN w ELSE <<y[p]>>
  BY <1>1 DEF BackOut, IsToken
<1>4. BackTook(y, k, c)[p] = IF y[p] = k /\ h \in {Marker, c} THEN 2 ELSE 1
  BY <1>1 DEF BackTook, IsToken
<1>5. \A j \in 1 .. Len(o) : p - 1 + j \in 1 .. m /\ y[p - 1 + j] = o[j]
  BY Zenon DEF Part
<1>6. p + 1 \in 1 .. m => h = y[p + 1]
  <2>1. p + 1 \in Nat
    BY <1>1
  <2> QED BY <2>1, CharAtIs
<1>7. p - 1 + 1 = p /\ p - 1 + 2 = p + 1 /\ i + 1 <= n + 1
  BY <1>1
<1>8. SubSeq(x, i, (i + 1) - 1) = <<x[i]>>
  BY <1>1, OneIsToo
<1>9. On => i + f[1] <= n + 1 /\ w = SubSeq(x, i, (i + f[1]) - 1)
  BY BeginsIs
<1>10. x[i] = k /\ ~ On => h \notin {Marker, c}
  OBVIOUS
<1> HIDE DEF n, m, w, o, t, h, On
<1>11. CASE On
  <2>1. o = <<k, c>> /\ t = f[1]
    BY <1>2, <1>11
  <2>2. Len(o) = 2 /\ o[1] = k /\ o[2] = c /\ 1 \in 1 .. Len(o) /\ 2 \in 1 .. Len(o)
    BY <2>1
  <2>3. y[p] = k /\ p + 1 \in 1 .. m /\ y[p + 1] = c
    BY <1>5, <1>7, <2>2
  <2>4. BackOut(y, k, c, w)[p] = w /\ BackTook(y, k, c)[p] = 2
    BY <1>3, <1>4, <1>6, <2>3
  <2> QED BY <1>9, <1>11, <2>1, <2>2, <2>4
<1>12. CASE ~ On
  <2>1. o = <<x[i]>> /\ t = 1
    BY <1>2, <1>12
  <2>2. Len(o) = 1 /\ o[1] = x[i] /\ 1 \in 1 .. Len(o)
    BY <2>1
  <2>3. y[p] = x[i]
    BY <1>5, <1>7, <2>2
  <2>4. BackOut(y, k, c, w)[p] = <<x[i]>> /\ BackTook(y, k, c)[p] = 1
    BY <1>3, <1>4, <1>10, <1>12, <2>3
  <2> QED BY <1>7, <1>8, <2>1, <2>2, <2>4
<1> QED BY <1>11, <1>12

\* A key that stays is still not followed by what would make it a token for c.
LEMMA BehindKey ==
  ASSUME NEW x \in Seq(Bytes), NEW n, n = Len(x), NEW f, Fits(x, f), NEW k \in Bytes, k # Marker,
         NEW c \in Bytes, c # k, NEW l \in Nat, l <= c, TokensOK(x, k, l),
         NEW i \in 1 .. n, NEW y \in Seq(Bytes), NEW p \in 1 .. Len(y),
         Stands(y, p, Walk(x, i, ShortOut(x, f, k, c), ShortTook(x, f))),
         x[i] = k, ~ Begins(x, f, i)
  PROVE  CharAt(y, p + 1) \notin {Marker, c}
<1>1. PICK out : out = ShortOut(x, f, k, c)
  OBVIOUS
<1>2. PICK took : took = ShortTook(x, f)
  OBVIOUS
<1>3. Codes(Bytes, x, n, out, took)
  BY <1>1, <1>2, ShortTyped, Zenon
<1>4. Stands(y, p, Walk(x, i, out, took))
  BY <1>1, <1>2, Zenon
<1>5. DOMAIN x = 1 .. n /\ n \in Nat /\ i \in Nat /\ p \in Nat
  OBVIOUS
<1>6. i < n /\ x[i + 1] # Marker /\ (x[i + 1] = k \/ x[i + 1] < l)
  BY <1>5 DEF TokensOK
<1>7. out[i] = <<x[i]>> /\ took[i] = 1
  BY <1>1, <1>2, <1>5 DEF ShortOut, ShortTook
<1>8. Stands(y, p + Len(out[i]), Walk(x, i + took[i], out, took))
  BY <1>3, <1>4, PlaceParts, Zenon
<1>9. Stands(y, p + 1, Walk(x, i + 1, out, took))
  <2>1. Len(out[i]) = 1
    BY <1>7
  <2> QED BY <1>7, <1>8, <2>1, Zenon
<1>10. i + 1 \in 1 .. n
  BY <1>5, <1>6
<1>11. Part(y, p + 1, out[i + 1])
  BY <1>3, <1>9, <1>10, PlaceParts, Zenon
<1>12. PICK o : o = out[i + 1]
  OBVIOUS
<1>13. o = <<k, c>> \/ o = <<x[i + 1]>>
  BY <1>1, <1>5, <1>10, <1>12 DEF ShortOut
<1>18. k # c /\ k # Marker /\ x[i + 1] \notin {Marker, c}
  <2>1. x[i + 1] \in Nat /\ c \in Nat
    <3>1. x[i + 1] \in Bytes /\ c \in Bytes
      BY <1>10
    <3> QED BY <3>1, ByteFacts
  <2>2. x[i + 1] # c
    BY <1>6, <2>1
  <2> QED BY <1>6, <2>2
<1>14. Len(o) >= 1 /\ o[1] \notin {Marker, c}
  <2>1. CASE o = <<k, c>>
    BY ONLY <2>1, <1>18
  <2>3. CASE o = <<x[i + 1]>>
    BY ONLY <2>3, <1>18
  <2> QED BY <1>13, <2>1, <2>3
<1>15. \A j \in 1 .. Len(o) : (p + 1) - 1 + j \in 1 .. Len(y) /\ y[(p + 1) - 1 + j] = o[j]
  BY <1>11, <1>12, Zenon DEF Part
<1>16. p + 1 \in 1 .. Len(y) /\ y[p + 1] \notin {Marker, c}
  <2>1. Len(o) \in Nat
    <3>1. out[i + 1] \in Seq(Bytes)
      BY <1>3, <1>10 DEF Codes
    <3> QED BY <1>12, <3>1
  <2>2. 1 \in 1 .. Len(o) /\ (p + 1) - 1 + 1 = p + 1
    BY <1>5, <1>14, <2>1
  <2> QED BY <1>14, <1>15, <2>2
<1>17. CharAt(y, p + 1) = y[p + 1]
  <2>1. p + 1 \in Nat
    BY <1>5
  <2> QED BY <1>16, <2>1, CharAtIs
<1> QED BY <1>16, <1>17

\* A string that fits has its bytes and its length.
LEMMA WindowTyped ==
  ASSUME NEW x \in Seq(Bytes), NEW f, Fits(x, f)
  PROVE  Window(x, f[2], f[1]) \in Seq(Bytes) /\ Len(Window(x, f[2], f[1])) = f[1]
<1>1. f[1] \in Nat \ {0} /\ f[2] \in 1 .. Len(x) /\ f[2] + f[1] <= Len(x) + 1
  BY DEF Fits
<1> QED BY <1>1, WindowIs

\* The decompressor undoes the replacement of a string.
LEMMA ShortenedUndone ==
  ASSUME NEW x \in Seq(Bytes), NEW f, Fits(x, f), key \in Bytes, key # Marker,
         NEW c \in Bytes, c # Marker, c # key, NEW l \in Nat, l <= c, TokensOK(x, key, l)
  PROVE  /\ Shortened(x, f, c) \in Seq(Bytes)
         /\ PutBack(Shortened(x, f, c), key, c, Window(x, f[2], f[1])) = x
<1>0. PICK n \in Nat : n = Len(x)
  OBVIOUS
<1>1. PICK w \in Seq(Bytes) : w = Window(x, f[2], f[1])
  BY WindowTyped, Zenon
<1>2. PICK out : out = ShortOut(x, f, key, c)
  OBVIOUS
<1>3. PICK took : took = ShortTook(x, f)
  OBVIOUS
<1>4. PICK y : y = Shortened(x, f, c)
  OBVIOUS
<1>5. y = Walk(x, 1, out, took)
  BY <1>2, <1>3, <1>4, ShortenedIs, Zenon
<1>8. Codes(Bytes, x, n, out, took) /\ \A i \in 1 .. n : Len(out[i]) > 0
  BY <1>0, <1>2, <1>3, ShortTyped, Zenon
<1>9. y \in Seq(Bytes)
  <2>1. Walked(Bytes, x, n, out, took)
    BY <1>8, WalkIs
  <2> QED BY <1>5, <2>1, Zenon DEF Walked
<1>11. PICK m : m = Len(y)
  OBVIOUS
<1>12. PICK back : back = BackOut(y, key, c, w)
  OBVIOUS
<1>13. PICK passed : passed = BackTook(y, key, c)
  OBVIOUS
<1>14. Codes(Bytes, y, m, back, passed)
  BY <1>1, <1>9, <1>11, <1>12, <1>13, BackTyped, Zenon
<1>15. ASSUME NEW i \in 1 .. n, NEW p \in 1 .. m, Stands(y, p, Walk(x, i, out, took))
       PROVE  Undone(x, i, took[i], out[i], back[p], passed[p])
  <2>1. Part(y, p, out[i])
    BY <1>8, <1>9, <1>15, PlaceParts, Zenon
  <2>2. i \in 1 .. Len(x) /\ p \in 1 .. Len(y)
    BY <1>0, <1>11
  <2>3. x[i] = key /\ ~ Begins(x, f, i) => CharAt(y, p + 1) \notin {Marker, c}
    <3> SUFFICES ASSUME x[i] = key, ~ Begins(x, f, i) PROVE CharAt(y, p + 1) \notin {Marker, c}
      OBVIOUS
    <3>1. Stands(y, p, Walk(x, i, ShortOut(x, f, key, c), ShortTook(x, f)))
      BY <1>2, <1>3, <1>15, Zenon
    <3> QED BY <1>9, <2>2, <3>1, BehindKey, Zenon
  <2>4. Part(y, p, ShortOut(x, f, key, c)[i])
    BY <1>2, <2>1, Zenon
  <2>5. Undone(x, i, ShortTook(x, f)[i], ShortOut(x, f, key, c)[i],
               BackOut(y, key, c, Window(x, f[2], f[1]))[p], BackTook(y, key, c)[p])
    BY <1>9, <2>2, <2>3, <2>4, PutPlace, Zenon
  <2> QED BY <1>1, <1>2, <1>3, <1>12, <1>13, <2>5, Zenon
<1>16. Inverts(x, n, out, took, y, m, back, passed)
  BY <1>15, Zenon DEF Inverts
<1>17. Stands(y, 1, Walk(x, 1, out, took))
  <2>1. 1 \in Nat \ {0} /\ Len(y) = 1 - 1 + Len(y) /\ \A j \in 1 .. Len(y) : y[1 - 1 + j] = y[j]
    BY <1>9
  <2> QED BY <1>5, <2>1 DEF Stands
<1>18. Walk(y, 1, back, passed) = x
  BY ONLY x \in Seq(Bytes), <1>8, <1>9, <1>14, <1>16, <1>17, Undoes
<1>19. PutBack(y, key, c, w) = x
  BY <1>12, <1>13, <1>18, PutBackIs, Zenon
<1> QED BY <1>1, <1>4, <1>9, <1>19, Zenon

\* A loop that puts out at each place the bytes it takes there puts out the buffer.
LEMMA WalkSame ==
  ASSUME NEW S, NEW x \in Seq(S), NEW n, NEW out, NEW took, Codes(S, x, n, out, took),
         \A i \in 1 .. n : i + took[i] <= n + 1 /\ out[i] = SubSeq(x, i, (i + took[i]) - 1)
  PROVE  Walk(x, 1, out, took) = x
<1> DEFINE W(i) == Walk(x, i, out, took)
           T == {i \in 1 .. n : W(i) = SubSeq(x, i, n)}
<1>0. n \in Nat /\ n = Len(x) /\ out \in [1 .. n -> Seq(S)] /\ took \in [1 .. n -> Nat \ {0}]
  BY DEF Codes
<1>1. /\ \A i \in 1 .. n : W(i) = out[i] \o W(i + took[i])
      /\ \A i \in Nat : i \notin 1 .. n => W(i) = <<>>
  <2>1. Walked(S, x, n, out, took)
    BY WalkIs
  <2> QED BY <2>1, Zenon DEF Walked
<1> HIDE DEF W
<1>2. ASSUME NEW i \in 1 .. n, \A j \in i + 1 .. n : j \in T PROVE i \in T
  <2> DEFINE l == i + took[i]
  <2>1. i \in Nat /\ i >= 1 /\ i <= n /\ n \in Nat
    BY <1>0
  <2>2. l \in Nat /\ l > i
    <3>1. took[i] \in Nat /\ took[i] > 0
      <4>1. took[i] \in Nat \ {0}
        BY <1>0
      <4> QED BY ONLY <4>1
    <3> QED BY ONLY <2>1, <3>1
  <2>3. l <= n + 1 /\ out[i] = SubSeq(x, i, l - 1)
    OBVIOUS
  <2>4. W(i) = out[i] \o W(l)
    BY <1>1, Zenon
  <2> HIDE DEF l
  <2>5. W(l) = SubSeq(x, l, n)
    <3>1. CASE l \in 1 .. n
      <4>1. l \in i + 1 .. n
        BY ONLY <2>1, <2>2, <3>1
      <4> QED BY <1>2, <4>1
    <3>2. CASE l \notin 1 .. n
      <4>1. W(l) = <<>>
        BY <1>1, <2>2, <3>2, Zenon
      <4>2. l = n + 1
        BY ONLY <2>1, <2>2, <2>3, <3>2
      <4>3. SubSeq(x, l, n) = <<>>
        BY <2>1, <4>2
      <4> QED BY <4>1, <4>3
    <3> QED BY <3>1, <3>2
  <2>6. SubSeq(x, i, l - 1) \o SubSeq(x, l, n) = SubSeq(x, i, n)
    <3>1. i \in 1 .. Len(x) /\ l \in i .. Len(x) + 1 /\ n = Len(x)
      BY ONLY <1>0, <2>1, <2>2, <2>3
    <3> QED BY ONLY x \in Seq(S), <3>1, SplitAgain
  <2> QED BY <2>3, <2>4, <2>5, <2>6
<1> HIDE DEF T
<1>3. 1 .. n \subseteq T
  <2>1. n \in Nat
    BY <1>0
  <2> QED BY <1>2, <2>1, FromTheEnd
<1>4. W(1) = x
  <2>1. CASE n = 0
    <3>1. 1 \in Nat /\ 1 \notin 1 .. n
      BY <2>1
    <3>2. W(1) = <<>>
      BY <1>1, <3>1, Zenon
    <3>3. x = <<>>
      <4>1. x \in Seq(S) /\ Len(x) = 0
        BY <1>0, <2>1
      <4> QED BY ONLY <4>1
    <3> QED BY <3>2, <3>3
  <2>2. CASE n > 0
    <3>1. 1 \in 1 .. n
      BY ONLY <1>0, <2>2
    <3>2. 1 \in T
      BY <1>3, <3>1
    <3>3. W(1) = SubSeq(x, 1, n)
      BY <3>2 DEF T
    <3>4. SubSeq(x, 1, Len(x)) = x
      OBVIOUS
    <3> QED BY <1>0, <3>3, <3>4, Zenon
  <2>3. n = 0 \/ n > 0
    BY ONLY <1>0
  <2> QED BY <2>1, <2>2, <2>3
<1> QED BY <1>4 DEF W

\* Nothing changes when the place put back is the filler's or the one that cannot be named.
LEMMA NothingBack ==
  ASSUME NEW z \in Seq(Bytes), NEW k \in Bytes, k # Marker, NEW l, TokensOK(z, k, l),
         NEW c, NEW w \in Seq(Bytes), c = Marker \/ (c = k /\ w = <<k, k>>)
  PROVE  PutBack(z, k, c, w) = z
<1>0. PICK m \in Nat : m = Len(z)
  OBVIOUS
<1>1. PICK out : out = BackOut(z, k, c, w)
  OBVIOUS
<1>2. PICK took : took = BackTook(z, k, c)
  OBVIOUS
<1>3. Codes(Bytes, z, m, out, took)
  BY <1>0, <1>1, <1>2, BackTyped, Zenon
<1>4. ASSUME NEW i \in 1 .. m
      PROVE  i + took[i] <= m + 1 /\ out[i] = SubSeq(z, i, (i + took[i]) - 1)
  <2>1. DOMAIN z = 1 .. m /\ i \in Nat /\ i <= m /\ i >= 1 /\ i \in 1 .. Len(z) /\ m = Len(z)
    BY <1>0
  <2>2. SubSeq(z, i, (i + 1) - 1) = <<z[i]>>
    BY <2>1, OneIsToo, Zenon
  <2>3. CASE IsToken(z, k, c, i)
    <3>1. z[i] = k /\ CharAt(z, i + 1) \in {Marker, c}
      BY <2>3 DEF IsToken
    <3>2. i < m /\ z[i + 1] # Marker
      BY <2>1, <3>1 DEF TokensOK
    <3>3. CharAt(z, i + 1) = z[i + 1]
      <4>1. i + 1 \in Nat /\ i + 1 \in 1 .. Len(z)
        BY ONLY <2>1, <3>2
      <4> QED BY <4>1, CharAtIs
    <3>4. z[i + 1] = k /\ w = <<k, k>>
      BY <3>1, <3>2, <3>3
    <3>5. out[i] = w /\ took[i] = 2
      BY <1>1, <1>2, <2>1, <2>3, <3>2 DEF BackOut, BackTook
    <3>6. SubSeq(z, i, (i + 2) - 1) = <<z[i], z[i + 1]>>
      <4>1. i + 1 <= Len(z)
        BY ONLY <2>1, <3>2
      <4> QED BY <2>1, <4>1, TwoAre, Zenon
    <3>7. i + 2 <= m + 1
      BY ONLY <1>0, <2>1, <3>2
    <3> QED BY <3>1, <3>4, <3>5, <3>6, <3>7, Zenon
  <2>4. CASE ~ IsToken(z, k, c, i)
    <3>1. out[i] = <<z[i]>> /\ took[i] = 1
      BY <1>1, <1>2, <2>1, <2>4 DEF BackOut, BackTook
    <3>2. i + 1 <= m + 1
      BY ONLY <1>0, <2>1
    <3> QED BY <2>2, <3>1, <3>2, Zenon
  <2> QED BY <2>3, <2>4
<1>5. Walk(z, 1, out, took) = z
  BY ONLY z \in Seq(Bytes), <1>3, <1>4, WalkSame
<1> QED BY <1>1, <1>2, <1>5, PutBackIs, Zenon

\* What stands behind some bytes keeps its tokens.
LEMMA TokensJoined ==
  ASSUME NEW a \in Seq(Bytes), NEW r \in Seq(Bytes), NEW k, NEW n, TokensOK(r, k, n),
         NEW z, z = a \o r,
         \A i \in 1 .. Len(a) :
           z[i] = k => i < Len(z) /\ z[i + 1] # Marker /\ (z[i + 1] = k \/ z[i + 1] < n)
  PROVE  TokensOK(z, k, n)
<1>1. /\ z \in Seq(Bytes) /\ Len(z) = Len(a) + Len(r) /\ Len(a) \in Nat /\ Len(r) \in Nat
      /\ \A j \in 1 .. Len(r) : z[Len(a) + j] = r[j]
  <2>1. Len(a) \in Nat /\ Len(r) \in Nat
    OBVIOUS
  <2> QED BY <2>1, Joined
<1>2. DOMAIN z = 1 .. Len(z) /\ DOMAIN r = 1 .. Len(r)
  BY <1>1
<1>3. ASSUME NEW i \in 1 .. Len(z), z[i] = k
      PROVE  i < Len(z) /\ z[i + 1] # Marker /\ (z[i + 1] = k \/ z[i + 1] < n)
  <2>1. CASE i \in 1 .. Len(a)
    BY <1>3, <2>1
  <2>2. CASE i \notin 1 .. Len(a)
    <3>1. PICK j \in 1 .. Len(r) : i = Len(a) + j
      <4>1. i - Len(a) \in 1 .. Len(r) /\ i = Len(a) + (i - Len(a))
        BY ONLY <1>1, <2>2, i \in 1 .. Len(z)
      <4> QED BY <4>1
    <3>2. r[j] = k
      BY <1>1, <1>3, <3>1
    <3>3. j < Len(r) /\ r[j + 1] # Marker /\ (r[j + 1] = k \/ r[j + 1] < n)
      BY <1>2, <3>2 DEF TokensOK
    <3>4. j + 1 \in 1 .. Len(r) /\ Len(a) + (j + 1) = i + 1 /\ i < Len(z)
      BY ONLY <1>1, <3>1, <3>3
    <3>5. z[i + 1] = r[j + 1]
      BY <1>1, <3>4
    <3> QED BY <3>3, <3>4, <3>5
  <2> QED BY <2>1, <2>2
<1> QED BY <1>2, <1>3, Zenon DEF TokensOK

\* The tokens of a text in which a string was replaced name strings of the list.
LEMMA ShortenedTokens ==
  ASSUME NEW x \in Seq(Bytes), NEW f, Fits(x, f), key \in Bytes, key # Marker,
         NEW c \in Bytes, c # Marker, c # key, NEW l \in Nat, l <= c, TokensOK(x, key, l)
  PROVE  TokensOK(Shortened(x, f, c), key, c + 1)
<1>0. PICK n \in Nat : n = Len(x)
  OBVIOUS
<1>1. PICK out : out = ShortOut(x, f, key, c)
  OBVIOUS
<1>2. PICK took : took = ShortTook(x, f)
  OBVIOUS
<1>3. Codes(Bytes, x, n, out, took)
  BY <1>0, <1>1, <1>2, ShortTyped, Zenon
<1> DEFINE W(i) == Walk(x, i, out, took)
           T == {i \in 1 .. n : TokensOK(W(i), key, c + 1)}
<1>4. /\ \A i \in Nat : W(i) \in Seq(Bytes)
      /\ \A i \in 1 .. n : W(i) = out[i] \o W(i + took[i])
      /\ \A i \in Nat : i \notin 1 .. n => W(i) = <<>>
  <2>1. Walked(Bytes, x, n, out, took)
    BY <1>3, WalkIs
  <2> QED BY <2>1, Zenon DEF Walked
<1>5. Shortened(x, f, c) = W(1)
  BY <1>1, <1>2, ShortenedIs, Zenon
<1> HIDE DEF W
<1>6. DOMAIN x = 1 .. n /\ c \in Nat /\ c < c + 1 /\ \A i \in 1 .. n : x[i] \in Nat
  <2>1. \A i \in 1 .. n : x[i] \in Bytes
    BY <1>0
  <2> QED BY <1>0, <2>1, ByteFacts
<1>7. TokensOK(<<>>, key, c + 1)
  BY DEF TokensOK
<1>8. ASSUME NEW i \in Nat, i > 0, NEW j \in 1 .. n, i > j, \A u \in j + 1 .. n : u \in T
      PROVE  TokensOK(W(i), key, c + 1) /\ W(i) \in Seq(Bytes)
  <2>1. CASE i \in 1 .. n
    <3>1. i \in j + 1 .. n
      BY <1>8, <2>1
    <3> QED BY <1>4, <1>8, <3>1
  <2>2. CASE i \notin 1 .. n
    BY <1>4, <1>7, <2>2
  <2> QED BY <2>1, <2>2
<1>9. ASSUME NEW i \in 1 .. n, \A u \in i + 1 .. n : u \in T PROVE i \in T
  <2>1. i \in Nat /\ i >= 1 /\ i <= n /\ i + 1 \in Nat /\ i + 1 > i
    BY ONLY <1>9, n \in Nat
  <2>2. W(i) = out[i] \o W(i + took[i])
    BY <1>4, Zenon
  <2>3. CASE Begins(x, f, i)
    <3>1. out[i] = <<key, c>> /\ took[i] = f[1]
      BY <1>1, <1>2, <1>6, <2>3 DEF ShortOut, ShortTook
    <3>2. PICK r : r = W(i + f[1])
      OBVIOUS
    <3>3. TokensOK(r, key, c + 1) /\ r \in Seq(Bytes)
      <4>1. f[1] \in Nat \ {0}
        BY Zenon DEF Fits
      <4>2. i + f[1] \in Nat /\ i + f[1] > 0 /\ i + f[1] > i
        BY ONLY <2>1, <4>1
      <4> QED BY <1>8, <1>9, <3>2, <4>2
    <3>4. PICK z : z = <<key, c>> \o r
      OBVIOUS
    <3>5. <<key, c>> \in Seq(Bytes) /\ Len(<<key, c>>) = 2
      OBVIOUS
    <3>6. z[1] = key /\ z[2] = c /\ Len(z) >= 2
      BY <3>3, <3>4
    <3>7. \A u \in 1 .. Len(<<key, c>>) :
            z[u] = key => u < Len(z) /\ z[u + 1] # Marker /\ (z[u + 1] = key \/ z[u + 1] < c + 1)
      BY <1>6, <3>3, <3>6
    <3>8. TokensOK(z, key, c + 1)
      BY ONLY <3>3, <3>4, <3>5, <3>7, TokensJoined
    <3> QED BY <2>2, <3>1, <3>2, <3>4, <3>8
  <2>4. CASE ~ Begins(x, f, i)
    <3>1. out[i] = <<x[i]>> /\ took[i] = 1
      BY <1>1, <1>2, <1>6, <2>4 DEF ShortOut, ShortTook
    <3>2. PICK r : r = W(i + 1)
      OBVIOUS
    <3>3. TokensOK(r, key, c + 1) /\ r \in Seq(Bytes)
      <4>1. i + 1 \in Nat /\ i + 1 > 0 /\ i + 1 > i
        BY ONLY <2>1
      <4> QED BY <1>8, <1>9, <3>2, <4>1
    <3>4. PICK z : z = <<x[i]>> \o r
      OBVIOUS
    <3>5. <<x[i]>> \in Seq(Bytes) /\ Len(<<x[i]>>) = 1
      <4>1. x[i] \in Bytes
        BY <1>0
      <4> QED BY <4>1
    <3>6. z[1] = x[i] /\ Len(z) = Len(r) + 1 /\ \A u \in 1 .. Len(r) : z[u + 1] = r[u]
      BY <3>3, <3>4, <3>5
    <3>7. ASSUME x[i] = key
          PROVE  Len(r) >= 1 /\ r[1] # Marker /\ (r[1] = key \/ r[1] < c + 1)
      <4>1. i < n /\ x[i + 1] # Marker /\ (x[i + 1] = key \/ x[i + 1] < l)
        BY <1>0, <1>6, <3>7 DEF TokensOK
      <4>2. i + 1 \in 1 .. n
        BY ONLY <2>1, <4>1, n \in Nat
      <4>3. r = out[i + 1] \o W((i + 1) + took[i + 1])
        BY <1>4, <3>2, <4>2, Zenon
      <4>4. PICK v : v = W((i + 1) + took[i + 1])
        OBVIOUS
      <4>5. v \in Seq(Bytes)
        <5>1. took[i + 1] \in Nat \ {0}
          BY <1>3, <4>2 DEF Codes
        <5>2. (i + 1) + took[i + 1] \in Nat
          BY ONLY <2>1, <5>1
        <5> QED BY <1>4, <4>4, <5>2
      <4>6. out[i + 1] = <<key, c>> \/ out[i + 1] = <<x[i + 1]>>
        BY <1>1, <1>6, <4>2 DEF ShortOut
      <4>7. CASE out[i + 1] = <<key, c>>
        <5>1. r = <<key, c>> \o v
          BY <4>3, <4>4, <4>7, Zenon
        <5>2. Len(r) >= 1 /\ r[1] = key
          BY ONLY <4>5, <5>1, key \in Bytes, c \in Bytes
        <5>3. key # Marker
          OBVIOUS
        <5> QED BY <5>2, <5>3
      <4>8. CASE out[i + 1] = <<x[i + 1]>>
        <5>1. r = <<x[i + 1]>> \o v
          BY <4>3, <4>4, <4>8, Zenon
        <5>2. x[i + 1] \in Bytes
          BY <1>0, <4>2
        <5>3. Len(r) >= 1 /\ r[1] = x[i + 1]
          BY ONLY <4>5, <5>1, <5>2
        <5>4. x[i + 1] < l => x[i + 1] < c + 1
          BY ONLY <1>6, <4>2, l <= c, l \in Nat
        <5> QED BY <4>1, <5>3, <5>4
      <4> QED BY <4>6, <4>7, <4>8
    <3>8. \A u \in 1 .. Len(<<x[i]>>) :
            z[u] = key => u < Len(z) /\ z[u + 1] # Marker /\ (z[u + 1] = key \/ z[u + 1] < c + 1)
      BY <3>3, <3>5, <3>6, <3>7
    <3>9. TokensOK(z, key, c + 1)
      BY ONLY <3>3, <3>4, <3>5, <3>8, TokensJoined
    <3> QED BY <2>2, <3>1, <3>2, <3>4, <3>9
  <2> QED BY <2>3, <2>4
<1> HIDE DEF T
<1>10. 1 .. n \subseteq T
  BY <1>9, FromTheEnd
<1>11. TokensOK(W(1), key, c + 1)
  <2>1. CASE n = 0
    <3>1. W(1) = <<>>
      BY <1>4, <2>1
    <3> QED BY <1>7, <3>1
  <2>2. CASE n > 0
    <3>1. 1 \in T
      BY <1>10, <2>2
    <3> QED BY <3>1 DEF T
  <2> QED BY <2>1, <2>2
<1> QED BY <1>5, <1>11

\* Two sequences one behind the other have the elements of both.
LEMMA JoinedSet ==
  ASSUME NEW S, NEW a \in Seq(S), NEW b \in Seq(S)
  PROVE  ToSet(a \o b) = ToSet(a) \cup ToSet(b)
<1> DEFINE z == a \o b
<1>1. /\ z \in Seq(S) /\ Len(z) = Len(a) + Len(b) /\ Len(a) \in Nat /\ Len(b) \in Nat
      /\ \A j \in 1 .. Len(a) : z[j] = a[j]
      /\ \A j \in 1 .. Len(b) : z[Len(a) + j] = b[j]
  <2>1. Len(a) \in Nat /\ Len(b) \in Nat
    OBVIOUS
  <2> QED BY <2>1, Joined
<1>2. DOMAIN a = 1 .. Len(a) /\ DOMAIN b = 1 .. Len(b)
  OBVIOUS
<1> HIDE DEF z
<1>3. DOMAIN z = 1 .. Len(z)
  BY <1>1
<1>4. ASSUME NEW i \in 1 .. Len(a) PROVE a[i] \in ToSet(z)
  <2>1. i \in DOMAIN z
    BY ONLY <1>1, <1>3, i \in 1 .. Len(a)
  <2>2. z[i] = a[i]
    BY <1>1
  <2> QED BY <2>1, <2>2 DEF ToSet
<1>5. ASSUME NEW i \in 1 .. Len(b) PROVE b[i] \in ToSet(z)
  <2>1. Len(a) + i \in DOMAIN z
    BY ONLY <1>1, <1>3, i \in 1 .. Len(b)
  <2>2. z[Len(a) + i] = b[i]
    BY <1>1
  <2> QED BY <2>1, <2>2 DEF ToSet
<1>6. ASSUME NEW i \in 1 .. Len(z) PROVE z[i] \in ToSet(a) \cup ToSet(b)
  <2>1. CASE i \in 1 .. Len(a)
    BY <1>1, <1>2, <2>1 DEF ToSet
  <2>2. CASE i \notin 1 .. Len(a)
    <3>1. i - Len(a) \in 1 .. Len(b) /\ i = Len(a) + (i - Len(a))
      BY ONLY <1>1, <2>2, i \in 1 .. Len(z)
    <3>2. z[i] = b[i - Len(a)]
      BY <1>1, <3>1
    <3> QED BY <1>2, <3>1, <3>2 DEF ToSet
  <2> QED BY <2>1, <2>2
<1>7. ToSet(z) = ToSet(a) \cup ToSet(b)
  BY <1>2, <1>3, <1>4, <1>5, <1>6 DEF ToSet
<1> QED BY <1>7 DEF z

\* No byte of a text gets lost when a string goes to the list.
LEMMA ShortenedCovers ==
  ASSUME NEW x \in Seq(Bytes), NEW f, Fits(x, f), key \in Bytes, NEW c \in Bytes
  PROVE  /\ Shortened(x, f, c) \in Seq(Bytes)
         /\ ToSet(x) \subseteq ToSet(Shortened(x, f, c)) \cup ToSet(Window(x, f[2], f[1]))
<1>0. PICK n \in Nat : n = Len(x)
  OBVIOUS
<1>1. PICK out : out = ShortOut(x, f, key, c)
  OBVIOUS
<1>2. PICK took : took = ShortTook(x, f)
  OBVIOUS
<1>3. Codes(Bytes, x, n, out, took)
  BY <1>0, <1>1, <1>2, ShortTyped, Zenon
<1>13. PICK w \in Seq(Bytes) : w = Window(x, f[2], f[1]) /\ Len(w) = f[1]
  BY WindowTyped, Zenon
<1> DEFINE W(i) == Walk(x, i, out, took)
           T == {i \in 1 .. n : \A j \in i .. n : x[j] \in ToSet(W(i)) \cup ToSet(w)}
<1>4. /\ \A i \in Nat : W(i) \in Seq(Bytes)
      /\ \A i \in 1 .. n : W(i) = out[i] \o W(i + took[i])
      /\ \A i \in Nat : i \notin 1 .. n => W(i) = <<>>
  <2>1. Walked(Bytes, x, n, out, took)
    BY <1>3, WalkIs
  <2> QED BY <2>1, Zenon DEF Walked
<1>5. Shortened(x, f, c) = W(1)
  BY <1>1, <1>2, ShortenedIs, Zenon
<1> HIDE DEF W
<1>6. DOMAIN x = 1 .. n /\ n = Len(x)
  BY <1>0
<1>9. ASSUME NEW i \in 1 .. n, \A u \in i + 1 .. n : u \in T PROVE i \in T
  <2> SUFFICES ASSUME NEW j \in i .. n PROVE x[j] \in ToSet(W(i)) \cup ToSet(w)
    OBVIOUS
  <2>1. i \in Nat /\ i >= 1 /\ i <= n /\ j \in Nat /\ j >= i /\ j <= n
    BY ONLY n \in Nat, i \in 1 .. n, j \in i .. n
  <2>2. PICK l \in Nat : l = i + took[i] /\ l > i
    <3>1. took[i] \in Nat \ {0}
      BY <1>3 DEF Codes
    <3>2. i + took[i] \in Nat /\ i + took[i] > i
      BY ONLY <2>1, <3>1
    <3> QED BY <3>2
  <2>3. out[i] \in Seq(Bytes) /\ W(l) \in Seq(Bytes)
    BY <1>3, <1>4 DEF Codes
  <2>4. ToSet(W(i)) = ToSet(out[i]) \cup ToSet(W(l))
    <3>1. W(i) = out[i] \o W(l)
      BY <1>4, <2>2, Zenon
    <3> QED BY <2>3, <3>1, JoinedSet
  <2>5. CASE j >= l
    <3>1. l \in i + 1 .. n /\ j \in l .. n
      BY ONLY <2>1, <2>2, <2>5
    <3>2. x[j] \in ToSet(W(l)) \cup ToSet(w)
      BY <1>9, <3>1
    <3> QED BY <2>4, <3>2
  <2>6. CASE j < l /\ Begins(x, f, i)
    <3>1. took[i] = f[1]
      BY <1>2, <1>6, <2>6 DEF ShortTook
    <3>2. i + f[1] <= Len(x) + 1 /\ w = SubSeq(x, i, (i + f[1]) - 1)
      <4>1. i \in 1 .. Len(x)
        BY <1>6
      <4> QED BY <1>13, <2>6, <4>1, BeginsIs, Zenon
    <3>3. f[1] \in Nat /\ l = i + f[1]
      BY <2>2, <3>1 DEF Fits
    <3>4. (j - i) + 1 \in 1 .. f[1] /\ i + ((j - i) + 1) - 1 = j /\ i + f[1] - 1 <= Len(x) /\ (i + f[1]) - 1 = i + f[1] - 1
      <4>1. PICK g : g = f[1]
        OBVIOUS
      <4>2. g \in Nat /\ l = i + g /\ j < l /\ i + g <= n + 1 /\ i \in Nat /\ j \in Nat /\ j >= i
        BY <1>6, <2>1, <2>6, <3>2, <3>3, <4>1
      <4>3. (j - i) + 1 \in 1 .. g /\ i + ((j - i) + 1) - 1 = j
        BY ONLY <4>2
      <4>4. i + g - 1 <= n /\ (i + g) - 1 = i + g - 1
        BY ONLY <4>2, n \in Nat
      <4> QED BY <1>6, <4>1, <4>3, <4>4, Zenon
    <3>5. w[(j - i) + 1] = x[j]
      <4>1. \A u \in 1 .. f[1] : SubSeq(x, i, i + f[1] - 1)[u] = x[i + u - 1]
        <5>1. i \in 1 .. Len(x)
          BY <1>6
        <5> QED BY ONLY x \in Seq(Bytes), <3>3, <3>4, <5>1, PartIs
      <4>2. SubSeq(x, i, i + f[1] - 1)[(j - i) + 1] = x[i + ((j - i) + 1) - 1]
        BY <3>4, <4>1, Zenon
      <4> QED BY <3>2, <3>4, <4>2, Zenon
    <3>6. (j - i) + 1 \in DOMAIN w
      BY <1>13, <3>4
    <3> QED BY <3>5, <3>6 DEF ToSet
  <2>7. CASE j < l /\ ~ Begins(x, f, i)
    <3>1. out[i] = <<x[i]>> /\ took[i] = 1
      BY <1>1, <1>2, <1>6, <2>7 DEF ShortOut, ShortTook
    <3>2. j = i
      BY ONLY <2>1, <2>2, <2>7, <3>1
    <3>3. x[i] \in ToSet(out[i])
      BY <3>1 DEF ToSet
    <3> QED BY <2>4, <3>2, <3>3
  <2> QED BY <2>1, <2>2, <2>5, <2>6, <2>7
<1> HIDE DEF T
<1>10. 1 .. n \subseteq T
  BY <1>9, FromTheEnd
<1>11. ASSUME NEW j \in 1 .. n PROVE x[j] \in ToSet(W(1)) \cup ToSet(w)
  <2>1. 1 \in 1 .. n
    OBVIOUS
  <2> QED BY <1>10, <2>1 DEF T
<1>12. ToSet(x) \subseteq ToSet(W(1)) \cup ToSet(w)
  BY <1>6, <1>11 DEF ToSet
<1>14. W(1) \in Seq(Bytes)
  BY <1>4
<1> QED BY <1>5, <1>12, <1>13, <1>14

-----------------------------------------------------------------------------
(* Phase 2: the list of strings                                            *)

\* f is the list the decompressor reads in y, from each place on.
ReadFrom(y, f) ==
  f = [i \in Nat |-> IF CharAt(y, i) \in {0, CharValues} THEN [strings |-> <<>>, end |-> i]
                     ELSE [strings |-> <<Window(y, i + 1, y[i])>> \o f[i + y[i] + 1].strings,
                           end |-> f[i + y[i] + 1].end]]

\* The list is read from the second byte on.
LEMMA ListOfIs ==
  ASSUME NEW y PROVE ListOf(y) = (CHOOSE f : ReadFrom(y, f))[2]
  BY DEF ListOf, ReadFrom

\* There is such a reading: the places only grow.
LEMMA ReadExists ==
  ASSUME NEW y \in Seq(Bytes)
  PROVE  \E f : ReadFrom(y, f)
<1>0. PICK m \in Nat : m = Len(y) /\ DOMAIN y = 1 .. m
  OBVIOUS
<1> DEFINE Y == {Window(y, i + 1, y[i]) : i \in 1 .. m}
           X == [strings : Seq(Y), end : Nat]
           stop(i) == [strings |-> <<>>, end |-> i]
           more(i, r) == [strings |-> <<Window(y, i + 1, y[i])>> \o r.strings, end |-> r.end]
           behind == [i \in Nat |-> stop(i)]
           next == [i \in 1 .. m |-> i + y[i] + 1]
           step == [i \in 1 .. m |-> [r \in X |-> IF y[i] = 0 THEN stop(i) ELSE more(i, r)]]
<1>1. behind \in [Nat -> X]
  <2>1. \A i \in Nat : stop(i) \in X
    OBVIOUS
  <2> QED BY <2>1
<1>2. \A i \in 1 .. m : y[i] \in Nat /\ y[i] \in Bytes
  <2>1. \A i \in 1 .. m : y[i] \in Bytes
    BY <1>0
  <2> QED BY <2>1, ByteFacts
<1>3. next \in [1 .. m -> Nat] /\ \A i \in 1 .. m : next[i] > i
  BY <1>2
<1>4. step \in [1 .. m -> [X -> X]]
  <2>1. ASSUME NEW i \in 1 .. m, NEW r \in X PROVE stop(i) \in X /\ more(i, r) \in X
    <3>1. r.strings \in Seq(Y) /\ r.end \in Nat
      OBVIOUS
    <3>2. Window(y, i + 1, y[i]) \in Y
      OBVIOUS
    <3> HIDE DEF Y
    <3>3. <<Window(y, i + 1, y[i])>> \o r.strings \in Seq(Y)
      BY <3>1, <3>2
    <3> QED BY <3>1, <3>3
  <2> HIDE DEF X, stop, more
  <2> QED BY <2>1
<1> HIDE DEF behind, next, step, X
<1>5. PICK f \in [Nat -> X] : Follows(f, m, behind, next, step)
  <2>1. \A i \in 1 .. m : next[i] > i
    BY <1>3
  <2>2. next \in [1 .. m -> Nat]
    BY <1>3
  <2> QED BY <1>1, <1>4, <2>1, <2>2, LaterExists
<1>6. ASSUME NEW i \in Nat
      PROVE  f[i] = IF CharAt(y, i) \in {0, CharValues} THEN stop(i) ELSE more(i, f[i + y[i] + 1])
  <2>1. CASE i \in 1 .. m
    <3>1. f[i] = step[i][f[next[i]]]
      BY <1>5, <2>1, Zenon DEF Follows
    <3>2. next[i] \in Nat /\ next[i] = i + y[i] + 1
      BY <1>3, <2>1 DEF next
    <3>3. f[next[i]] \in X
      BY <3>2
    <3> HIDE DEF stop, more
    <3>4. f[i] = IF y[i] = 0 THEN stop(i) ELSE more(i, f[next[i]])
      BY <2>1, <3>1, <3>3 DEF step
    <3>5. CharAt(y, i) = y[i]
      BY <1>0, <2>1 DEF CharAt
    <3>6. y[i] # CharValues
      BY <1>2, <2>1, ByteFacts DEF Bytes
    <3> QED BY <3>2, <3>4, <3>5, <3>6
  <2>2. CASE i \notin 1 .. m
    <3>1. f[i] = behind[i]
      BY <1>5, <2>2, Zenon DEF Follows
    <3>2. CharAt(y, i) = CharValues
      BY <1>0, <2>2 DEF CharAt
    <3>3. behind[i] = stop(i)
      BY DEF behind
    <3> QED BY <3>1, <3>2, <3>3
  <2> QED BY <2>1, <2>2
<1>7. f = [i \in Nat |-> f[i]]
  OBVIOUS
<1>8. [i \in Nat |-> f[i]] = [i \in Nat |-> IF CharAt(y, i) \in {0, CharValues} THEN stop(i) ELSE more(i, f[i + y[i] + 1])]
  BY <1>6, Zenon
<1> QED BY <1>7, <1>8, Zenon DEF ReadFrom

\* What stands at p in two parts.
LEMMA PartParts ==
  ASSUME NEW y, NEW a \in Seq(Bytes), NEW r \in Seq(Bytes), NEW p \in Nat, Part(y, p, a \o r)
  PROVE  Part(y, p, a) /\ Part(y, p + Len(a), r)
<1> DEFINE z == a \o r
<1>1. /\ z \in Seq(Bytes) /\ Len(z) = Len(a) + Len(r) /\ Len(a) \in Nat /\ Len(r) \in Nat
      /\ \A j \in 1 .. Len(a) : z[j] = a[j]
      /\ \A j \in 1 .. Len(r) : z[Len(a) + j] = r[j]
  <2>1. Len(a) \in Nat /\ Len(r) \in Nat
    OBVIOUS
  <2> QED BY <2>1, Joined
<1>2. \A j \in 1 .. Len(z) : p - 1 + j \in 1 .. Len(y) /\ y[p - 1 + j] = z[j]
  BY Zenon DEF Part
<1> HIDE DEF z
<1>3. ASSUME NEW j \in 1 .. Len(a) PROVE p - 1 + j \in 1 .. Len(y) /\ y[p - 1 + j] = a[j]
  <2>1. j \in 1 .. Len(z)
    BY ONLY <1>1, j \in 1 .. Len(a)
  <2> QED BY <1>1, <1>2, <2>1
<1>4. ASSUME NEW j \in 1 .. Len(r) PROVE (p + Len(a)) - 1 + j \in 1 .. Len(y) /\ y[(p + Len(a)) - 1 + j] = r[j]
  <2>1. Len(a) + j \in 1 .. Len(z) /\ p - 1 + (Len(a) + j) = (p + Len(a)) - 1 + j
    BY ONLY <1>1, j \in 1 .. Len(r), p \in Nat
  <2> QED BY <1>1, <1>2, <2>1
<1>5. Part(y, p, a)
  BY <1>3, Zenon DEF Part
<1>6. Part(y, p + Len(a), r)
  BY <1>4, Zenon DEF Part
<1> QED BY <1>5, <1>6

\* Strings for which a byte each can tell the length, which is never 0 or CharValues.
Strings(E) == E \in Seq(Seq(Bytes)) /\ \A i \in 1 .. Len(E) : Len(E[i]) \in 1 .. Marker

\* What phase 2 puts out for each string.
LenOut(E) == [i \in DOMAIN E |-> <<Len(E[i])>> \o E[i]]
LenTook(E) == [i \in DOMAIN E |-> 1]

\* The list puts out bytes, a string at a time.
LEMMA LenTyped ==
  ASSUME NEW E, Strings(E), NEW n, n = Len(E)
  PROVE  Codes(Bytes, E, n, LenOut(E), LenTook(E))
<1>1. DOMAIN E = 1 .. n /\ n \in Nat
  BY DEF Strings
<1>2. ASSUME NEW i \in 1 .. n PROVE LenOut(E)[i] \in Seq(Bytes) /\ LenTook(E)[i] \in Nat \ {0}
  <2>1. E[i] \in Seq(Bytes) /\ Len(E[i]) \in 1 .. Marker
    BY DEF Strings
  <2>2. Len(E[i]) \in Bytes
    BY <2>1, ByteFacts DEF Bytes, Marker
  <2>3. <<Len(E[i])>> \in Seq(Bytes)
    BY <2>2
  <2>4. LenOut(E)[i] = <<Len(E[i])>> \o E[i] /\ LenTook(E)[i] = 1
    BY <1>1 DEF LenOut, LenTook
  <2> QED BY <2>1, <2>3, <2>4
<1>3. LenOut(E) = [i \in 1 .. n |-> LenOut(E)[i]] /\ LenTook(E) = [i \in 1 .. n |-> LenTook(E)[i]]
  BY <1>1 DEF LenOut, LenTook
<1>4. LenOut(E) \in [1 .. n -> Seq(Bytes)]
  BY <1>2, <1>3
<1>5. LenTook(E) \in [1 .. n -> Nat \ {0}]
  BY <1>2, <1>3
<1> QED BY <1>1, <1>4, <1>5 DEF Codes

\* From p on f reads e and what it reads behind it.
Reads(f, p, e) ==
  f[p] = [strings |-> <<e>> \o f[p + Len(e) + 1].strings, end |-> f[p + Len(e) + 1].end]

\* Where a string stands behind its length, the decompressor reads it.
LEMMA ReadOne ==
  ASSUME NEW y \in Seq(Bytes), NEW f, ReadFrom(y, f), NEW p \in Nat, NEW e \in Seq(Bytes),
         Len(e) \in 1 .. Marker, Part(y, p, <<Len(e)>> \o e)
  PROVE  Reads(f, p, e)
<1>0. PICK r : r = f[p + Len(e) + 1]
  OBVIOUS
<1>1. PICK n \in Nat : n = Len(e)
  OBVIOUS
<1>2. n \in 1 .. Marker /\ n \in Bytes /\ n # 0 /\ n # CharValues /\ n >= 1
  BY <1>1, ByteFacts DEF Bytes, Marker
<1>3. <<n>> \in Seq(Bytes) /\ Len(<<n>>) = 1
  BY <1>2
<1>4. Part(y, p, <<n>>) /\ Part(y, p + 1, e)
  <2>1. Part(y, p, <<n>> \o e)
    BY <1>1
  <2>2. Part(y, p, <<n>>) /\ Part(y, p + Len(<<n>>), e)
    BY <1>3, <2>1, PartParts, Zenon
  <2> QED BY <1>3, <2>2, Zenon
<1>5. p \in 1 .. Len(y) /\ y[p] = n
  <2>1. \A j \in 1 .. Len(<<n>>) : p - 1 + j \in 1 .. Len(y) /\ y[p - 1 + j] = <<n>>[j]
    BY <1>4, Zenon DEF Part
  <2>2. 1 \in 1 .. Len(<<n>>) /\ <<n>>[1] = n /\ p - 1 + 1 = p
    BY <1>3
  <2> QED BY <2>1, <2>2
<1>6. \A j \in 1 .. n : (p + 1) - 1 + j \in 1 .. Len(y) /\ y[(p + 1) - 1 + j] = e[j]
  BY <1>1, <1>4, Zenon DEF Part
<1>7. Window(y, p + 1, n) = e
  <2>1. p + 1 \in 1 .. Len(y) /\ (p + 1) + n <= Len(y) + 1 /\ n \in Nat \ {0}
    <3>1. 1 \in 1 .. n /\ n \in 1 .. n
      BY ONLY <1>2, n \in Nat
    <3>2. (p + 1) - 1 + 1 \in 1 .. Len(y) /\ (p + 1) - 1 + n \in 1 .. Len(y)
      BY <1>6, <3>1
    <3>3. Len(y) \in Nat
      OBVIOUS
    <3> QED BY ONLY <1>2, <3>2, <3>3, n \in Nat, p \in Nat
  <2> DEFINE v == Window(y, p + 1, n)
  <2>2. v \in Seq(Bytes) /\ Len(v) = n /\ v = SubSeq(y, p + 1, ((p + 1) + n) - 1)
    BY <2>1, WindowIs
  <2>3. \A j \in 1 .. n : SubSeq(y, p + 1, (p + 1) + n - 1)[j] = y[(p + 1) + j - 1]
    <3>1. (p + 1) + n - 1 <= Len(y)
      <4>1. Len(y) \in Nat
        OBVIOUS
      <4> QED BY ONLY <2>1, <4>1, n \in Nat, p \in Nat
    <3> QED BY <2>1, <3>1, PartIs
  <2>4. ((p + 1) + n) - 1 = (p + 1) + n - 1 /\ \A j \in 1 .. n : (p + 1) + j - 1 = (p + 1) - 1 + j
    BY ONLY n \in Nat, p \in Nat
  <2> HIDE DEF v
  <2>5. \A j \in 1 .. n : v[j] = e[j]
    <3> SUFFICES ASSUME NEW j \in 1 .. n PROVE v[j] = e[j]
      OBVIOUS
    <3>1. v[j] = y[(p + 1) + j - 1]
      BY <2>2, <2>3, <2>4, Zenon
    <3>2. (p + 1) + j - 1 = (p + 1) - 1 + j
      BY <2>4
    <3>3. y[(p + 1) - 1 + j] = e[j]
      BY <1>6
    <3> QED BY <3>1, <3>2, <3>3, Zenon
  <2>6. v = e
    BY ONLY <1>1, <2>2, <2>5, e \in Seq(Bytes), SeqEqual
  <2> QED BY <2>6 DEF v
<1>8. CharAt(y, p) = n
  BY <1>5, CharAtIs
<1>9. f[p] = IF CharAt(y, p) \in {0, CharValues} THEN [strings |-> <<>>, end |-> p]
             ELSE [strings |-> <<Window(y, p + 1, y[p])>> \o f[p + y[p] + 1].strings, end |-> f[p + y[p] + 1].end]
  BY Zenon DEF ReadFrom
<1>10. f[p] = [strings |-> <<Window(y, p + 1, y[p])>> \o f[p + y[p] + 1].strings, end |-> f[p + y[p] + 1].end]
  BY <1>2, <1>8, <1>9
<1>11. f[p + y[p] + 1] = r
  BY <1>0, <1>1, <1>5, Zenon
<1> QED BY <1>0, <1>5, <1>7, <1>10, <1>11, Zenon DEF Reads

\* The list ends where a null stands.
LEMMA ReadEnd ==
  ASSUME NEW y \in Seq(Bytes), NEW f, ReadFrom(y, f), NEW p \in 1 .. Len(y), y[p] = 0
  PROVE  f[p] = [strings |-> <<>>, end |-> p]
<1>1. p \in Nat
  OBVIOUS
<1>2. CharAt(y, p) = 0
  BY <1>1, CharAtIs
<1> QED BY <1>1, <1>2 DEF ReadFrom

\* The decompressor reads the strings and finds where the text begins.
LEMMA ListIs ==
  ASSUME NEW E, Strings(E), NEW y \in Seq(Bytes), NEW q \in 1 .. Len(y), y[q] = 0,
         NEW v, v = Walk(E, 1, LenOut(E), LenTook(E)), Part(y, 2, v), q = 2 + Len(v)
  PROVE  ListOf(y) = [strings |-> E, end |-> q]
<1>0. PICK n \in Nat : n = Len(E) /\ DOMAIN E = 1 .. n /\ E \in Seq(Seq(Bytes))
  BY DEF Strings
<1>1. PICK out : out = LenOut(E)
  OBVIOUS
<1>2. PICK took : took = LenTook(E)
  OBVIOUS
<1>3. Codes(Bytes, E, n, out, took)
  BY <1>0, <1>1, <1>2, LenTyped, Zenon
<1>4. PICK f : ReadFrom(y, f) /\ ListOf(y) = f[2]
  BY ReadExists, ListOfIs, Zenon
<1> DEFINE W(i) == Walk(E, i, out, took)
           T == {i \in 1 .. n + 1 : \A p \in Nat : Part(y, p, W(i)) /\ p + Len(W(i)) = q =>
                                                   f[p] = [strings |-> SubSeq(E, i, n), end |-> q]}
<1>5. /\ \A i \in Nat : W(i) \in Seq(Bytes)
      /\ \A i \in 1 .. n : W(i) = out[i] \o W(i + took[i])
      /\ \A i \in Nat : i \notin 1 .. n => W(i) = <<>>
  <2>1. Walked(Bytes, E, n, out, took)
    BY <1>3, WalkIs
  <2> QED BY <2>1, Zenon DEF Walked
<1>6. v = W(1)
  BY <1>1, <1>2, Zenon
<1> HIDE DEF W
<1>7. ASSUME NEW i \in 1 .. n + 1, \A j \in i + 1 .. n + 1 : j \in T PROVE i \in T
  <2> SUFFICES ASSUME NEW p \in Nat, Part(y, p, W(i)), p + Len(W(i)) = q
               PROVE  f[p] = [strings |-> SubSeq(E, i, n), end |-> q]
    OBVIOUS
  <2>1. CASE i = n + 1
    <3>1. i \in Nat /\ i \notin 1 .. n
      BY <2>1
    <3>2. W(i) = <<>>
      BY <1>5, <3>1, Zenon
    <3>3. p = q
      BY <3>2
    <3>4. SubSeq(E, i, n) = <<>>
      BY <1>0, <2>1
    <3>5. f[q] = [strings |-> <<>>, end |-> q]
      BY ONLY <1>4, y \in Seq(Bytes), q \in 1 .. Len(y), y[q] = 0, ReadEnd
    <3> QED BY <3>3, <3>4, <3>5, Zenon
  <2>2. CASE i \in 1 .. n
    <3>1. PICK e \in Seq(Bytes) : e = E[i] /\ Len(e) \in 1 .. Marker
      BY <1>0, <2>2 DEF Strings
    <3>2. out[i] = <<Len(e)>> \o e /\ took[i] = 1
      BY <1>0, <1>1, <1>2, <2>2, <3>1 DEF LenOut, LenTook
    <3>3. PICK a \in Seq(Bytes) : a = <<Len(e)>> \o e /\ Len(a) = Len(e) + 1
      <4>1. <<Len(e)>> \in Seq(Nat) /\ e \in Seq(Nat) /\ Len(<<Len(e)>>) = 1
        <5>1. Len(e) \in Nat
          OBVIOUS
        <5> QED BY <5>1, ByteFacts
      <4>2. Len(<<Len(e)>> \o e) = 1 + Len(e)
        BY <4>1, Joined
      <4>3. out[i] \in Seq(Bytes)
        BY <1>3, <2>2 DEF Codes
      <4>4. Len(e) \in Nat
        OBVIOUS
      <4>5. Len(<<Len(e)>> \o e) = Len(e) + 1
        BY ONLY <4>2, <4>4
      <4> QED BY <3>2, <4>3, <4>5, Zenon
    <3>4. i \in Nat /\ i + 1 \in Nat /\ i + 1 \in i + 1 .. n + 1 /\ i + 1 \in 1 .. n + 1
      BY ONLY <2>2, n \in Nat
    <3>5. PICK r \in Seq(Bytes) : r = W(i + 1)
      BY <1>5, <3>4
    <3>6. W(i) = a \o r
      BY <1>5, <2>2, <3>2, <3>3, <3>5, Zenon
    <3>7. Part(y, p, a) /\ Part(y, p + Len(a), r)
      BY <3>6, PartParts, Zenon
    <3>8. PICK u \in Nat : u = p + Len(e) + 1 /\ u = p + Len(a)
      <4>1. Len(e) \in Nat
        OBVIOUS
      <4> QED BY <3>3, <4>1
    <3>9. u + Len(r) = q
      <4>1. Len(a \o r) = Len(a) + Len(r) /\ Len(a) \in Nat /\ Len(r) \in Nat
        BY Joined
      <4>2. Len(W(i)) = Len(a) + Len(r)
        BY <3>6, <4>1, Zenon
      <4>3. p + Len(W(i)) = q
        OBVIOUS
      <4> QED BY ONLY <3>8, <4>1, <4>2, <4>3, p \in Nat
    <3>10. f[u] = [strings |-> SubSeq(E, i + 1, n), end |-> q]
      <4>1. i + 1 \in T
        BY <1>7, <3>4, Zenon
      <4>2. Part(y, u, W(i + 1)) /\ u + Len(W(i + 1)) = q
        BY <3>5, <3>7, <3>8, <3>9
      <4> QED BY <4>1, <4>2
    <3>11. f[p] = [strings |-> <<e>> \o f[u].strings, end |-> f[u].end]
      <4>1. Part(y, p, <<Len(e)>> \o e)
        BY <3>3, <3>7, Zenon
      <4>2. f[u] = f[p + Len(e) + 1]
        BY <3>8, Zenon
      <4>3. f[p] = [strings |-> <<e>> \o f[p + Len(e) + 1].strings, end |-> f[p + Len(e) + 1].end]
        <5>1. ReadFrom(y, f) /\ Len(e) \in 1 .. Marker
          BY <1>4, <3>1
        <5>2. Reads(f, p, e)
          BY <4>1, <5>1, ReadOne, Zenon
        <5> QED BY <5>2, Zenon DEF Reads
      <4> QED BY <4>2, <4>3, Zenon
    <3>12. <<e>> \o SubSeq(E, i + 1, n) = SubSeq(E, i, n)
      <4>1. i \in 1 .. Len(E) /\ i + 1 \in i .. Len(E) + 1 /\ n = Len(E)
        BY <1>0, <2>2
      <4>2. SubSeq(E, i, (i + 1) - 1) \o SubSeq(E, i + 1, Len(E)) = SubSeq(E, i, Len(E))
        BY ONLY <1>0, <4>1, SplitAgain
      <4>3. SubSeq(E, i, (i + 1) - 1) = <<E[i]>>
        BY ONLY <1>0, <4>1, OneIsToo
      <4> QED BY <3>1, <4>1, <4>2, <4>3, Zenon
    <3>13. f[u].strings = SubSeq(E, i + 1, n) /\ f[u].end = q
      BY ONLY <3>10
    <3> QED BY <3>11, <3>12, <3>13, Zenon
  <2>3. i = n + 1 \/ i \in 1 .. n
    BY ONLY i \in 1 .. n + 1, n \in Nat
  <2> QED BY <2>1, <2>2, <2>3
<1> HIDE DEF T
<1>8. 1 .. n + 1 \subseteq T
  <2>1. PICK m \in Nat : m = n + 1
    OBVIOUS
  <2>2. ASSUME NEW i \in 1 .. m, \A j \in i + 1 .. m : j \in T PROVE i \in T
    BY <1>7, <2>1, <2>2, Zenon
  <2>3. 1 .. m \subseteq T
    BY <2>2, FromTheEnd
  <2> QED BY <2>1, <2>3, Zenon
<1>9. f[2] = [strings |-> SubSeq(E, 1, n), end |-> q]
  <2>1. 1 \in T
    BY <1>8
  <2>2. Part(y, 2, W(1)) /\ 2 + Len(W(1)) = q
    BY <1>6
  <2> QED BY <2>1, <2>2 DEF T
<1>10. SubSeq(E, 1, n) = E
  BY <1>0
<1> QED BY <1>4, <1>9, <1>10

\* D goes from the data before phase 2 to the text t: putting the last string back goes one back.
Chain(D, E, k, whole, t) ==
  /\ D[0] = whole /\ D[Len(E)] = t
  /\ \A n \in 1 .. Len(E) : PutBack(D[n], k, n - 1, E[n]) = D[n - 1]

\* f holds the text while the strings are put back.
BackBy(t, k, E, f) ==
  f = [n \in 0 .. Len(E) |-> IF n = 0 THEN t ELSE PutBack(f[n - 1], k, Len(E) - n, E[Len(E) - n + 1])]
AllBack(t, k, E) == (CHOOSE f : BackBy(t, k, E, f))[Len(E)]

\* The strings are put back into what stands behind the list.
LEMMA StringsBackIs ==
  ASSUME NEW y PROVE StringsBack(y) = AllBack(SubSeq(y, ListOf(y).end, Len(y)), y[1], ListOf(y).strings)
  BY DEF StringsBack, AllBack, BackBy

\* Putting all strings back goes down a chain.
LEMMA AllBackIs ==
  ASSUME NEW E, Strings(E), NEW k, NEW whole, NEW t, NEW D, Chain(D, E, k, whole, t)
  PROVE  AllBack(t, k, E) = whole
<1>0. PICK n \in Nat : n = Len(E)
  BY DEF Strings
<1>1. D[0] = whole /\ D[n] = t /\ \A i \in 1 .. n : PutBack(D[i], k, i - 1, E[i]) = D[i - 1]
  BY <1>0, Zenon DEF Chain
<1> DEFINE B == [i \in 0 .. n |-> D[n - i]]
           f == CHOOSE g : BackBy(t, k, E, g)
<1>2. BackBy(t, k, E, B)
  <2>1. ASSUME NEW i \in 0 .. n
        PROVE  B[i] = IF i = 0 THEN t ELSE PutBack(B[i - 1], k, n - i, E[n - i + 1])
    <3>1. CASE i = 0
      BY <1>1, <3>1
    <3>2. CASE i # 0
      <4>1. PICK j \in 1 .. n : j = n - i + 1
        BY <3>2
      <4>2. i - 1 \in 0 .. n /\ n - (i - 1) = j /\ n - i = j - 1
        BY <3>2, <4>1
      <4>3. B[i] = D[j - 1] /\ B[i - 1] = D[j]
        BY <4>2
      <4>4. PutBack(D[j], k, j - 1, E[j]) = D[j - 1]
        BY <1>1
      <4> QED BY <3>2, <4>1, <4>2, <4>3, <4>4
    <3> QED BY <3>1, <3>2
  <2>2. B = [i \in 0 .. n |-> B[i]]
    OBVIOUS
  <2> HIDE DEF B
  <2>3. B = [i \in 0 .. n |-> IF i = 0 THEN t ELSE PutBack(B[i - 1], k, n - i, E[n - i + 1])]
    BY <2>1, <2>2
  <2> QED BY <1>0, <2>3, Zenon DEF BackBy
<1>3. BackBy(t, k, E, f)
  BY <1>2, Zenon
<1> HIDE DEF f
<1> DEFINE T == {i \in 0 .. n : f[i] = D[n - i]}
<1>4. \A i \in 0 .. n : f[i] = IF i = 0 THEN t ELSE PutBack(f[i - 1], k, n - i, E[n - i + 1])
  <2>1. f = [i \in 0 .. n |-> IF i = 0 THEN t ELSE PutBack(f[i - 1], k, n - i, E[n - i + 1])]
    BY <1>0, <1>3, Zenon DEF BackBy
  <2> QED BY <2>1, Zenon
<1>5. 0 \in T
  <2>1. f[0] = t
    BY <1>4
  <2> QED BY <1>1, <2>1
<1>6. ASSUME NEW i \in 1 .. n, i - 1 \in T PROVE i \in T
  <2>1. PICK j \in 1 .. n : j = n - i + 1
    OBVIOUS
  <2>2. i \in 0 .. n /\ n - (i - 1) = j /\ n - i = j - 1 /\ i # 0
    BY <2>1
  <2>3. f[i - 1] = D[j]
    BY <1>6, <2>2
  <2>4. f[i] = PutBack(f[i - 1], k, n - i, E[n - i + 1])
    BY <1>4, <2>2, Zenon
  <2>5. PutBack(D[j], k, j - 1, E[j]) = D[j - 1]
    BY <1>1
  <2>6. f[i] = D[n - i]
    BY <2>1, <2>2, <2>3, <2>4, <2>5, Zenon
  <2> QED BY <2>2, <2>6
<1> HIDE DEF T
<1>7. 0 .. n \subseteq T
  BY <1>5, <1>6, LoopInduction
<1>8. f[n] = whole
  <2>1. n \in T
    BY <1>7
  <2>2. n - n = 0
    OBVIOUS
  <2> QED BY <1>1, <2>1, <2>2 DEF T
<1> QED BY <1>0, <1>8, Zenon DEF AllBack, f

\* The decompressor finds the text behind the list and puts all strings back.
GivesBack(y, k, whole) == StringsBack(y) = whole /\ y \in Seq(Bytes) /\ Len(y) >= 1 /\ Head(y) = k

LEMMA StringsBackUndoes ==
  ASSUME NEW E, Strings(E), NEW k \in Bytes, NEW whole, NEW t \in Seq(Bytes), t # <<>>, Head(t) = 0,
         NEW D, Chain(D, E, k, whole, t)
  PROVE  GivesBack((<<k>> \o Walk(E, 1, LenOut(E), LenTook(E))) \o t, k, whole)
<1>0. PICK y : y = (<<k>> \o Walk(E, 1, LenOut(E), LenTook(E))) \o t
  OBVIOUS
<1>1. PICK v \in Seq(Bytes) : v = Walk(E, 1, LenOut(E), LenTook(E))
  <2>1. Codes(Bytes, E, Len(E), LenOut(E), LenTook(E))
    BY LenTyped, Zenon
  <2>2. Walked(Bytes, E, Len(E), LenOut(E), LenTook(E))
    BY <2>1, WalkIs
  <2> QED BY <2>2, Zenon DEF Walked
<1>2. PICK h \in Seq(Bytes) : h = <<k>> \o v /\ Len(h) = 1 + Len(v) /\ h[1] = k /\ \A j \in 1 .. Len(v) : h[1 + j] = v[j]
  <2>1. <<k>> \in Seq(Bytes) /\ Len(<<k>>) = 1 /\ <<k>>[1] = k /\ 1 \in 1 .. Len(<<k>>)
    OBVIOUS
  <2> DEFINE u == <<k>> \o v
  <2>2. /\ u \in Seq(Bytes) /\ Len(u) = Len(<<k>>) + Len(v) /\ \A j \in 1 .. Len(<<k>>) : u[j] = <<k>>[j]
        /\ \A j \in 1 .. Len(v) : u[Len(<<k>>) + j] = v[j]
    BY <2>1, Joined
  <2> HIDE DEF u
  <2>3. u \in Seq(Bytes) /\ Len(u) = 1 + Len(v) /\ u[1] = k /\ \A j \in 1 .. Len(v) : u[1 + j] = v[j]
    BY ONLY <2>1, <2>2
  <2> QED BY <2>3 DEF u
<1>3. y = h \o t
  BY <1>0, <1>1, <1>2, Zenon
<1>4. /\ y \in Seq(Bytes) /\ Len(y) = Len(h) + Len(t) /\ Len(h) \in Nat /\ Len(t) \in Nat /\ Len(v) \in Nat
      /\ \A j \in 1 .. Len(h) : y[j] = h[j]
      /\ \A j \in 1 .. Len(t) : y[Len(h) + j] = t[j]
  <2>1. Len(h) \in Nat /\ Len(t) \in Nat /\ Len(v) \in Nat
    OBVIOUS
  <2> DEFINE u == h \o t
  <2>2. /\ u \in Seq(Bytes) /\ Len(u) = Len(h) + Len(t) /\ \A j \in 1 .. Len(h) : u[j] = h[j]
        /\ \A j \in 1 .. Len(t) : u[Len(h) + j] = t[j]
    BY ONLY h \in Seq(Bytes), t \in Seq(Bytes), Joined
  <2>3. y = u
    BY <1>3
  <2> HIDE DEF u
  <2> QED BY <2>1, <2>2, <2>3, Zenon
<1>5. Len(t) >= 1 /\ t[1] = 0
  OBVIOUS
<1>6. PICK q \in Nat : q = 2 + Len(v)
  BY <1>4
<1>7. q \in 1 .. Len(y) /\ y[q] = 0 /\ q = Len(h) + 1
  <2>1. q = Len(h) + 1 /\ q \in 1 .. Len(y) /\ 1 \in 1 .. Len(t)
    BY ONLY <1>2, <1>4, <1>5, <1>6
  <2> QED BY <1>4, <1>5, <2>1
<1>8. Part(y, 2, v)
  <2>1. ASSUME NEW j \in 1 .. Len(v) PROVE 2 - 1 + j \in 1 .. Len(y) /\ y[2 - 1 + j] = v[j]
    <3>1. 2 - 1 + j = 1 + j /\ 1 + j \in 1 .. Len(h) /\ 1 + j \in 1 .. Len(y)
      BY ONLY <1>2, <1>4, j \in 1 .. Len(v)
    <3> QED BY <1>2, <1>4, <3>1
  <2> QED BY <2>1, Zenon DEF Part
<1>9. ListOf(y) = [strings |-> E, end |-> q]
  BY <1>1, <1>4, <1>6, <1>7, <1>8, ListIs
<1>10. SubSeq(y, q, Len(y)) = t
  <2> DEFINE s == SubSeq(y, q, Len(y))
  <2>1. s \in Seq(Bytes) /\ Len(s) = Len(y) - q + 1 /\ \A j \in 1 .. Len(s) : s[j] = y[q + j - 1]
    <3>1. q <= Len(y) /\ Len(y) \in Nat
      BY ONLY <1>4, <1>7
    <3> QED BY ONLY <1>4, <1>7, <3>1, q \in Nat
  <2> HIDE DEF s
  <2>2. Len(s) = Len(t)
    BY ONLY <1>4, <1>7, <2>1, q \in Nat
  <2>3. ASSUME NEW j \in 1 .. Len(s) PROVE s[j] = t[j]
    <3>1. q + j - 1 = Len(h) + j /\ j \in 1 .. Len(t)
      BY ONLY <1>4, <1>7, <2>2, j \in 1 .. Len(s)
    <3> QED BY <1>4, <2>1, <3>1
  <2>4. s = t
    BY ONLY <2>1, <2>2, <2>3, t \in Seq(Bytes), SeqEqual
  <2> QED BY <2>4 DEF s
<1>11. y[1] = k /\ Len(y) >= 1
  <2>1. 1 \in 1 .. Len(h) /\ Len(y) >= 1
    BY ONLY <1>2, <1>4
  <2> QED BY <1>2, <1>4, <2>1
<1>12. StringsBack(y) = AllBack(t, k, E)
  <2>1. ListOf(y).strings = E /\ ListOf(y).end = q
    BY ONLY <1>9
  <2> QED BY <1>10, <1>11, <2>1, StringsBackIs, Zenon
<1>13. AllBack(t, k, E) = whole
  BY AllBackIs, Zenon
<1>14. GivesBack(y, k, whole)
  BY <1>4, <1>11, <1>12, <1>13 DEF GivesBack
<1> QED BY <1>0, <1>14, Zenon

-----------------------------------------------------------------------------
(* Layer 2 and the beginning of phase 2                                    *)

\* f holds the data of the rounds of layer 2, which end when the data begin with the null.
ListsBy(x, most, f) ==
  f = [n \in 0 .. most |-> IF n = 0 THEN x
                           ELSE LET y == f[n - 1] IN IF y = <<>> \/ Head(y) = 0 THEN y ELSE StringsBack(y)]
LastLists(x, most) == (CHOOSE f : ListsBy(x, most, f))[most]
Unlisted(x) ==
  LET last == IF x = <<>> \/ Head(x) = 0 THEN <<>> ELSE Stopped(LastLists(x, Len(x)), 0)
  IN IF last = <<>> THEN <<>> ELSE Tail(last)

\* Layer 2 with its rounds named.
LEMMA Layer2Is ==
  ASSUME NEW x PROVE Layer2(x) = Unlisted(x)
  BY DEF Layer2, Rounds, Unlisted, Stopped, LastLists, ListsBy

\* Layer 2 ends after the round that brings the null to the front, and takes it off.
LEMMA Layer2Undoes ==
  ASSUME NEW y \in Seq(Bytes), Len(y) >= 1, Head(y) # 0,
         NEW whole, whole # <<>>, Head(whole) = 0, StringsBack(y) = whole
  PROVE  Layer2(y) = Tail(whole)
<1>0. PICK most \in Nat : most = Len(y) /\ most >= 1
  OBVIOUS
<1>1. y # <<>>
  OBVIOUS
<1> DEFINE B == [n \in 0 .. most |-> IF n = 0 THEN y ELSE whole]
           f == CHOOSE g : ListsBy(y, most, g)
           Next(a) == IF a = <<>> \/ Head(a) = 0 THEN a ELSE StringsBack(a)
<1>2. Next(y) = whole /\ Next(whole) = whole
  BY <1>1
<1>3. ASSUME NEW g PROVE ListsBy(y, most, g) <=> g = [n \in 0 .. most |-> IF n = 0 THEN y ELSE Next(g[n - 1])]
  BY DEF ListsBy
<1> HIDE DEF Next
<1>4. ListsBy(y, most, B)
  <2>1. ASSUME NEW n \in 0 .. most PROVE B[n] = IF n = 0 THEN y ELSE Next(B[n - 1])
    <3>1. CASE n = 0
      BY <3>1
    <3>2. CASE n # 0
      <4>1. n - 1 \in 0 .. most /\ B[n] = whole
        BY <3>2
      <4>2. B[n - 1] = y \/ B[n - 1] = whole
        BY <4>1
      <4> QED BY <1>2, <3>2, <4>1, <4>2
    <3> QED BY <3>1, <3>2
  <2>2. B = [n \in 0 .. most |-> B[n]]
    OBVIOUS
  <2> HIDE DEF B
  <2>3. B = [n \in 0 .. most |-> IF n = 0 THEN y ELSE Next(B[n - 1])]
    BY <2>1, <2>2
  <2> QED BY <1>3, <2>3
<1>5. ListsBy(y, most, f)
  BY <1>4, Zenon
<1> HIDE DEF f
<1> DEFINE T == {n \in 0 .. most : f[n] = IF n = 0 THEN y ELSE whole}
<1>6. \A n \in 0 .. most : f[n] = IF n = 0 THEN y ELSE Next(f[n - 1])
  <2>1. f = [n \in 0 .. most |-> IF n = 0 THEN y ELSE Next(f[n - 1])]
    BY <1>3, <1>5
  <2> QED BY <2>1, Zenon
<1>7. 0 \in T
  BY <1>6
<1>8. ASSUME NEW n \in 1 .. most, n - 1 \in T PROVE n \in T
  <2>1. n \in 0 .. most /\ n # 0
    OBVIOUS
  <2>2. f[n - 1] = y \/ f[n - 1] = whole
    BY <1>8
  <2>3. f[n] = Next(f[n - 1])
    BY <1>6, <2>1, Zenon
  <2>4. f[n] = whole
    BY <1>2, <2>2, <2>3, Zenon
  <2> QED BY <2>1, <2>4
<1> HIDE DEF T
<1>9. 0 .. most \subseteq T
  BY <1>7, <1>8, LoopInduction
<1>10. f[most] = whole
  <2>1. most \in T /\ most # 0
    BY <1>0, <1>9
  <2> QED BY <2>1 DEF T
<1>11. Stopped(LastLists(y, Len(y)), 0) = whole
  <2>1. LastLists(y, Len(y)) = f[most]
    BY <1>0 DEF LastLists, f
  <2> QED BY <1>10, <2>1 DEF Stopped
<1>12. Unlisted(y) = Tail(whole)
  BY <1>1, <1>11, Zenon DEF Unlisted
<1> QED BY <1>12, Layer2Is, Zenon

\* A byte put at the end.
LEMMA AppendIs ==
  ASSUME NEW c \in Seq(Bytes), NEW b \in Bytes
  PROVE  Append(c, b) \in Seq(Bytes) /\ ToSet(Append(c, b)) = ToSet(c) \cup {b}
<1>1. Append(c, b) = c \o <<b>> /\ <<b>> \in Seq(Bytes) /\ Append(c, b) \in Seq(Bytes)
  OBVIOUS
<1>2. ToSet(<<b>>) = {b}
  BY DEF ToSet
<1>3. ToSet(c \o <<b>>) = ToSet(c) \cup ToSet(<<b>>)
  BY ONLY c \in Seq(Bytes), <1>1, JoinedSet
<1> QED BY <1>1, <1>2, <1>3, Zenon

\* g[i] is the copy of the first i bytes of x with a marker behind each escape byte.
Copies(x, k, g) ==
  g = [i \in 0 .. Len(x) |-> IF i = 0 THEN <<>>
                             ELSE LET s == Append(g[i - 1], x[i]) IN IF s[i] = k THEN Append(s, Marker) ELSE s]

\* The copy with its escape bytes marked, as the last of its beginnings.
LEMMA EscapedIs ==
  ASSUME NEW x, NEW k PROVE Escaped(x, k) = (CHOOSE g : Copies(x, k, g))[Len(x)]
  BY DEF Escaped, Copies

\* There are such copies.
LEMMA CopyExists ==
  ASSUME NEW x \in Seq(Bytes), NEW k
  PROVE  \E g \in [0 .. Len(x) -> Seq(Bytes)] : Copies(x, k, g)
<1>0. PICK n \in Nat : n = Len(x)
  OBVIOUS
<1> DEFINE X == Seq(Bytes)
           one(i, c) == LET s == Append(c, x[i]) IN IF s[i] = k THEN Append(s, Marker) ELSE s
           F == [i \in 1 .. n |-> [c \in X |-> one(i, c)]]
<1>1. \A i \in 1 .. n, c \in X : one(i, c) \in X
  <2> SUFFICES ASSUME NEW i \in 1 .. n, NEW c \in X PROVE one(i, c) \in X
    OBVIOUS
  <2>1. x[i] \in Bytes /\ Marker \in Bytes
    BY <1>0, ByteFacts
  <2>2. PICK s \in Seq(Bytes) : s = Append(c, x[i])
    BY <2>1, AppendIs, Zenon
  <2>3. Append(s, Marker) \in Seq(Bytes)
    BY <2>1, AppendIs, Zenon
  <2>4. one(i, c) = IF s[i] = k THEN Append(s, Marker) ELSE s
    BY <2>2
  <2> QED BY <2>3, <2>4
<1> HIDE DEF one
<1>2. F \in [1 .. n -> [X -> X]]
  BY <1>1
<1>3. <<>> \in X
  OBVIOUS
<1> HIDE DEF F
<1>4. PICK g : IsLoop(g, n, X, <<>>, F)
  BY <1>2, <1>3, LoopExists
<1>5. g \in [0 .. n -> X] /\ g[0] = <<>> /\ \A i \in 1 .. n : g[i] = F[i][g[i - 1]]
  BY <1>4, Zenon DEF IsLoop
<1>6. ASSUME NEW i \in 0 .. n PROVE g[i] = IF i = 0 THEN <<>> ELSE one(i, g[i - 1])
  <2>1. CASE i = 0
    BY <1>5, <2>1
  <2>2. CASE i # 0
    <3>1. i \in 1 .. n /\ i - 1 \in 0 .. n
      BY <2>2
    <3>2. g[i] = F[i][g[i - 1]] /\ g[i - 1] \in X
      BY <1>5, <3>1
    <3>3. F[i][g[i - 1]] = one(i, g[i - 1])
      BY <3>1, <3>2 DEF F
    <3> QED BY <2>2, <3>2, <3>3
  <2> QED BY <2>1, <2>2
<1>7. g = [i \in 0 .. n |-> g[i]]
  BY <1>5
<1>8. g = [i \in 0 .. n |-> IF i = 0 THEN <<>> ELSE one(i, g[i - 1])]
  BY <1>6, <1>7
<1>9. Copies(x, k, g)
  BY <1>0, <1>8, Zenon DEF Copies, one
<1> QED BY <1>0, <1>5, <1>9

\* The copy is a buffer with every byte of the original in it, and the original itself when
\* the escape byte does not occur.
LEMMA EscapedKeeps ==
  ASSUME NEW x \in Seq(Bytes), NEW k
  PROVE  /\ Escaped(x, k) \in Seq(Bytes)
         /\ ToSet(x) \subseteq ToSet(Escaped(x, k))
         /\ k \notin ToSet(x) => Escaped(x, k) = x
<1>0. PICK n \in Nat : n = Len(x) /\ DOMAIN x = 1 .. n
  OBVIOUS
<1> DEFINE g == CHOOSE h : Copies(x, k, h)
<1>1. Copies(x, k, g)
  BY CopyExists, Zenon
<1>2. Escaped(x, k) = g[n]
  BY <1>0, EscapedIs, Zenon
<1> HIDE DEF g
<1>3. \A i \in 0 .. n : g[i] = IF i = 0 THEN <<>>
                               ELSE LET s == Append(g[i - 1], x[i]) IN IF s[i] = k THEN Append(s, Marker) ELSE s
  <2>1. g = [i \in 0 .. n |-> IF i = 0 THEN <<>>
                              ELSE LET s == Append(g[i - 1], x[i]) IN IF s[i] = k THEN Append(s, Marker) ELSE s]
    BY <1>0, <1>1, Zenon DEF Copies
  <2> QED BY <2>1, Zenon
<1> DEFINE Right(i) == /\ g[i] \in Seq(Bytes)
                       /\ \A j \in 1 .. i : x[j] \in ToSet(g[i])
                       /\ k \notin ToSet(x) => g[i] = SubSeq(x, 1, i)
           T == {i \in 0 .. n : Right(i)}
<1>4. 0 \in T
  <2>1. g[0] = <<>>
    BY <1>3
  <2>2. SubSeq(x, 1, 0) = <<>>
    OBVIOUS
  <2>3. <<>> \in Seq(Bytes) /\ 0 \in 0 .. n /\ 1 .. 0 = {}
    OBVIOUS
  <2> QED BY <2>1, <2>2, <2>3
<1>5. ASSUME NEW i \in 1 .. n, i - 1 \in T PROVE i \in T
  <2>1. i \in 0 .. n /\ i # 0 /\ i - 1 \in 0 .. n /\ i \in Nat /\ i - 1 \in Nat /\ i \in 1 .. Len(x)
    BY <1>0
  <2>2. x[i] \in Bytes /\ Marker \in Bytes /\ x[i] \in ToSet(x)
    BY <1>0, <2>1, ByteFacts DEF ToSet
  <2>3. PICK c \in Seq(Bytes) : c = g[i - 1]
    BY <1>5
  <2>4. PICK s \in Seq(Bytes) : s = Append(c, x[i]) /\ ToSet(s) = ToSet(c) \cup {x[i]}
    BY <2>2, AppendIs, Zenon
  <2>5. PICK a \in Seq(Bytes) : a = Append(s, Marker) /\ ToSet(a) = ToSet(s) \cup {Marker}
    BY <2>2, AppendIs, Zenon
  <2>6. g[i] = IF s[i] = k THEN a ELSE s
    BY <1>3, <2>1, <2>3, <2>4, <2>5
  <2>7. \A j \in 1 .. i - 1 : x[j] \in ToSet(c)
    BY <1>5, <2>3
  <2>8. ASSUME NEW j \in 1 .. i PROVE x[j] \in ToSet(s)
    <3>1. j \in 1 .. i - 1 \/ j = i
      BY ONLY <2>1, j \in 1 .. i
    <3> QED BY <2>4, <2>7, <3>1
  <2>9. ASSUME k \notin ToSet(x) PROVE s = SubSeq(x, 1, i) /\ s[i] # k
    <3>1. c = SubSeq(x, 1, i - 1)
      BY <1>5, <2>3, <2>9
    <3>2. SubSeq(x, 1, i) = Append(SubSeq(x, 1, i - 1), x[i])
      BY <2>1
    <3>3. s = SubSeq(x, 1, i)
      BY <2>4, <3>1, <3>2, Zenon
    <3>4. SubSeq(x, 1, i)[i] = x[i]
      BY <2>1
    <3> QED BY <2>2, <2>9, <3>3, <3>4
  <2>10. Right(i)
    BY <2>5, <2>6, <2>8, <2>9
  <2> QED BY <2>1, <2>10
<1> HIDE DEF T
<1>6. 0 .. n \subseteq T
  BY <1>4, <1>5, LoopInduction
<1>7. Right(n)
  <2>1. n \in T
    BY <1>6
  <2> QED BY <2>1 DEF T
<1>8. SubSeq(x, 1, n) = x
  BY <1>0
<1>9. ToSet(x) \subseteq ToSet(g[n])
  BY <1>0, <1>7 DEF ToSet
<1> QED BY <1>2, <1>7, <1>8, <1>9

-----------------------------------------------------------------------------
(* Lists and texts grow                                                    *)

\* What the list puts out has all bytes of its strings.
LEMMA ListHas ==
  ASSUME NEW E, Strings(E)
  PROVE  /\ Walk(E, 1, LenOut(E), LenTook(E)) \in Seq(Bytes)
         /\ \A j \in 1 .. Len(E) : ToSet(E[j]) \subseteq ToSet(Walk(E, 1, LenOut(E), LenTook(E)))
<1>0. PICK n \in Nat : n = Len(E) /\ DOMAIN E = 1 .. n
  BY DEF Strings
<1>1. PICK out : out = LenOut(E)
  OBVIOUS
<1>2. PICK took : took = LenTook(E)
  OBVIOUS
<1>3. Codes(Bytes, E, n, out, took)
  BY <1>0, <1>1, <1>2, LenTyped, Zenon
<1> DEFINE W(i) == Walk(E, i, out, took)
           T == {i \in 1 .. n : \A j \in i .. n : ToSet(E[j]) \subseteq ToSet(W(i))}
<1>4. /\ \A i \in Nat : W(i) \in Seq(Bytes)
      /\ \A i \in 1 .. n : W(i) = out[i] \o W(i + took[i])
  <2>1. Walked(Bytes, E, n, out, took)
    BY <1>3, WalkIs
  <2> QED BY <2>1, Zenon DEF Walked
<1> HIDE DEF W
<1>5. ASSUME NEW i \in 1 .. n, \A j \in i + 1 .. n : j \in T PROVE i \in T
  <2> SUFFICES ASSUME NEW j \in i .. n PROVE ToSet(E[j]) \subseteq ToSet(W(i))
    OBVIOUS
  <2>1. i \in Nat /\ i + 1 \in Nat /\ (j = i \/ (i + 1 \in i + 1 .. n /\ j \in i + 1 .. n))
    BY ONLY i \in 1 .. n, j \in i .. n, n \in Nat
  <2>2. PICK e \in Seq(Bytes) : e = E[i] /\ Len(e) \in Nat /\ Len(e) \in Bytes
    <3>1. E[i] \in Seq(Bytes) /\ Len(E[i]) \in 1 .. Marker
      BY <1>0 DEF Strings
    <3>2. Len(E[i]) \in Bytes /\ Len(E[i]) \in Nat
      BY <3>1, ByteFacts DEF Bytes, Marker
    <3> QED BY <3>1, <3>2
  <2>3. out[i] = <<Len(e)>> \o e /\ took[i] = 1
    BY <1>0, <1>1, <1>2, <2>2 DEF LenOut, LenTook
  <2>4. W(i) = (<<Len(e)>> \o e) \o W(i + 1)
    BY <1>4, <2>3, Zenon
  <2>5. W(i + 1) \in Seq(Bytes)
    BY <1>4, <2>1
  <2>6. ToSet(<<Len(e)>> \o e) = ToSet(<<Len(e)>>) \cup ToSet(e) /\ <<Len(e)>> \o e \in Seq(Bytes)
    <3>1. <<Len(e)>> \in Seq(Bytes)
      BY <2>2
    <3>2. <<Len(e)>> \o e \in Seq(Bytes)
      BY <3>1
    <3> QED BY <3>1, <3>2, JoinedSet, Zenon
  <2>7. ToSet(W(i)) = (ToSet(<<Len(e)>>) \cup ToSet(e)) \cup ToSet(W(i + 1))
    <3>1. PICK a \in Seq(Bytes) : a = <<Len(e)>> \o e
      BY <2>6
    <3>2. PICK r \in Seq(Bytes) : r = W(i + 1)
      BY <2>5
    <3>3. ToSet(a \o r) = ToSet(a) \cup ToSet(r)
      BY ONLY a \in Seq(Bytes), r \in Seq(Bytes), JoinedSet, Zenon
    <3>4. W(i) = a \o r
      BY <2>4, <3>1, <3>2, Zenon
    <3>5. ToSet(a) = ToSet(<<Len(e)>>) \cup ToSet(e)
      BY <2>6, <3>1, Zenon
    <3> QED BY <3>2, <3>3, <3>4, <3>5, Zenon
  <2>8. CASE j = i
    BY <2>2, <2>7, <2>8
  <2>9. CASE i + 1 \in i + 1 .. n /\ j \in i + 1 .. n
    <3>1. i + 1 \in T
      BY <1>5, <2>9
    <3>2. ToSet(E[j]) \subseteq ToSet(W(i + 1))
      BY <2>9, <3>1
    <3> QED BY <2>7, <3>2
  <2> QED BY <2>1, <2>8, <2>9
<1> HIDE DEF T
<1>6. 1 .. n \subseteq T
  BY <1>5, FromTheEnd
<1>7. ASSUME NEW j \in 1 .. n PROVE ToSet(E[j]) \subseteq ToSet(W(1))
  <2>1. 1 \in 1 .. n
    OBVIOUS
  <2> QED BY <1>6, <2>1 DEF T
<1>8. W(1) \in Seq(Bytes)
  BY <1>4
<1> QED BY <1>0, <1>1, <1>2, <1>7, <1>8, Zenon DEF W

\* A chain grows by a string.
LEMMA ChainMore ==
  ASSUME NEW E, Strings(E), NEW k, NEW whole, NEW t, NEW u, NEW w \in Seq(Bytes),
         \E D : Chain(D, E, k, whole, t), PutBack(u, k, Len(E), w) = t
  PROVE  \E D : Chain(D, Append(E, w), k, whole, u)
<1>1. PICK n \in Nat : n = Len(E) /\ E \in Seq(Seq(Bytes))
  BY DEF Strings
<1>2. PICK D : Chain(D, E, k, whole, t)
  OBVIOUS
<1>3. D[0] = whole /\ D[n] = t /\ \A i \in 1 .. n : PutBack(D[i], k, i - 1, E[i]) = D[i - 1]
  BY <1>1, <1>2, Zenon DEF Chain
<1> DEFINE A == Append(E, w)
           H == [i \in 0 .. n + 1 |-> IF i <= n THEN D[i] ELSE u]
<1>4. Len(A) = n + 1 /\ A[n + 1] = w /\ \A i \in 1 .. n : A[i] = E[i]
  BY <1>1
<1> HIDE DEF A
<1>5. H[0] = whole /\ H[n + 1] = u
  BY <1>3
<1>6. ASSUME NEW i \in 1 .. n + 1 PROVE PutBack(H[i], k, i - 1, A[i]) = H[i - 1]
  <2>1. CASE i <= n
    <3>1. i \in 1 .. n /\ i \in 0 .. n + 1 /\ i - 1 \in 0 .. n + 1 /\ i - 1 <= n
      BY <2>1
    <3>2. H[i] = D[i] /\ H[i - 1] = D[i - 1]
      BY <2>1, <3>1
    <3> QED BY <1>3, <1>4, <3>1, <3>2
  <2>2. CASE i = n + 1
    <3>1. i \in 0 .. n + 1 /\ i - 1 \in 0 .. n + 1 /\ i - 1 = n /\ ~ (i <= n)
      BY <2>2
    <3>2. H[i] = u /\ H[i - 1] = t
      BY <1>3, <3>1
    <3> QED BY <1>1, <1>4, <2>2, <3>1, <3>2
  <2> QED BY <2>1, <2>2
<1> HIDE DEF H
<1>7. Chain(H, A, k, whole, u)
  BY <1>4, <1>5, <1>6 DEF Chain
<1> QED BY <1>7 DEF A

\* A string at the end of the list.
LEMMA StringsMore ==
  ASSUME NEW E, Strings(E), NEW w \in Seq(Bytes), Len(w) \in 1 .. Marker
  PROVE  /\ Strings(Append(E, w)) /\ Len(Append(E, w)) = Len(E) + 1 /\ Len(E) \in Nat
         /\ Append(E, w)[Len(E) + 1] = w /\ \A i \in 1 .. Len(E) : Append(E, w)[i] = E[i]
<1>1. PICK n \in Nat : n = Len(E) /\ E \in Seq(Seq(Bytes))
  BY DEF Strings
<1> DEFINE A == Append(E, w)
<1>2. A \in Seq(Seq(Bytes)) /\ Len(A) = n + 1 /\ A[n + 1] = w /\ \A i \in 1 .. n : A[i] = E[i]
  BY <1>1
<1> HIDE DEF A
<1>3. ASSUME NEW i \in 1 .. n + 1 PROVE Len(A[i]) \in 1 .. Marker
  <2>1. i = n + 1 \/ i \in 1 .. n
    BY ONLY i \in 1 .. n + 1, n \in Nat
  <2>2. \A j \in 1 .. n : Len(E[j]) \in 1 .. Marker
    BY <1>1 DEF Strings
  <2> QED BY <1>2, <2>1, <2>2
<1>4. Strings(A)
  BY <1>2, <1>3 DEF Strings
<1> QED BY <1>1, <1>2, <1>4 DEF A

\* Tokens that name strings of a list name strings of a longer one.
LEMMA TokensLater ==
  ASSUME NEW z \in Seq(Bytes), NEW k, NEW l \in Nat, NEW n \in Nat, l <= n, TokensOK(z, k, l)
  PROVE  TokensOK(z, k, n)
<1>1. ASSUME NEW i \in DOMAIN z, z[i] = k
      PROVE  i < Len(z) /\ z[i + 1] # Marker /\ (z[i + 1] = k \/ z[i + 1] < n)
  <2>1. i < Len(z) /\ z[i + 1] # Marker /\ (z[i + 1] = k \/ z[i + 1] < l)
    BY <1>1 DEF TokensOK
  <2>2. z[i + 1] \in Nat
    <3>1. i + 1 \in 1 .. Len(z)
      BY <2>1
    <3>2. z[i + 1] \in Bytes
      BY <3>1
    <3> QED BY <3>2, ByteFacts
  <2> QED BY <2>1, <2>2
<1> QED BY <1>1, Zenon DEF TokensOK

\* The escape byte of phase 2 marks nothing but tokens.
Plain(k, whole) == k \notin {Marker} \cup ToSet(whole)

\* Every byte of the data is in the text or in one of the strings, and taking the strings
\* back gives the data, if the escape byte allows that.
Covered(E, t, whole) == \A b \in ToSet(whole) : b \in ToSet(t) \/ \E i \in 1 .. Len(E) : b \in ToSet(E[i])
TextOf(E, t, k, whole) ==
  /\ Covered(E, t, whole)
  /\ Plain(k, whole) => TokensOK(t, k, Len(E)) /\ \E D : Chain(D, E, k, whole, t)

\* No byte gets lost with a string more in the list.
LEMMA CoveredMore ==
  ASSUME NEW E, Strings(E), NEW w \in Seq(Bytes), Len(w) \in 1 .. Marker, NEW t, NEW u, NEW whole,
         Covered(E, t, whole), ToSet(t) \subseteq ToSet(u) \cup ToSet(w)
  PROVE  Covered(Append(E, w), u, whole)
<1>1. PICK n \in Nat : n = Len(E)
  BY StringsMore
<1>2. PICK A : A = Append(E, w)
  OBVIOUS
<1>3. Len(A) = n + 1 /\ A[n + 1] = w /\ \A i \in 1 .. n : A[i] = E[i]
  BY <1>1, <1>2, StringsMore
<1>4. n + 1 \in 1 .. n + 1 /\ \A i \in 1 .. n : i \in 1 .. n + 1
  OBVIOUS
<1>5. ASSUME NEW b \in ToSet(whole)
      PROVE  b \in ToSet(u) \/ \E i \in 1 .. n + 1 : b \in ToSet(A[i])
  <2>1. b \in ToSet(t) \/ \E i \in 1 .. n : b \in ToSet(E[i])
    BY <1>1 DEF Covered
  <2>2. CASE b \in ToSet(t)
    <3>1. b \in ToSet(u) \/ b \in ToSet(A[n + 1])
      BY <1>3, <2>2, Zenon
    <3> QED BY <1>4, <3>1, Zenon
  <2>3. CASE \E i \in 1 .. n : b \in ToSet(E[i])
    BY <1>3, <1>4, <2>3, Zenon
  <2> QED BY <2>1, <2>2, <2>3, Zenon
<1> QED BY <1>2, <1>3, <1>5, Zenon DEF Covered

\* The filler of the list keeps it in order.
LEMMA ListForKeeps ==
  ASSUME key \in Bytes, NEW E, Strings(E), NEW t \in Seq(Bytes), NEW whole, TextOf(E, t, key, whole)
  PROVE  /\ Strings(ListFor(E)) /\ TextOf(ListFor(E), t, key, whole)
         /\ Len(ListFor(E)) \in Nat /\ Len(ListFor(E)) # key
<1>1. Len(E) \in Nat
  BY DEF Strings
<1>2. CASE Len(E) # key
  <2>1. ListFor(E) = E
    BY <1>2 DEF ListFor
  <2> QED BY <1>1, <1>2, <2>1
<1>3. CASE Len(E) = key
  <2>1. PICK w : w = <<key, key>>
    OBVIOUS
  <2>2. w \in Seq(Bytes) /\ Len(w) \in 1 .. Marker
    <3>1. w \in Seq(Bytes) /\ Len(w) = 2
      BY <2>1
    <3> QED BY <3>1, ByteFacts DEF Marker
  <2>3. PICK A : A = Append(E, w)
    OBVIOUS
  <2>4. ListFor(E) = A
    BY <1>3, <2>1, <2>3 DEF ListFor
  <2>5. Strings(A) /\ Len(A) = Len(E) + 1
    BY <2>2, <2>3, StringsMore
  <2>6. Covered(A, t, whole)
    <3>1. Covered(E, t, whole) /\ ToSet(t) \subseteq ToSet(t) \cup ToSet(w)
      BY DEF TextOf
    <3> QED BY <2>2, <2>3, <3>1, CoveredMore, Zenon
  <2>7. ASSUME Plain(key, whole)
        PROVE  TokensOK(t, key, Len(A)) /\ \E D : Chain(D, A, key, whole, t)
    <3>1. TokensOK(t, key, Len(E)) /\ (\E D : Chain(D, E, key, whole, t)) /\ key # Marker
      BY <2>7 DEF TextOf, Plain
    <3>2. Len(A) \in Nat /\ Len(E) <= Len(A)
      BY <1>1, <2>5
    <3>3. TokensOK(t, key, Len(A))
      BY <1>1, <3>1, <3>2, TokensLater
    <3>4. PutBack(t, key, Len(E), w) = t
      <4>1. PutBack(t, key, key, w) = t
        BY <2>1, <2>2, <3>1, NothingBack, Zenon
      <4> QED BY <1>3, <4>1
    <3>5. \E D : Chain(D, A, key, whole, t)
      BY <2>2, <2>3, <3>1, <3>4, ChainMore
    <3> QED BY <3>3, <3>5
  <2>8. TextOf(A, t, key, whole)
    BY <2>6, <2>7 DEF TextOf
  <2>9. Len(A) \in Nat /\ Len(A) # key
    BY <1>1, <1>3, <2>5
  <2> QED BY <2>4, <2>5, <2>8, <2>9
<1> QED BY <1>2, <1>3

\* A list with a text, and what is left of the text when a string is added to the list.
Lists(E, t, k, whole) == Strings(E) /\ t \in Seq(Bytes) /\ TextOf(E, t, k, whole)
TextLeft(A, t, f, c) == IF Len(A) = CharValues THEN t ELSE Shortened(t, f, c)

\* A string that is taken out leaves a text from which it is put back.
LEMMA TakenOutKeeps ==
  ASSUME key \in Bytes, NEW L, NEW t, NEW whole, Lists(L, t, key, whole),
         NEW c \in Nat, c = Len(L), c # key, c < CharValues, NEW f, Fits(t, f), f[1] \in 1 .. Marker
  PROVE  Lists(Append(L, Window(t, f[2], f[1])), TextLeft(Append(L, Window(t, f[2], f[1])), t, f, c), key, whole)
<1>0. Strings(L) /\ t \in Seq(Bytes) /\ TextOf(L, t, key, whole)
  BY Zenon DEF Lists
<1>a. PICK A : A = Append(L, Window(t, f[2], f[1]))
  OBVIOUS
<1>b. PICK u : u = TextLeft(A, t, f, c)
  OBVIOUS
<1>c. u = (IF Len(A) = CharValues THEN t ELSE Shortened(t, f, c))
  BY <1>b DEF TextLeft
<1>1. PICK w \in Seq(Bytes) : w = Window(t, f[2], f[1]) /\ Len(w) \in 1 .. Marker
  BY <1>0, WindowTyped
<1>2. Strings(A) /\ Len(A) = c + 1 /\ A = Append(L, w)
  BY <1>0, <1>1, <1>a, StringsMore
<1>3. c \in Bytes /\ (Len(A) = CharValues <=> c = Marker)
  BY <1>2, ByteFacts DEF Bytes, Marker
<1>4. Covered(L, t, whole)
  BY <1>0 DEF TextOf
<1>5. c + 1 \in Nat /\ c <= c + 1 /\ c <= c
  OBVIOUS
<1>6. ASSUME c = Marker PROVE Lists(A, u, key, whole)
  <2>1. u = t
    BY <1>3, <1>6, <1>c
  <2>2. Covered(A, t, whole)
    <3>1. ToSet(t) \subseteq ToSet(t) \cup ToSet(w)
      OBVIOUS
    <3> QED BY <1>0, <1>1, <1>2, <1>4, <3>1, CoveredMore, Zenon
  <2>3. ASSUME Plain(key, whole)
        PROVE  TokensOK(t, key, Len(A)) /\ \E D : Chain(D, A, key, whole, t)
    <3>1. TokensOK(t, key, c) /\ (\E D : Chain(D, L, key, whole, t)) /\ key # Marker
      BY <1>0, <2>3 DEF TextOf, Plain
    <3>2. TokensOK(t, key, Len(A))
      BY <1>0, <1>2, <1>5, <3>1, TokensLater
    <3>3. PutBack(t, key, c, w) = t
      BY <1>0, <1>6, <3>1, NothingBack
    <3>4. \E D : Chain(D, A, key, whole, t)
      BY <1>0, <1>2, <3>1, <3>3, ChainMore
    <3> QED BY <3>2, <3>4
  <2>4. TextOf(A, u, key, whole)
    BY <2>1, <2>2, <2>3 DEF TextOf
  <2>5. Strings(A) /\ u \in Seq(Bytes)
    BY <1>0, <1>2, <2>1
  <2> QED BY <2>4, <2>5 DEF Lists
<1>7. ASSUME c # Marker PROVE Lists(A, u, key, whole)
  <2>1. u = Shortened(t, f, c)
    BY <1>3, <1>7, <1>c
  <2>2. u \in Seq(Bytes) /\ ToSet(t) \subseteq ToSet(u) \cup ToSet(w)
    BY <1>0, <1>1, <1>3, <2>1, ShortenedCovers
  <2>3. Covered(A, u, whole)
    BY <1>0, <1>1, <1>2, <1>4, <2>2, CoveredMore, Zenon
  <2>4. ASSUME Plain(key, whole)
        PROVE  TokensOK(u, key, Len(A)) /\ \E D : Chain(D, A, key, whole, u)
    <3>1. TokensOK(t, key, c) /\ (\E D : Chain(D, L, key, whole, t)) /\ key # Marker
      BY <1>0, <2>4 DEF TextOf, Plain
    <3>2. TokensOK(u, key, Len(A))
      BY <1>0, <1>2, <1>3, <1>5, <1>7, <2>1, <3>1, ShortenedTokens
    <3>3. PutBack(u, key, c, w) = t
      BY <1>0, <1>1, <1>3, <1>5, <1>7, <2>1, <3>1, ShortenedUndone
    <3>4. \E D : Chain(D, A, key, whole, u)
      BY <1>0, <1>2, <3>1, <3>3, ChainMore
    <3> QED BY <3>2, <3>4
  <2>5. TextOf(A, u, key, whole)
    BY <2>3, <2>4 DEF TextOf
  <2> QED BY <1>2, <2>2, <2>5 DEF Lists
<1>8. Lists(A, u, key, whole)
  BY <1>6, <1>7
<1> QED BY <1>8, <1>a, <1>b, Zenon

\* What the search finds lies in the text.
LEMMA FoundFits ==
  ASSUME text \in Seq(Bytes), at[1] \in 0 .. Marker, NEW f \in Found
  PROVE  Fits(text, f) /\ f[1] \in 1 .. Marker /\ f[1] <= at[1] /\ f[2] \in Nat
<1>1. f \in (3 .. at[1]) \X (1 .. Len(text)) /\ Repeats(f[1], f[2])
  BY Zenon DEF Found
<1>2. PICK n \in 3 .. at[1], p \in 1 .. Len(text) : n = f[1] /\ p = f[2]
  BY <1>1
<1>3. PICK q : q \in p + n .. Len(text) - n + 1
  BY <1>1, <1>2, Zenon DEF Repeats
<1>4. Len(text) \in Nat /\ Marker \in Nat
  BY ByteFacts
<1>5. n \in Nat /\ p \in Nat /\ n \in 1 .. Marker /\ n <= at[1] /\ n # 0
  BY <1>2, <1>4
<1>6. p + n <= Len(text) + 1
  BY ONLY <1>3, <1>4, n \in Nat, p \in Nat, <1>5
<1> QED BY <1>2, <1>5, <1>6 DEF Fits

\* Of what the search finds there is a longest, and a first of those.
LEMMA FoundBest ==
  ASSUME text \in Seq(Bytes), at[1] \in 0 .. Marker, Found # {}
  PROVE  \E f \in Found : \A g \in Found : f[1] > g[1] \/ (f[1] = g[1] /\ f[2] <= g[2])
<1> DEFINE T == {f[1] : f \in Found}
<1>1. Marker \in Nat /\ T \in SUBSET (0 .. Marker) /\ T # {}
  BY FoundFits, ByteFacts
<1>2. PICK m \in T : \A l \in T : m >= l
  BY <1>1, LargestExists
<1> DEFINE A == {g[2] : g \in {f \in Found : f[1] = m}}
<1>3. A \in SUBSET Nat /\ A # {}
  BY <1>2, FoundFits
<1>4. [a \in A |-> 0] \in [A -> Nat]
  OBVIOUS
<1>5. PICK b \in A : \A d \in A : b <= d
  <2>1. PICK n : n = [a \in A |-> 0]
    OBVIOUS
  <2>2. n \in [A -> Nat] /\ \A d \in A : n[d] = 0
    BY <2>1
  <2>3. PICK b \in A : \A d \in A : n[b] < n[d] \/ (n[b] = n[d] /\ b <= d)
    BY <1>3, <2>2, BestExists
  <2>4. \A d \in A : b <= d
    BY <2>2, <2>3
  <2> QED BY <2>4
<1>6. PICK f \in Found : f[1] = m /\ f[2] = b
  BY <1>5
<1>7. ASSUME NEW g \in Found PROVE f[1] > g[1] \/ (f[1] = g[1] /\ f[2] <= g[2])
  <2>1. g[1] \in Nat /\ m \in Nat /\ m >= g[1]
    BY <1>1, <1>2, FoundFits
  <2>2. CASE g[1] = m
    <3>1. g[2] \in A
      BY <2>2
    <3> QED BY <1>5, <1>6, <2>2, <3>1
  <2>3. CASE g[1] # m
    BY <1>6, <2>1, <2>3
  <2> QED BY <2>2, <2>3
<1> QED BY <1>7

-----------------------------------------------------------------------------
(* The invariant                                                           *)

\* The data before phase 2.
Whole == <<0>> \o Phase1(file)

\* The type invariant.
CompressorTyped ==
  /\ file \in Files
  /\ stage \in {"phase1", "phase2", "phase3", "failed", "done", "undefined"}
  /\ key \in Bytes /\ text \in Seq(Bytes)
  /\ Strings(entries) /\ at[1] \in 0 .. Marker
  /\ special \in Bytes /\ packed \in Seq(Bytes)
  /\ stage = "phase1" => entries = <<>>

\* From phase 2 on nothing got lost, and the strings can be put back.
TextKept ==
  stage \in {"phase2", "phase3", "failed", "done"} =>
    key = FindBestChar(Whole, Bytes) /\ TextOf(entries, text, key, Whole)

\* Every round of phase 3 made the data shorter, so that there were no more of them.
PairedUp(u, s, whole) ==
  \E C : \E r \in Nat : RoundsOf(C, r, s, whole, u) /\ r + Len(u) <= Len(whole) + 1

\* Phase 3 has a spare byte, which makes the escape byte of phase 2 plain, and its
\* rounds can be undone.
PackedKept ==
  /\ stage \in {"phase3", "done"} => Plain(key, Whole)
  /\ stage = "phase3" => PairedUp(packed, special, Phase2)
  /\ stage = "done" => \E u \in Seq(Bytes) : PairedUp(u, special, Phase2) /\ packed = <<special>> \o u

\* The inductive invariant.
CompressorInv == CompressorTyped /\ TextKept /\ PackedKept

\* The data before phase 2 begin with the null and go on with what phase 1 gave.
LEMMA WholeIs ==
  ASSUME file \in Files
  PROVE  /\ Phase1(file) \in Seq(Bytes) /\ Whole \in Seq(Bytes) /\ Whole # <<>> /\ Head(Whole) = 0
         /\ Tail(Whole) = Phase1(file) /\ 0 \in ToSet(Whole) /\ Layer1(Phase1(file)) = file
<1>1. file \in Seq(Bytes)
  BY CompressorAssumption
<1>2. PICK p \in Seq(Bytes) : p = Phase1(file)
  BY <1>1, Phase1Is
<1>3. 0 \in Bytes
  BY ByteFacts
<1>4. PICK w \in Seq(Bytes) : w = <<0>> \o p /\ Len(w) = Len(p) + 1 /\ w[1] = 0
  <2>0. <<0>> \in Seq(Bytes) /\ Len(<<0>>) = 1 /\ <<0>>[1] = 0
    BY <1>3
  <2>1. PICK z \in Seq(Bytes) : z = <<0>> /\ Len(z) = 1 /\ z[1] = 0
    BY <2>0, Zenon
  <2>2. z \o p \in Seq(Bytes) /\ Len(z \o p) = Len(z) + Len(p) /\ (z \o p)[1] = z[1]
    BY <2>1
  <2>3. Len(z \o p) = Len(p) + 1
    BY <2>1, <2>2
  <2> QED BY <2>1, <2>2, <2>3, Zenon
<1>5. w # <<>> /\ Head(w) = 0 /\ Len(w) > 0
  BY <1>4
<1>6. Tail(w) = p
  BY <1>4
<1>7. 0 \in ToSet(w)
  <2>1. 1 \in DOMAIN w
    BY <1>5
  <2> QED BY <1>4, <2>1 DEF ToSet
<1>8. Whole = w
  BY <1>2, <1>4 DEF Whole
<1> QED BY <1>1, <1>2, <1>5, <1>6, <1>7, <1>8, Layer1Undoes

\* What phase 2 gives has the escape byte, the strings and the text in it.
LEMMA Phase2Is ==
  ASSUME CompressorTyped
  PROVE  /\ Phase2 = (<<key>> \o Walk(entries, 1, LenOut(entries), LenTook(entries))) \o text
         /\ Phase2 \in Seq(Bytes) /\ key \in ToSet(Phase2) /\ ToSet(text) \subseteq ToSet(Phase2)
         /\ \A i \in 1 .. Len(entries) : ToSet(entries[i]) \subseteq ToSet(Phase2)
<1>1. PICK l \in Seq(Bytes) : l = Walk(entries, 1, LenOut(entries), LenTook(entries))
  BY ListHas DEF CompressorTyped
<1>2. \A i \in 1 .. Len(entries) : ToSet(entries[i]) \subseteq ToSet(l)
  BY <1>1, ListHas DEF CompressorTyped
<1>3. ListOut = l
  BY <1>1 DEF ListOut, LenOut, LenTook
<1>4. <<key>> \in Seq(Bytes) /\ text \in Seq(Bytes)
  BY DEF CompressorTyped
<1>5. PICK k \in Seq(Bytes) : k = <<key>>
  BY <1>4
<1>6. PICK t \in Seq(Bytes) : t = text
  BY <1>4
<1>7. PICK a \in Seq(Bytes) : a = k \o l
  <2>1. k \o l \in Seq(Bytes)
    OBVIOUS
  <2> QED BY <2>1, Zenon
<1>9. Phase2 = a \o t /\ a \o t \in Seq(Bytes)
  <2>1. (k \o l) \o t = k \o (l \o t) /\ a \o t \in Seq(Bytes)
    OBVIOUS
  <2>2. Phase2 = (k \o l) \o t \/ Phase2 = k \o (l \o t)
    BY <1>3, <1>5, <1>6 DEF Phase2
  <2> QED BY <1>7, <2>1, <2>2
<1>10. ToSet(a \o t) = ToSet(a) \cup ToSet(t) /\ ToSet(k \o l) = ToSet(k) \cup ToSet(l)
  BY JoinedSet, Zenon
<1>11. key \in ToSet(k)
  <2>1. 1 \in DOMAIN k /\ k[1] = key
    BY <1>5
  <2> QED BY <2>1 DEF ToSet
<1>12. ToSet(Phase2) = (ToSet(k) \cup ToSet(l)) \cup ToSet(t)
  BY <1>7, <1>9, <1>10, Zenon
<1>13. key \in ToSet(Phase2) /\ ToSet(text) \subseteq ToSet(Phase2) /\ ToSet(l) \subseteq ToSet(Phase2)
  BY <1>6, <1>11, <1>12
<1> QED BY <1>1, <1>2, <1>5, <1>6, <1>7, <1>9, <1>13

\* Initially the invariant holds.
LEMMA CompressorStarts == CompressorInit => CompressorInv
<1> SUFFICES ASSUME CompressorInit PROVE CompressorInv
  OBVIOUS
<1>1. file \in Files /\ stage = "phase1" /\ key = 0 /\ text = <<>> /\ entries = <<>> /\ at = <<Marker, 1>>
      /\ special = 0 /\ packed = <<>>
  BY DEF CompressorInit, CompressorReset
<1>2. 0 \in Bytes /\ Marker \in 0 .. Marker /\ <<>> \in Seq(Bytes)
  BY ByteFacts
<1>3. Strings(<<>>)
  BY DEF Strings
<1> QED BY <1>1, <1>2, <1>3 DEF CompressorInv, CompressorTyped, TextKept, PackedKept

\* Step of phase 2's beginning.
LEMMA Phase2Starts == CompressorInv /\ StartPhase2 => CompressorInv'
<1> SUFFICES ASSUME CompressorInv, StartPhase2 PROVE CompressorInv'
  OBVIOUS
<1>1. PICK w \in Seq(Bytes) : w = Whole
  BY WholeIs DEF CompressorInv, CompressorTyped
<1>2. /\ stage = "phase1" /\ stage' = "phase2" /\ key' = FindBestChar(w, Bytes) /\ text' = Escaped(w, key')
      /\ at' = <<Marker, 1>> /\ file' = file /\ entries' = entries /\ special' = special /\ packed' = packed
  BY <1>1 DEF StartPhase2, Whole
<1>3. entries = <<>>
  BY <1>2 DEF CompressorInv, CompressorTyped
<1>4. key' \in Bytes
  <2>1. Bytes \in SUBSET Bytes /\ Bytes # {}
    BY ByteFacts
  <2> QED BY <1>2, <2>1, BestCharIs
<1>5. /\ text' \in Seq(Bytes) /\ ToSet(w) \subseteq ToSet(text') /\ (key' \notin ToSet(w) => text' = w)
  BY <1>2, EscapedKeeps, Zenon
<1>6. Whole' = w
  BY <1>1, <1>2 DEF Whole
<1>7. CompressorTyped'
  <2>1. Marker \in 0 .. Marker
    BY ByteFacts
  <2> QED BY <1>2, <1>4, <1>5, <2>1 DEF CompressorInv, CompressorTyped
<1>8. ASSUME Plain(key', w)
      PROVE  TokensOK(text', key', 0) /\ \E D : Chain(D, <<>>, key', w, text')
  <2>1. key' \notin ToSet(w) /\ text' = w
    BY <1>5, <1>8 DEF Plain
  <2>2. TokensOK(w, key', 0)
    <3>1. ASSUME NEW i \in DOMAIN w PROVE w[i] # key'
      BY <2>1 DEF ToSet
    <3> QED BY <3>1 DEF TokensOK
  <2>3. Chain([i \in 0 .. 0 |-> w], <<>>, key', w, w)
    BY DEF Chain
  <2> QED BY <2>1, <2>2, <2>3
<1>9. TextOf(<<>>, text', key', w)
  <2>1. Covered(<<>>, text', w)
    BY <1>5 DEF Covered
  <2>2. Len(<<>>) = 0
    OBVIOUS
  <2> QED BY <1>8, <2>1, <2>2 DEF TextOf
<1>10. TextKept'
  BY <1>2, <1>3, <1>6, <1>9 DEF TextKept
<1>11. PackedKept'
  BY <1>2 DEF PackedKept
<1> QED BY <1>7, <1>10, <1>11 DEF CompressorInv

\* A string is taken out.
LEMMA StringReplaced == CompressorInv /\ ReplaceString => CompressorInv'
<1> SUFFICES ASSUME CompressorInv, ReplaceString PROVE CompressorInv'
  OBVIOUS
<1>1. /\ stage = "phase2" /\ Found # {} /\ Len(ListFor(entries)) < CharValues
      /\ at' = CHOOSE f \in Found : \A g \in Found : f[1] > g[1] \/ (f[1] = g[1] /\ f[2] <= g[2])
      /\ entries' = Append(ListFor(entries), Window(text, at'[2], at'[1]))
      /\ text' = IF Len(entries') = CharValues THEN text ELSE Shortened(text, at', Len(ListFor(entries)))
      /\ file' = file /\ stage' = stage /\ key' = key /\ special' = special /\ packed' = packed
  BY DEF ReplaceString
<1>2. text \in Seq(Bytes) /\ at[1] \in 0 .. Marker /\ key \in Bytes /\ Strings(entries)
  BY DEF CompressorInv, CompressorTyped
<1>3. at' \in Found
  BY <1>1, <1>2, FoundBest, Zenon
<1>4. Fits(text, at') /\ at'[1] \in 1 .. Marker
  BY <1>2, <1>3, FoundFits, Zenon
<1>5. key = FindBestChar(Whole, Bytes) /\ TextOf(entries, text, key, Whole)
  BY <1>1 DEF CompressorInv, TextKept
<1>6. PICK L : L = ListFor(entries)
  OBVIOUS
<1>7. Strings(L) /\ TextOf(L, text, key, Whole) /\ Len(L) \in Nat /\ Len(L) # key
  BY <1>2, <1>5, <1>6, ListForKeeps, Zenon
<1>8. PICK c \in Nat : c = Len(L) /\ c # key /\ c < CharValues
  BY <1>1, <1>6, <1>7
<1>9. PICK A : A = entries'
  OBVIOUS
<1>10. PICK u : u = text'
  OBVIOUS
<1>11. PICK f : f = at'
  OBVIOUS
<1>12. Strings(A) /\ u \in Seq(Bytes) /\ TextOf(A, u, key, Whole)
  <2>1. Fits(text, f) /\ f[1] \in 1 .. Marker
    BY <1>4, <1>11, Zenon
  <2>2. A = Append(L, Window(text, f[2], f[1]))
    BY <1>1, <1>6, <1>9, <1>11
  <2>3. u = TextLeft(A, text, f, c)
    BY <1>1, <1>6, <1>8, <1>9, <1>10, <1>11 DEF TextLeft
  <2>4. Lists(L, text, key, Whole)
    BY <1>2, <1>7 DEF Lists
  <2>5. Lists(Append(L, Window(text, f[2], f[1])), TextLeft(Append(L, Window(text, f[2], f[1])), text, f, c), key, Whole)
    BY <1>2, <1>8, <2>1, <2>4, TakenOutKeeps, Zenon
  <2>6. Lists(A, u, key, Whole)
    BY <2>2, <2>3, <2>5, Zenon
  <2> QED BY <2>6, Zenon DEF Lists
<1>13. Whole' = Whole
  BY <1>1 DEF Whole
<1>14. at'[1] \in 0 .. Marker
  BY <1>4
<1>15. CompressorTyped'
  BY <1>1, <1>9, <1>10, <1>12, <1>14 DEF CompressorInv, CompressorTyped
<1>16. TextKept'
  BY <1>1, <1>5, <1>9, <1>10, <1>12, <1>13 DEF TextKept
<1>17. PackedKept'
  BY <1>1 DEF PackedKept
<1> QED BY <1>15, <1>16, <1>17 DEF CompressorInv

\* What follows a list that overruns is not said.
LEMMA ListOverruns == CompressorInv /\ Overrun => CompressorInv'
  BY DEF CompressorInv, CompressorTyped, TextKept, PackedKept, Overrun

\* A spare byte is smaller than the marker or the escape byte is, which is why it is plain.
LEMMA Phase3Starts == CompressorInv /\ StartPhase3 => CompressorInv'
<1> SUFFICES ASSUME CompressorInv, StartPhase3 PROVE CompressorInv'
  OBVIOUS
<1>1. PICK s : s = FindBestChar(Phase2, Bytes)
  OBVIOUS
<1>2. PICK spare \in BOOLEAN : spare = (s \notin ToSet(Phase2))
  OBVIOUS
<1>3. /\ stage = "phase2" /\ special' = s
      /\ stage' = (IF spare THEN "phase3" ELSE "failed")
      /\ packed' = (IF spare THEN <<s>> \o Phase2 ELSE <<>>)
      /\ file' = file /\ key' = key /\ text' = text /\ entries' = entries /\ at' = at
  BY <1>1, <1>2 DEF StartPhase3
<1>4. CompressorTyped
  BY DEF CompressorInv
<1>5. PICK z \in Seq(Bytes) : z = Phase2
  BY <1>4, Phase2Is, Zenon
<1>6. Phase2' = z /\ Whole' = Whole
  BY <1>3, <1>5 DEF Phase2, ListOut, Whole
<1>7. s \in Bytes
  <2>1. Bytes \in SUBSET Bytes /\ Bytes # {}
    BY ByteFacts
  <2> QED BY <1>1, <1>5, <2>1, BestCharIs, Zenon
<1>8. PICK p \in Seq(Bytes) : p = <<s>> \o z /\ Len(p) = Len(z) + 1
  <2>1. <<s>> \in Seq(Bytes) /\ Len(<<s>>) = 1
    BY <1>7
  <2>2. PICK a \in Seq(Bytes) : a = <<s>> /\ Len(a) = 1
    BY <2>1, Zenon
  <2>3. a \o z \in Seq(Bytes) /\ Len(a \o z) = 1 + Len(z)
    BY <2>2
  <2>4. Len(z) \in Nat
    OBVIOUS
  <2>5. Len(a \o z) = Len(z) + 1
    BY <2>3, <2>4
  <2> QED BY <2>2, <2>3, <2>5, Zenon
<1>9. packed' \in Seq(Bytes)
  <2>1. packed' = (IF spare THEN p ELSE <<>>)
    BY <1>3, <1>5, <1>8
  <2> QED BY <2>1
<1>10. CompressorTyped'
  BY <1>3, <1>4, <1>7, <1>9 DEF CompressorTyped
<1>11. key = FindBestChar(Whole, Bytes) /\ TextOf(entries, text, key, Whole)
  BY <1>3 DEF CompressorInv, TextKept
<1>12. TextKept'
  BY <1>3, <1>6, <1>11 DEF TextKept
<1>13. ASSUME spare PROVE Plain(key, Whole)
  <2>1. s \notin ToSet(Phase2)
    BY <1>2, <1>13
  <2>2. s # key /\ s \notin ToSet(text) /\ \A i \in 1 .. Len(entries) : s \notin ToSet(entries[i])
    BY <1>4, <2>1, Phase2Is
  <2>3. s \notin ToSet(Whole)
    BY <1>11, <2>2, Zenon DEF TextOf, Covered
  <2>4. PICK w \in Seq(Bytes) : w = Whole
    BY <1>4, WholeIs DEF CompressorTyped
  <2>5. Bytes \in SUBSET Bytes /\ Bytes # {}
    BY ByteFacts
  <2>6. key \notin ToSet(w) /\ key <= s
    BY <1>7, <1>11, <2>3, <2>4, <2>5, BestCharIs, Zenon
  <2>7. key \in Nat /\ s \in Nat /\ s <= Marker /\ Marker \in Nat
    BY <1>4, <1>7, ByteFacts DEF CompressorTyped, Bytes, Marker
  <2>8. key # Marker
    BY <2>2, <2>6, <2>7
  <2> QED BY <2>4, <2>6, <2>8 DEF Plain
<1>14. PairedUp(p, s, z)
  <2>1. PICK C : C = [i \in 0 .. 0 |-> p]
    OBVIOUS
  <2>2. C \in [0 .. 0 -> Seq(Bytes)] /\ C[0] = p
    BY <2>1
  <2>3. RoundsOf(C, 0, s, z, p)
    <3>1. \A j \in 1 .. 0 : FALSE
      OBVIOUS
    <3>2. C[0] = <<s>> \o z
      BY <1>8, <2>2, Zenon
    <3>3. 0 \in Nat
      OBVIOUS
    <3> QED BY <2>2, <3>1, <3>2, <3>3, Zenon DEF RoundsOf
  <2>4. 0 \in Nat /\ 0 + Len(p) <= Len(z) + 1
    BY <1>8
  <2> QED BY <2>3, <2>4, Zenon DEF PairedUp
<1>15. PackedKept'
  <2>1. CASE spare
    <3>1. stage' = "phase3" /\ packed' = p
      BY <1>3, <1>5, <1>8, <2>1
    <3>2. PairedUp(packed', special', Phase2') /\ Plain(key', Whole')
      BY <1>3, <1>6, <1>13, <1>14, <2>1, <3>1
    <3> QED BY <3>1, <3>2 DEF PackedKept
  <2>2. CASE ~ spare
    <3>1. stage' = "failed"
      BY <1>3, <2>2
    <3> QED BY <3>1 DEF PackedKept
  <2> QED BY <2>1, <2>2
<1> QED BY <1>10, <1>12, <1>15 DEF CompressorInv

\* A round of phase 3 goes on a chain of rounds and makes the data shorter.
LEMMA PairReplaced == CompressorInv /\ ReplacePair => CompressorInv'
<1> SUFFICES ASSUME CompressorInv, ReplacePair PROVE CompressorInv'
  OBVIOUS
<1>1. /\ stage = "phase3" /\ Shrinks /\ packed' = Shorter /\ file' = file /\ stage' = stage /\ key' = key
      /\ text' = text /\ entries' = entries /\ at' = at /\ special' = special
  BY DEF ReplacePair
<1>2. CompressorTyped
  BY DEF CompressorInv
<1>3. packed \in Seq(Bytes) /\ special \in Bytes
  BY <1>2 DEF CompressorTyped
<1>4. PICK v \in Seq(Bytes) : v = Shorter
  BY <1>1, <1>3, PairsUndone
<1>5. Len(v) >= 3 /\ v[1] # special /\ PairsBack(v, special) = packed /\ Len(v) < Len(packed)
  BY <1>1, <1>3, <1>4, PairsUndone DEF Shrinks
<1>6. Phase2' = Phase2 /\ Whole' = Whole
  BY <1>1 DEF Phase2, ListOut, Whole
<1>7. CompressorTyped'
  BY <1>1, <1>2, <1>4 DEF CompressorTyped
<1>8. TextKept'
  <2>1. key = FindBestChar(Whole, Bytes) /\ TextOf(entries, text, key, Whole)
    BY <1>1 DEF CompressorInv, TextKept
  <2> QED BY <1>1, <1>6, <2>1 DEF TextKept
<1>9. Plain(key, Whole) /\ PairedUp(packed, special, Phase2)
  BY <1>1 DEF CompressorInv, PackedKept
<1>a. PICK C : \E r \in Nat : RoundsOf(C, r, special, Phase2, packed) /\ r + Len(packed) <= Len(Phase2) + 1
  BY <1>9, Zenon DEF PairedUp
<1>10. PICK r \in Nat : RoundsOf(C, r, special, Phase2, packed) /\ r + Len(packed) <= Len(Phase2) + 1
  BY <1>a
<1>11. /\ C \in [0 .. r -> Seq(Bytes)] /\ C[0] = <<special>> \o Phase2 /\ C[r] = packed
       /\ \A j \in 1 .. r : Len(C[j]) > 0 /\ Head(C[j]) # special /\ PairsBack(C[j], special) = C[j - 1]
  BY <1>10, Zenon DEF RoundsOf
<1> DEFINE B == [i \in 0 .. r + 1 |-> IF i <= r THEN C[i] ELSE v]
<1>12. B \in [0 .. r + 1 -> Seq(Bytes)] /\ B[0] = C[0] /\ B[r + 1] = v
  <2>1. ASSUME NEW i \in 0 .. r + 1 PROVE (IF i <= r THEN C[i] ELSE v) \in Seq(Bytes)
    <3>1. i <= r => i \in 0 .. r
      OBVIOUS
    <3> QED BY <1>11, <3>1
  <2>2. 0 \in 0 .. r + 1 /\ 0 <= r /\ r + 1 \in 0 .. r + 1 /\ ~ (r + 1 <= r)
    OBVIOUS
  <2> QED BY <2>1, <2>2
<1>13. ASSUME NEW j \in 1 .. r + 1
       PROVE  Len(B[j]) > 0 /\ Head(B[j]) # special /\ PairsBack(B[j], special) = B[j - 1]
  <2>1. CASE j <= r
    <3>1. j \in 1 .. r /\ j \in 0 .. r + 1 /\ j - 1 \in 0 .. r + 1 /\ j - 1 <= r
      BY <2>1
    <3>2. B[j] = C[j] /\ B[j - 1] = C[j - 1]
      BY <2>1, <3>1
    <3> QED BY <1>11, <3>1, <3>2, Zenon
  <2>2. CASE j = r + 1
    <3>1. j \in 0 .. r + 1 /\ ~ (j <= r) /\ j - 1 \in 0 .. r + 1 /\ j - 1 = r /\ r <= r
      BY <2>2
    <3>2. B[j] = v /\ B[j - 1] = packed
      BY <1>11, <3>1
    <3>3. Len(v) > 0 /\ Head(v) = v[1]
      BY <1>5
    <3> QED BY <1>5, <3>2, <3>3
  <2> QED BY <2>1, <2>2
<1> HIDE DEF B
<1>14. RoundsOf(B, r + 1, special, Phase2, v)
  <2>1. r + 1 \in Nat
    OBVIOUS
  <2> QED BY <1>11, <1>12, <1>13, <2>1, Zenon DEF RoundsOf
<1>15. r + 1 \in Nat /\ (r + 1) + Len(v) <= Len(Phase2) + 1
  <2>1. Len(v) \in Nat /\ Len(packed) \in Nat /\ Len(Phase2) \in Nat
    BY <1>2, <1>3, Phase2Is
  <2> QED BY <1>5, <1>10, <2>1
<1>16. PairedUp(v, special, Phase2)
  BY <1>14, <1>15, Zenon DEF PairedUp
<1>17. PairedUp(packed', special', Phase2') /\ Plain(key', Whole')
  BY <1>1, <1>4, <1>6, <1>9, <1>16
<1>18. PackedKept'
  BY <1>1, <1>17 DEF PackedKept
<1> QED BY <1>7, <1>8, <1>18 DEF CompressorInv

\* The special byte is put in front.
LEMMA Phase3Ends == CompressorInv /\ EndPhase3 => CompressorInv'
<1> SUFFICES ASSUME CompressorInv, EndPhase3 PROVE CompressorInv'
  OBVIOUS
<1>1. /\ stage = "phase3" /\ stage' = "done" /\ packed' = <<special>> \o packed /\ file' = file /\ key' = key
      /\ text' = text /\ entries' = entries /\ at' = at /\ special' = special
  BY DEF EndPhase3
<1>2. CompressorTyped
  BY DEF CompressorInv
<1>3. Phase2' = Phase2 /\ Whole' = Whole
  BY <1>1 DEF Phase2, ListOut, Whole
<1>4. PICK u \in Seq(Bytes) : u = packed
  BY <1>2 DEF CompressorTyped
<1>5. packed' \in Seq(Bytes) /\ packed' = <<special>> \o u
  <2>1. special \in Bytes
    BY <1>2 DEF CompressorTyped
  <2>2. <<special>> \in Seq(Bytes)
    BY <2>1
  <2>3. PICK a \in Seq(Bytes) : a = <<special>>
    BY <2>2, Zenon
  <2>4. a \o u \in Seq(Bytes)
    OBVIOUS
  <2> QED BY <1>1, <1>4, <2>3, <2>4
<1>6. CompressorTyped'
  BY <1>1, <1>2, <1>5 DEF CompressorTyped
<1>7. TextKept'
  <2>1. key = FindBestChar(Whole, Bytes) /\ TextOf(entries, text, key, Whole)
    BY <1>1 DEF CompressorInv, TextKept
  <2> QED BY <1>1, <1>3, <2>1 DEF TextKept
<1>8. Plain(key, Whole) /\ PairedUp(u, special, Phase2)
  BY <1>1, <1>4 DEF CompressorInv, PackedKept
<1>9. PackedKept'
  <2>1. PairedUp(u, special', Phase2') /\ packed' = <<special'>> \o u /\ Plain(key', Whole')
    BY <1>1, <1>3, <1>5, <1>8
  <2> QED BY <1>1, <2>1 DEF PackedKept
<1> QED BY <1>6, <1>7, <1>9 DEF CompressorInv

\* What phase 2 gives unpacks, when its first byte is still the null.
LEMMA TextUnpacks ==
  ASSUME CompressorTyped, Plain(key, Whole), TextOf(entries, text, key, Whole), NullIsFirst
  PROVE  Layer1(Layer2(Phase2)) = file
<1>1. PICK D : Chain(D, entries, key, Whole, text)
  BY DEF TextOf
<1>2. text \in Seq(Bytes) /\ text # <<>> /\ Head(text) = 0 /\ key \in Bytes /\ Strings(entries) /\ file \in Files
  BY DEF CompressorTyped, NullIsFirst
<1>3. PICK y : y = Phase2
  OBVIOUS
<1>4. y = (<<key>> \o Walk(entries, 1, LenOut(entries), LenTook(entries))) \o text
  BY <1>3, Phase2Is, Zenon
<1>5. StringsBack(y) = Whole /\ y \in Seq(Bytes) /\ Len(y) >= 1 /\ Head(y) = key
  <2>1. GivesBack((<<key>> \o Walk(entries, 1, LenOut(entries), LenTook(entries))) \o text, key, Whole)
    BY <1>1, <1>2, StringsBackUndoes, Zenon
  <2>2. GivesBack(y, key, Whole)
    BY <1>4, <2>1, Zenon
  <2> QED BY <2>2, Zenon DEF GivesBack
<1>6. /\ Whole # <<>> /\ Head(Whole) = 0 /\ Tail(Whole) = Phase1(file) /\ 0 \in ToSet(Whole)
      /\ Layer1(Phase1(file)) = file
  BY <1>2, WholeIs, Zenon
<1>7. Head(y) # 0
  BY <1>5, <1>6 DEF Plain
<1>8. Layer2(y) = Tail(Whole)
  BY <1>5, <1>6, <1>7, Layer2Undoes, Zenon
<1> QED BY <1>3, <1>6, <1>8

\* What phase 3 gives unpacks to what phase 2 gave, when there was a pair to replace.
LEMMA PairsUnpack ==
  ASSUME CompressorTyped, NEW u \in Seq(Bytes), PairedUp(u, special, Phase2), u # <<>>, Head(u) # special
  PROVE  Layer3(<<special>> \o u, Len(Phase2)) = Phase2
<1>1. PICK z \in Seq(Bytes) : z = Phase2
  BY Phase2Is, Zenon
<1>a. PICK C : \E r \in Nat : RoundsOf(C, r, special, z, u) /\ r + Len(u) <= Len(z) + 1
  BY <1>1, Zenon DEF PairedUp
<1>2. PICK r \in Nat : RoundsOf(C, r, special, z, u) /\ r + Len(u) <= Len(z) + 1
  BY <1>a
<1>3. special \in Bytes
  BY DEF CompressorTyped
<1>4. r # 0
  <2>1. SUFFICES ASSUME r = 0 PROVE FALSE
    OBVIOUS
  <2>2. u = <<special>> \o z
    BY <1>2, <2>1, Zenon DEF RoundsOf
  <2>3. Head(<<special>> \o z) = special
    BY <1>3
  <2> QED BY <2>2, <2>3
<1>5. Len(u) \in Nat /\ Len(u) >= 1 /\ Len(z) \in Nat
  OBVIOUS
<1>6. r > 0 /\ r <= Len(z)
  BY <1>2, <1>4, <1>5
<1>7. Layer3(<<special>> \o u, Len(z)) = z
  BY <1>2, <1>3, <1>5, <1>6, Layer3Undoes
<1> QED BY <1>1, <1>7, Zenon

\* The invariant implies that what is packed unpacks.
LEMMA CompressorUnpacks == CompressorInv => UnpacksToInput
<1> SUFFICES ASSUME CompressorInv PROVE UnpacksToInput
  OBVIOUS
<1>1. CompressorTyped /\ TextKept /\ PackedKept
  BY DEF CompressorInv
<1>2. packed \in Seq(Bytes) /\ special \in Bytes
  BY <1>1 DEF CompressorTyped
<1>3. ASSUME stage = "phase2", NullIsFirst, Plain(key, Whole)
      PROVE  Layer1(Layer2(Phase2)) = file
  <2>1. TextOf(entries, text, key, Whole)
    BY <1>1, <1>3 DEF TextKept
  <2> QED BY <1>1, <1>3, <2>1, TextUnpacks, Zenon
<1>4. ASSUME stage = "phase3", NullIsFirst, Head(packed) # special
      PROVE  Layer1(Layer2(Layer3(<<special>> \o packed, Len(Phase2)))) = file
  <2>1. Plain(key, Whole) /\ TextOf(entries, text, key, Whole) /\ PairedUp(packed, special, Phase2)
    BY <1>1, <1>4 DEF TextKept, PackedKept
  <2>2. packed # <<>>
    <3>1. PICK C : \E r \in Nat : RoundsOf(C, r, special, Phase2, packed)
      BY <2>1, Zenon DEF PairedUp
    <3>2. PICK r \in Nat : RoundsOf(C, r, special, Phase2, packed)
      BY <3>1
    <3>3. PICK z \in Seq(Bytes) : z = Phase2
      BY <1>1, Phase2Is, Zenon
    <3>4. C[0] = <<special>> \o z /\ C[r] = packed /\ \A j \in 1 .. r : Len(C[j]) > 0
      BY <3>2, <3>3, Zenon DEF RoundsOf
    <3>5. <<special>> \o z # <<>>
      BY <1>2
    <3>6. r = 0 \/ r \in 1 .. r
      OBVIOUS
    <3> QED BY <3>4, <3>5, <3>6
  <2>3. Layer3(<<special>> \o packed, Len(Phase2)) = Phase2
    BY <1>1, <1>2, <1>4, <2>1, <2>2, PairsUnpack, Zenon
  <2>4. Layer1(Layer2(Phase2)) = file
    BY <1>1, <1>4, <2>1, TextUnpacks, Zenon
  <2> QED BY <2>3, <2>4
<1>5. ASSUME stage = "done", NullIsFirst, packed[2] # special
      PROVE  Layer1(Layer2(Layer3(packed, Len(Phase2)))) = file
  <2>1. /\ Plain(key, Whole) /\ TextOf(entries, text, key, Whole)
        /\ \E u \in Seq(Bytes) : PairedUp(u, special, Phase2) /\ packed = <<special>> \o u
    BY <1>1, <1>5 DEF TextKept, PackedKept
  <2>2. PICK u \in Seq(Bytes) : PairedUp(u, special, Phase2) /\ packed = <<special>> \o u
    BY <2>1
  <2>3. u # <<>>
    <3>1. PICK C : \E r \in Nat : RoundsOf(C, r, special, Phase2, u)
      BY <2>2, Zenon DEF PairedUp
    <3>2. PICK r \in Nat : RoundsOf(C, r, special, Phase2, u)
      BY <3>1
    <3>3. PICK z \in Seq(Bytes) : z = Phase2
      BY <1>1, Phase2Is, Zenon
    <3>4. C[0] = <<special>> \o z /\ C[r] = u /\ \A j \in 1 .. r : Len(C[j]) > 0
      BY <3>2, <3>3, Zenon DEF RoundsOf
    <3>5. <<special>> \o z # <<>>
      BY <1>2
    <3>6. r = 0 \/ r \in 1 .. r
      OBVIOUS
    <3> QED BY <3>4, <3>5, <3>6
  <2>4. Head(u) # special
    <3>1. Len(u) >= 1 /\ Head(u) = u[1]
      BY <2>3
    <3>2. (<<special>> \o u)[2] = u[1]
      BY <1>2, <3>1
    <3> QED BY <1>5, <2>2, <3>1, <3>2
  <2>5. Layer3(<<special>> \o u, Len(Phase2)) = Phase2
    BY <1>1, <2>2, <2>3, <2>4, PairsUnpack, Zenon
  <2>6. Layer1(Layer2(Phase2)) = file
    BY <1>1, <1>5, <2>1, TextUnpacks, Zenon
  <2> QED BY <2>2, <2>5, <2>6
<1>6. Plain(key, Whole) <=> key \notin {Marker} \cup ToSet(<<0>> \o Phase1(file))
  BY DEF Plain, Whole
<1> QED BY <1>3, <1>4, <1>5, <1>6 DEF UnpacksToInput

\* Every step keeps the invariant.
LEMMA CompressorSteps == CompressorInv /\ [CompressorNext]_compressorVars => CompressorInv'
<1> SUFFICES ASSUME CompressorInv, [CompressorNext]_compressorVars PROVE CompressorInv'
  OBVIOUS
<1>1. CASE UNCHANGED compressorVars
  BY <1>1 DEF CompressorInv, CompressorTyped, TextKept, PackedKept, Whole, Phase2, ListOut, compressorVars
<1>2. CASE CompressorNext
  BY <1>2, Phase2Starts, StringReplaced, ListOverruns, Phase3Starts, PairReplaced, Phase3Ends, Zenon
  DEF CompressorNext
<1> QED BY <1>1, <1>2

\* In every state the compressor can be in, for every file and every number of values a
\* byte has, no byte of the data got lost, and each string taken out and each pair
\* replaced can be put back (compress.c:77-390).
THEOREM CompressorKept == CompressorSpec => []CompressorInv
<1> QED BY CompressorStarts, CompressorSteps, PTL DEF CompressorSpec

\* What is packed so far unpacks to the file, for every file of three bytes at least and
\* every number of values of a byte: in phase 2 when the escape byte is plain, later
\* when a pair was replaced, and always when the leading null is still in its place
\* (compress.c:77-390, payload-decompress.c:52-206).
THEOREM DecompressorUnpacks == CompressorSpec => []UnpacksToInput
<1> QED BY CompressorStarts, CompressorSteps, CompressorUnpacks, PTL DEF CompressorSpec

===============================================================================
