-------------------------- MODULE ClientMirrorProofs --------------------------
(***************************************************************************)
(* Proofs about ClientMirror, for any players, programs, items, rooms and  *)
(* any number of messages on their way: as long as the client has named    *)
(* only what it still shows when the answer comes, it shows what the       *)
(* server holds once it has read its messages, it never takes a message    *)
(* for a loss of synchronisation, and it refuses only the death of a       *)
(* player it was never told of.                                            *)
(***************************************************************************)
EXTENDS ClientMirror, Loops, SequenceTheorems

(* Lists                                                                   *)

\* What holds of the empty sequence, and of every sequence with one more element
\* if it holds without, holds of every sequence.
LEMMA PrefixInduction ==
  ASSUME NEW A, NEW S, <<>> \in S,
         \A t \in Seq(A), x \in A : t \in S => Append(t, x) \in S
  PROVE  Seq(A) \subseteq S
<1> SUFFICES ASSUME NEW s \in Seq(A) PROVE s \in S
  OBVIOUS
<1>1. PICK n \in Nat : n = Len(s)
  OBVIOUS
<1> DEFINE T == {j \in 0 .. n : \A t \in Seq(A) : Len(t) = j => t \in S}
<1>2. 0 \in T
  <2>1. \A t \in Seq(A) : Len(t) = 0 => t = <<>>
    BY EmptySeq
  <2> QED BY <2>1
<1>3. \A j \in 1 .. n : j - 1 \in T => j \in T
  <2> SUFFICES ASSUME NEW j \in 1 .. n, \A t \in Seq(A) : Len(t) = j - 1 => t \in S,
                      NEW t \in Seq(A), Len(t) = j
               PROVE  t \in S
    OBVIOUS
  <2>1. t # <<>>
    OBVIOUS
  <2>2. PICK u \in Seq(A), e \in A : t = Append(u, e)
    BY <2>1, SequenceEmptyOrAppend
  <2>3. Len(u) = j - 1
    BY <2>2, AppendProperties
  <2> QED BY <2>2, <2>3
<1> HIDE DEF T
<1>4. 0 .. n \subseteq T
  BY <1>2, <1>3, LoopInduction
<1>5. n \in T
  BY <1>4
<1> QED BY <1>1, <1>5 DEF T

\* The loop of Only.
Kept(old, x, C) == IF x \in C THEN Append(old, x) ELSE old

Keeps(g, s, C, n) ==
  /\ g = [k \in 0 .. n |-> g[k]]
  /\ g[0] = <<>>
  /\ \A k \in 1 .. n : g[k] = Kept(g[k - 1], s[k], C)

LEMMA KeepsExists ==
  ASSUME NEW s, NEW C, NEW n \in Nat
  PROVE  \E g : Keeps(g, s, C, n)
<1> DEFINE S == {j \in 0 .. n : \E g : Keeps(g, s, C, j)}
<1>1. 0 \in S
  <2>1. Keeps([k \in 0 .. 0 |-> <<>>], s, C, 0)
    BY DEF Keeps
  <2> QED BY <2>1
<1>2. \A j \in 1 .. n : j - 1 \in S => j \in S
  <2> SUFFICES ASSUME NEW j \in 1 .. n, NEW g, Keeps(g, s, C, j - 1)
               PROVE \E h : Keeps(h, s, C, j)
    OBVIOUS
  <2> DEFINE h == [k \in 0 .. j |-> IF k = j THEN Kept(g[j - 1], s[j], C) ELSE g[k]]
  <2>1. h[0] = <<>>
    BY DEF Keeps
  <2>2. \A k \in 1 .. j : h[k] = Kept(h[k - 1], s[k], C)
    <3> SUFFICES ASSUME NEW k \in 1 .. j PROVE h[k] = Kept(h[k - 1], s[k], C)
      OBVIOUS
    <3>1. CASE k = j
      BY <3>1
    <3>2. CASE k # j
      BY <3>2 DEF Keeps
    <3> QED BY <3>1, <3>2
  <2>3. h = [k \in 0 .. j |-> h[k]]
    OBVIOUS
  <2> HIDE DEF h
  <2> QED BY <2>1, <2>2, <2>3 DEF Keeps
<1> HIDE DEF S
<1>3. 0 .. n \subseteq S
  BY <1>1, <1>2, LoopInduction
<1>4. n \in S
  BY <1>3
<1> QED BY <1>4 DEF S

LEMMA OnlyIs ==
  ASSUME NEW A, NEW s \in Seq(A), NEW C
  PROVE  \E g : Keeps(g, s, C, Len(s)) /\ Only(s, C) = g[Len(s)]
<1>0. PICK n \in Nat : n = Len(s)
  OBVIOUS
<1>1. PICK h : Keeps(h, s, C, n)
  BY KeepsExists
<1> DEFINE Pass(f, k) == IF k = 0 THEN <<>> ELSE Kept(f[k - 1], s[k], C)
           Step(f) == [k \in 0 .. n |-> Pass(f, k)]
<1>2. h = Step(h)
  <2>1. \A k \in 0 .. n : h[k] = Pass(h, k)
    <3>1. \A k \in 1 .. n : h[k] = Kept(h[k - 1], s[k], C)
      BY <1>1 DEF Keeps
    <3>2. h[0] = <<>>
      BY <1>1 DEF Keeps
    <3> QED BY <3>1, <3>2
  <2>2. h = [k \in 0 .. n |-> h[k]]
    BY <1>1 DEF Keeps
  <2> HIDE DEF Pass
  <2>3. [k \in 0 .. n |-> h[k]] = Step(h)
    BY <2>1
  <2> QED BY <2>2, <2>3
<1> DEFINE g == CHOOSE f : f = Step(f)
<1>3. g = Step(g)
  <2> HIDE DEF Step
  <2> QED BY <1>2
<1>4. Only(s, C) = g[n]
  BY <1>0 DEF Only, Kept
<1> HIDE DEF g
<1>5. \A k \in 0 .. n : g[k] = Pass(g, k)
  <2> HIDE DEF Pass
  <2> QED BY <1>3
<1>6. g[0] = <<>> /\ \A k \in 1 .. n : g[k] = Kept(g[k - 1], s[k], C)
  BY <1>5
<1>7. g = [k \in 0 .. n |-> g[k]]
  <2> HIDE DEF Pass
  <2> QED BY <1>3
<1> HIDE DEF Step
<1> QED BY <1>0, <1>4, <1>6, <1>7 DEF Keeps

LEMMA OnlyEmpty ==
  ASSUME NEW C PROVE Only(<<>>, C) = <<>>
<1>1. <<>> \in Seq({}) /\ Len(<<>>) = 0
  OBVIOUS
<1>2. PICK g : Keeps(g, <<>>, C, 0) /\ Only(<<>>, C) = g[0]
  BY <1>1, OnlyIs
<1> QED BY <1>2 DEF Keeps

LEMMA OnlyAppend ==
  ASSUME NEW A, NEW s \in Seq(A), NEW x \in A, NEW C
  PROVE  Only(Append(s, x), C) = IF x \in C THEN Append(Only(s, C), x) ELSE Only(s, C)
<1> DEFINE n == Len(s)
           t == Append(s, x)
<1>1. t \in Seq(A) /\ Len(t) = n + 1 /\ n \in Nat /\ t[n + 1] = x
      /\ \A k \in 1 .. n : t[k] = s[k]
  OBVIOUS
<1> HIDE DEF t, n
<1>2. PICK g : Keeps(g, s, C, n) /\ Only(s, C) = g[n]
  BY OnlyIs DEF n
<1>3. PICK h : Keeps(h, t, C, n + 1) /\ Only(t, C) = h[n + 1]
  BY <1>1, OnlyIs
<1> DEFINE S == {j \in 0 .. n : h[j] = g[j]}
<1>4. 0 \in S
  BY <1>1, <1>2, <1>3 DEF Keeps
<1>5. \A j \in 1 .. n : j - 1 \in S => j \in S
  <2> SUFFICES ASSUME NEW j \in 1 .. n, h[j - 1] = g[j - 1] PROVE h[j] = g[j]
    OBVIOUS
  <2>1. g[j] = Kept(g[j - 1], s[j], C)
    BY <1>1, <1>2 DEF Keeps
  <2>2. h[j] = Kept(h[j - 1], t[j], C)
    <3>1. j \in 1 .. n + 1
      BY <1>1
    <3> QED BY <1>3, <3>1 DEF Keeps
  <2> QED BY <1>1, <2>1, <2>2
<1> HIDE DEF S
<1>6. 0 .. n \subseteq S
  BY <1>1, <1>4, <1>5, LoopInduction
<1>7. h[n] = g[n]
  BY <1>1, <1>6 DEF S
<1>8. h[n + 1] = Kept(h[n], t[n + 1], C)
  <2>1. n + 1 \in 1 .. n + 1 /\ (n + 1) - 1 = n
    BY <1>1
  <2> QED BY <1>3, <2>1 DEF Keeps
<1> QED BY <1>1, <1>2, <1>3, <1>7, <1>8 DEF t, Kept

\* No element twice.
Distinct(s) == \A i, j \in DOMAIN s : s[i] = s[j] => i = j

LEMMA OfAppend ==
  ASSUME NEW A, NEW s \in Seq(A), NEW x \in A
  PROVE  /\ Append(s, x) \in Seq(A) /\ ToSet(Append(s, x)) = ToSet(s) \cup {x}
         /\ Distinct(Append(s, x)) <=> Distinct(s) /\ x \notin ToSet(s)
<1> DEFINE n == Len(s)
           t == Append(s, x)
<1>1. /\ t \in Seq(A) /\ DOMAIN t = 1 .. n + 1 /\ t[n + 1] = x /\ n \in Nat
      /\ DOMAIN s = 1 .. n /\ \A k \in 1 .. n : t[k] = s[k]
  OBVIOUS
<1> HIDE DEF n, t
<1>2. ToSet(t) = ToSet(s) \cup {x}
  <2>1. ASSUME NEW y \in ToSet(t) PROVE y \in ToSet(s) \cup {x}
    <3>1. PICK k \in 1 .. n + 1 : y = t[k]
      BY <1>1, <2>1 DEF ToSet
    <3>2. k = n + 1 \/ k \in 1 .. n
      BY <1>1
    <3> QED BY <1>1, <3>1, <3>2 DEF ToSet
  <2>2. ToSet(s) \subseteq ToSet(t)
    <3> SUFFICES ASSUME NEW k \in 1 .. n PROVE s[k] \in ToSet(t)
      BY <1>1 DEF ToSet
    <3>1. k \in DOMAIN t /\ t[k] = s[k]
      BY <1>1
    <3> QED BY <3>1 DEF ToSet
  <2>3. x \in ToSet(t)
    <3>1. n + 1 \in DOMAIN t
      BY <1>1
    <3> QED BY <1>1, <3>1 DEF ToSet
  <2> QED BY <2>1, <2>2, <2>3
<1>3. ASSUME Distinct(t) PROVE Distinct(s) /\ x \notin ToSet(s)
  <2>1. \A i, j \in 1 .. n + 1 : t[i] = t[j] => i = j
    BY <1>1, <1>3 DEF Distinct
  <2>2. \A i \in 1 .. n : i \in 1 .. n + 1 /\ i # n + 1 /\ n + 1 \in 1 .. n + 1
    BY <1>1
  <2> QED BY <1>1, <2>1, <2>2 DEF Distinct, ToSet
<1>4. ASSUME Distinct(s), x \notin ToSet(s) PROVE Distinct(t)
  <2> SUFFICES ASSUME NEW i \in 1 .. n + 1, NEW j \in 1 .. n + 1, t[i] = t[j] PROVE i = j
    BY <1>1 DEF Distinct
  <2>1. \A k \in 1 .. n : s[k] # x
    BY <1>1, <1>4 DEF ToSet
  <2>2. (i = n + 1 \/ i \in 1 .. n) /\ (j = n + 1 \/ j \in 1 .. n)
    BY <1>1
  <2> QED BY <1>1, <1>4, <2>1, <2>2 DEF Distinct
<1> QED BY <1>1, <1>2, <1>3, <1>4 DEF t

LEMMA OfPush ==
  ASSUME NEW A, NEW s \in Seq(A), NEW x \in A
  PROVE  /\ Push(s, x) \in Seq(A) /\ ToSet(Push(s, x)) = ToSet(s) \cup {x}
         /\ Len(Push(s, x)) = Len(s) + 1
         /\ Distinct(Push(s, x)) <=> Distinct(s) /\ x \notin ToSet(s)
<1> DEFINE n == Len(s)
           t == Push(s, x)
<1>1. t \in Seq(A) /\ Len(t) = n + 1 /\ n \in Nat /\ t[1] = x /\ \A k \in 1 .. n : t[k + 1] = s[k]
  BY DEF Push
<1>2. DOMAIN t = 1 .. n + 1 /\ DOMAIN s = 1 .. n
  BY <1>1
<1> HIDE DEF n, t
<1>3. \A k \in 1 .. n + 1 : k = 1 \/ (k - 1 \in 1 .. n /\ (k - 1) + 1 = k)
  BY <1>1
<1>4. \A k \in 1 .. n + 1 : k # 1 => t[k] = s[k - 1]
  BY <1>1, <1>3
<1>5. \A k \in 1 .. n : k + 1 \in 1 .. n + 1 /\ k + 1 # 1
  BY <1>1
<1>6. ToSet(t) = ToSet(s) \cup {x}
  <2>1. ASSUME NEW k \in 1 .. n + 1 PROVE t[k] \in ToSet(s) \cup {x}
    <3>1. CASE k = 1
      BY <1>1, <3>1
    <3>2. CASE k # 1
      BY <1>2, <1>3, <1>4, <3>2 DEF ToSet
    <3> QED BY <3>1, <3>2
  <2>2. \A k \in 1 .. n : s[k] \in ToSet(t)
    BY <1>1, <1>2, <1>5 DEF ToSet
  <2>3. x \in ToSet(t)
    <3>1. 1 \in DOMAIN t
      BY <1>1, <1>2
    <3> QED BY <1>1, <3>1 DEF ToSet
  <2>4. ToSet(t) \subseteq ToSet(s) \cup {x}
    BY <1>2, <2>1 DEF ToSet
  <2>5. ToSet(s) \subseteq ToSet(t)
    BY <1>2, <2>2 DEF ToSet
  <2> QED BY <2>3, <2>4, <2>5
<1>7. ASSUME Distinct(t) PROVE Distinct(s) /\ x \notin ToSet(s)
  <2>1. \A i, j \in 1 .. n + 1 : t[i] = t[j] => i = j
    BY <1>2, <1>7 DEF Distinct
  <2>2. 1 \in 1 .. n + 1
    BY <1>1
  <2>3. \A i \in 1 .. n : s[i] # x
    BY <1>1, <1>5, <2>1, <2>2
  <2>4. \A i, j \in 1 .. n : s[i] = s[j] => i = j
    <3> SUFFICES ASSUME NEW i \in 1 .. n, NEW j \in 1 .. n, s[i] = s[j] PROVE i = j
      OBVIOUS
    <3>1. t[i + 1] = t[j + 1]
      BY <1>1
    <3>2. i + 1 = j + 1
      BY <1>5, <2>1, <3>1
    <3> QED BY <3>2
  <2> QED BY <1>2, <2>3, <2>4 DEF Distinct, ToSet
<1>8. ASSUME Distinct(s), x \notin ToSet(s) PROVE Distinct(t)
  <2> SUFFICES ASSUME NEW i \in 1 .. n + 1, NEW j \in 1 .. n + 1, t[i] = t[j] PROVE i = j
    BY <1>2 DEF Distinct
  <2>1. \A k \in 1 .. n : s[k] # x
    BY <1>2, <1>8 DEF ToSet
  <2>2. CASE i = 1 \/ j = 1
    BY <1>1, <1>3, <1>4, <2>1, <2>2
  <2>3. CASE i # 1 /\ j # 1
    <3>1. s[i - 1] = s[j - 1] /\ i - 1 \in DOMAIN s /\ j - 1 \in DOMAIN s
      BY <1>2, <1>3, <1>4, <2>3
    <3>2. i - 1 = j - 1
      BY <1>8, <3>1 DEF Distinct
    <3> QED BY <3>2
  <2> QED BY <2>2, <2>3
<1> QED BY <1>1, <1>6, <1>7, <1>8 DEF t, n

LEMMA OfEmpty == ToSet(<<>>) = {} /\ Distinct(<<>>)
BY DEF ToSet, Distinct

LEMMA OnlyTyped ==
  ASSUME NEW A, NEW s \in Seq(A), NEW C
  PROVE  /\ Only(s, C) \in Seq(A) /\ ToSet(Only(s, C)) = ToSet(s) \cap C
         /\ Len(Only(s, C)) <= Len(s)
         /\ Distinct(s) => Distinct(Only(s, C))
<1> DEFINE OK(t) == /\ Only(t, C) \in Seq(A) /\ ToSet(Only(t, C)) = ToSet(t) \cap C
                    /\ Len(Only(t, C)) <= Len(t)
                    /\ Distinct(t) => Distinct(Only(t, C))
           S == {t \in Seq(A) : OK(t)}
<1>1. <<>> \in S
  <2>1. <<>> \in Seq(A) /\ Len(<<>>) <= Len(<<>>)
    OBVIOUS
  <2>2. Only(<<>>, C) = <<>>
    BY OnlyEmpty
  <2> DEFINE e == <<>>
  <2>3. ToSet(e) = ToSet(e) \cap C
    BY OfEmpty
  <2> HIDE DEF e
  <2>4. e \in Seq(A) /\ Len(e) <= Len(e) /\ Only(e, C) = e
    BY <2>1, <2>2 DEF e
  <2>5. e \in S
    BY <2>3, <2>4
  <2> QED BY <2>5 DEF e
<1>2. \A t \in Seq(A), x \in A : t \in S => Append(t, x) \in S
  <2> SUFFICES ASSUME NEW t \in Seq(A), NEW x \in A, OK(t) PROVE OK(Append(t, x))
    BY OfAppend
  <2> DEFINE o == Only(t, C)
             u == Append(t, x)
  <2>1. o \in Seq(A) /\ ToSet(o) = ToSet(t) \cap C /\ Len(o) <= Len(t) /\ (Distinct(t) => Distinct(o))
    OBVIOUS
  <2>2. Only(u, C) = IF x \in C THEN Append(o, x) ELSE o
    BY OnlyAppend
  <2>3. /\ ToSet(u) = ToSet(t) \cup {x} /\ (Distinct(u) <=> Distinct(t) /\ x \notin ToSet(t))
        /\ Len(u) = Len(t) + 1
    BY OfAppend
  <2> HIDE DEF o, u
  <2>4. /\ Append(o, x) \in Seq(A) /\ ToSet(Append(o, x)) = ToSet(o) \cup {x}
        /\ (Distinct(Append(o, x)) <=> Distinct(o) /\ x \notin ToSet(o))
        /\ Len(Append(o, x)) = Len(o) + 1
    BY <2>1, OfAppend
  <2>5. Len(o) \in Nat /\ Len(t) \in Nat
    BY <2>1
  <2>6. OK(u)
    <3>1. CASE x \in C
      <4>1. Only(u, C) = Append(o, x)
        BY <2>2, <3>1
      <4> QED BY <2>1, <2>3, <2>4, <2>5, <3>1, <4>1
    <3>2. CASE x \notin C
      <4>1. Only(u, C) = o
        BY <2>2, <3>2
      <4> QED BY <2>1, <2>3, <2>5, <3>2, <4>1
    <3> QED BY <3>1, <3>2
  <2> QED BY <2>6 DEF u
<1> HIDE DEF OK
<1>3. Seq(A) \subseteq S
  <2> HIDE DEF S
  <2> QED BY <1>1, <1>2, PrefixInduction
<1> QED BY <1>3 DEF OK

LEMMA OnlyPush ==
  ASSUME NEW A, NEW s \in Seq(A), NEW x \in A, NEW C
  PROVE  Only(Push(s, x), C) = IF x \in C THEN Push(Only(s, C), x) ELSE Only(s, C)
<1> DEFINE OK(t) == Only(Push(t, x), C) = IF x \in C THEN Push(Only(t, C), x) ELSE Only(t, C)
           S == {t \in Seq(A) : OK(t)}
<1>1. <<>> \in S
  <2>1. <<>> \in Seq(A) /\ Push(<<>>, x) = Append(<<>>, x)
    BY DEF Push
  <2>2. Only(<<>>, C) = <<>>
    BY OnlyEmpty
  <2>3. Only(Append(<<>>, x), C) = IF x \in C THEN Append(<<>>, x) ELSE <<>>
    BY <2>1, <2>2, OnlyAppend
  <2> QED BY <2>1, <2>2, <2>3
<1>2. \A t \in Seq(A), y \in A : t \in S => Append(t, y) \in S
  <2> SUFFICES ASSUME NEW t \in Seq(A), NEW y \in A, OK(t) PROVE OK(Append(t, y))
    BY OfAppend
  <2>1. /\ Only(Append(t, y), C) = IF y \in C THEN Append(Only(t, C), y) ELSE Only(t, C)
        /\ Only(t, C) \in Seq(A) /\ Push(t, x) \in Seq(A)
    BY OnlyAppend, OnlyTyped, OfPush
  <2>2. \A u \in Seq(A) : Push(Append(u, y), x) = Append(Push(u, x), y)
    BY DEF Push
  <2>3. Only(Append(Push(t, x), y), C)
          = IF y \in C THEN Append(Only(Push(t, x), C), y) ELSE Only(Push(t, x), C)
    <3> DEFINE u == Push(t, x)
    <3>1. u \in Seq(A)
      BY <2>1
    <3> HIDE DEF u
    <3>2. Only(Append(u, y), C) = IF y \in C THEN Append(Only(u, C), y) ELSE Only(u, C)
      BY <3>1, OnlyAppend
    <3> QED BY <3>2 DEF u
  <2> QED BY <2>1, <2>2, <2>3
<1> HIDE DEF OK
<1>3. Seq(A) \subseteq S
  <2> HIDE DEF S
  <2> QED BY <1>1, <1>2, PrefixInduction
<1> QED BY <1>3 DEF OK

LEMMA OnlySame ==
  ASSUME NEW A, NEW s \in Seq(A), NEW C, NEW D, ToSet(s) \cap C = ToSet(s) \cap D
  PROVE  Only(s, C) = Only(s, D)
<1> DEFINE OK(t) == ToSet(t) \cap C = ToSet(t) \cap D => Only(t, C) = Only(t, D)
           S == {t \in Seq(A) : OK(t)}
<1>1. <<>> \in S
  <2>1. <<>> \in Seq(A)
    OBVIOUS
  <2> QED BY <2>1, OnlyEmpty
<1>2. \A t \in Seq(A), y \in A : t \in S => Append(t, y) \in S
  <2> SUFFICES ASSUME NEW t \in Seq(A), NEW y \in A, OK(t) PROVE OK(Append(t, y))
    BY OfAppend
  <2>1. ToSet(Append(t, y)) = ToSet(t) \cup {y}
    BY OfAppend
  <2>2. /\ Only(Append(t, y), C) = IF y \in C THEN Append(Only(t, C), y) ELSE Only(t, C)
        /\ Only(Append(t, y), D) = IF y \in D THEN Append(Only(t, D), y) ELSE Only(t, D)
    BY OnlyAppend
  <2>3. ASSUME ToSet(Append(t, y)) \cap C = ToSet(Append(t, y)) \cap D
        PROVE  ToSet(t) \cap C = ToSet(t) \cap D /\ (y \in C <=> y \in D)
    BY <2>1, <2>3
  <2> QED BY <2>2, <2>3
<1> HIDE DEF OK
<1>3. Seq(A) \subseteq S
  <2> HIDE DEF S
  <2> QED BY <1>1, <1>2, PrefixInduction
<1> QED BY <1>3 DEF OK

LEMMA OnlyAll ==
  ASSUME NEW A, NEW s \in Seq(A), NEW C, ToSet(s) \subseteq C
  PROVE  Only(s, C) = s
<1> DEFINE OK(t) == ToSet(t) \subseteq C => Only(t, C) = t
           S == {t \in Seq(A) : OK(t)}
<1>1. <<>> \in S
  <2>1. <<>> \in Seq(A)
    OBVIOUS
  <2> QED BY <2>1, OnlyEmpty
<1>2. \A t \in Seq(A), y \in A : t \in S => Append(t, y) \in S
  <2> SUFFICES ASSUME NEW t \in Seq(A), NEW y \in A, OK(t) PROVE OK(Append(t, y))
    BY OfAppend
  <2>1. ToSet(Append(t, y)) = ToSet(t) \cup {y}
    BY OfAppend
  <2>2. Only(Append(t, y), C) = IF y \in C THEN Append(Only(t, C), y) ELSE Only(t, C)
    BY OnlyAppend
  <2> QED BY <2>1, <2>2
<1> HIDE DEF OK
<1>3. Seq(A) \subseteq S
  <2> HIDE DEF S
  <2> QED BY <1>1, <1>2, PrefixInduction
<1> QED BY <1>3 DEF OK

LEMMA OnlyOnly ==
  ASSUME NEW A, NEW s \in Seq(A), NEW C, NEW D
  PROVE  Only(Only(s, C), D) = Only(s, C \cap D)
<1> DEFINE OK(t) == Only(Only(t, C), D) = Only(t, C \cap D)
           S == {t \in Seq(A) : OK(t)}
<1>1. <<>> \in S
  <2>1. <<>> \in Seq(A)
    OBVIOUS
  <2> QED BY <2>1, OnlyEmpty
<1>2. \A t \in Seq(A), y \in A : t \in S => Append(t, y) \in S
  <2> SUFFICES ASSUME NEW t \in Seq(A), NEW y \in A, OK(t) PROVE OK(Append(t, y))
    BY OfAppend
  <2>1. Only(t, C) \in Seq(A)
    BY OnlyTyped
  <2>2. /\ Only(Append(t, y), C) = IF y \in C THEN Append(Only(t, C), y) ELSE Only(t, C)
        /\ Only(Append(t, y), C \cap D)
             = IF y \in C \cap D THEN Append(Only(t, C \cap D), y) ELSE Only(t, C \cap D)
    BY OnlyAppend
  <2>3. Only(Append(Only(t, C), y), D)
          = IF y \in D THEN Append(Only(Only(t, C), D), y) ELSE Only(Only(t, C), D)
    BY <2>1, OnlyAppend
  <2>4. CASE y \in C
    <3>1. y \in C \cap D <=> y \in D
      BY <2>4
    <3>2. Only(Append(t, y), C) = Append(Only(t, C), y)
      BY <2>2, <2>4
    <3> HIDE DEF S
    <3> QED BY <2>2, <2>3, <3>1, <3>2
  <2>5. CASE y \notin C
    <3>1. y \notin C \cap D
      BY <2>5
    <3> QED BY <2>2, <2>5, <3>1
  <2> QED BY <2>4, <2>5
<1> HIDE DEF OK
<1>3. Seq(A) \subseteq S
  <2> HIDE DEF S
  <2> QED BY <1>1, <1>2, PrefixInduction
<1> QED BY <1>3 DEF OK

\* An element is taken out of what is kept as it is of the list.
LEMMA WithoutIs ==
  ASSUME NEW A, NEW s \in Seq(A), NEW x
  PROVE  /\ Without(s, x) \in Seq(A) /\ ToSet(Without(s, x)) = ToSet(s) \ {x}
         /\ Len(Without(s, x)) <= Len(s)
         /\ Distinct(s) => Distinct(Without(s, x))
         /\ x \notin ToSet(s) => Without(s, x) = s
BY OnlyTyped, OnlyAll DEF Without

LEMMA OnlyWithout ==
  ASSUME NEW A, NEW s \in Seq(A), NEW x, NEW C
  PROVE  Only(Without(s, x), C) = Without(Only(s, C), x)
<1> DEFINE o == Only(s, C)
           D == ToSet(s) \ {x}
           E == ToSet(o) \ {x}
<1>1. o \in Seq(A) /\ ToSet(o) = ToSet(s) \cap C
  BY OnlyTyped
<1>2. Only(Only(s, D), C) = Only(s, D \cap C)
  BY OnlyOnly
<1>3. Only(o, E) = Only(s, C \cap E)
  BY OnlyOnly
<1>4. ToSet(s) \cap (D \cap C) = ToSet(s) \cap (C \cap E)
  BY <1>1
<1> HIDE DEF D, E
<1>5. Only(s, D \cap C) = Only(s, C \cap E)
  BY <1>4, OnlySame
<1> QED BY <1>2, <1>3, <1>5 DEF Without, D, E

LEMMA WithoutLast ==
  ASSUME NEW A, NEW s \in Seq(A), s # <<>>, Distinct(s)
  PROVE  Front(s) = Without(s, Last(s)) /\ Last(s) \in ToSet(s)
<1>1. PICK t \in Seq(A), x \in A : s = Append(t, x)
  BY SequenceEmptyOrAppend
<1>2. Len(s) = Len(t) + 1 /\ s[Len(t) + 1] = x
  BY <1>1
<1>3. Last(s) = x
  BY <1>2 DEF Last
<1>4. Front(s) = t
  BY <1>1, <1>2 DEF Front
<1>5. ToSet(s) = ToSet(t) \cup {x} /\ x \notin ToSet(t)
  BY <1>1, OfAppend
<1> DEFINE C == ToSet(s) \ {x}
<1>6. C = ToSet(t)
  BY <1>5
<1>7. Only(s, C) = Only(t, C)
  BY <1>1, OnlyAppend
<1>8. Only(t, C) = t
  BY <1>6, OnlyAll
<1> QED BY <1>3, <1>4, <1>5, <1>7, <1>8 DEF Without

-----------------------------------------------------------------------------
(* Reading messages                                                        *)

Listing(s) == \E A : s \in Seq(A)

LEMMA Listings ==
  /\ Listing(<<>>)
  /\ \A m : Listing(<<m>>)
  /\ \A s, t : Listing(s) /\ Listing(t) => Listing(s \o t)
  /\ \A s : Listing(s) /\ s # <<>> => Listing(Tail(s)) /\ Len(s) \in Nat /\ Len(s) > 0
<1>1. Listing(<<>>)
  <2>1. <<>> \in Seq({})
    OBVIOUS
  <2> QED BY <2>1 DEF Listing
<1>2. ASSUME NEW m PROVE Listing(<<m>>)
  <2>1. <<m>> \in Seq({m})
    OBVIOUS
  <2> QED BY <2>1 DEF Listing
<1>3. ASSUME NEW s, NEW t, Listing(s), Listing(t) PROVE Listing(s \o t)
  <2>1. PICK A : s \in Seq(A)
    BY <1>3 DEF Listing
  <2>2. PICK B : t \in Seq(B)
    BY <1>3 DEF Listing
  <2>3. s \in Seq(A \cup B) /\ t \in Seq(A \cup B)
    BY <2>1, <2>2, SeqMonotonic
  <2>4. s \o t \in Seq(A \cup B)
    BY <2>3, ConcatProperties
  <2> QED BY <2>4 DEF Listing
<1>4. ASSUME NEW s, Listing(s), s # <<>> PROVE Listing(Tail(s)) /\ Len(s) \in Nat /\ Len(s) > 0
  <2>1. PICK A : s \in Seq(A)
    BY <1>4 DEF Listing
  <2>2. Tail(s) \in Seq(A)
    BY <1>4, <2>1, HeadTailProperties
  <2>3. Len(s) \in Nat /\ Len(s) > 0
    BY <1>4, <2>1, EmptySeq
  <2> QED BY <2>2, <2>3 DEF Listing
<1> QED BY <1>1, <1>2, <1>3, <1>4

\* g[k] is the view after k of the messages.
Follows(g, v, s, n) ==
  /\ g = [k \in 0 .. n |-> g[k]]
  /\ g[0] = v
  /\ \A k \in 1 .. n : g[k] = DoNetworkCommand(g[k - 1], s[k])

\* What the loop of main may meet.
Fine(v, m) ==
  /\ v.verdict # "lost"
  /\ v.verdict = "refused" => m.kind = "killed" /\ m.who \in Others

\* The messages turn one view into the other, and none of them is taken amiss.
Accepts(v, s, u) ==
  /\ Listing(s)
  /\ \E g : /\ Follows(g, v, s, Len(s)) /\ g[Len(s)] = u
            /\ \A k \in 1 .. Len(s) : Fine(g[k], s[k])

LEMMA FollowsUnique ==
  ASSUME NEW n \in Nat, NEW v, NEW s, NEW g, NEW h, Follows(g, v, s, n), Follows(h, v, s, n)
  PROVE  g[n] = h[n]
<1> DEFINE S == {k \in 0 .. n : g[k] = h[k]}
<1>1. 0 \in S
  BY DEF Follows
<1>2. \A j \in 1 .. n : j - 1 \in S => j \in S
  <2> SUFFICES ASSUME NEW j \in 1 .. n, g[j - 1] = h[j - 1] PROVE g[j] = h[j]
    OBVIOUS
  <2>1. /\ g[j] = DoNetworkCommand(g[j - 1], s[j])
        /\ h[j] = DoNetworkCommand(h[j - 1], s[j])
    BY DEF Follows
  <2> QED BY <2>1
<1> HIDE DEF S
<1>3. 0 .. n \subseteq S
  BY <1>1, <1>2, LoopInduction
<1>4. n \in S
  BY <1>3
<1> QED BY <1>4 DEF S

LEMMA ShownIs ==
  ASSUME NEW u, Accepts(view, pending, u)
  PROVE  Shown = u
<1>1. PICK A : pending \in Seq(A)
  BY DEF Accepts, Listing
<1>2. PICK n \in Nat : n = Len(pending)
  BY <1>1
<1>3. PICK h : Follows(h, view, pending, n) /\ h[n] = u
  BY <1>2 DEF Accepts
<1> DEFINE Pass(f, k) == IF k = 0 THEN view ELSE DoNetworkCommand(f[k - 1], pending[k])
           Step(f) == [k \in 0 .. n |-> Pass(f, k)]
<1>4. h = Step(h)
  <2>1. \A k \in 0 .. n : h[k] = Pass(h, k)
    <3>1. \A k \in 1 .. n : h[k] = DoNetworkCommand(h[k - 1], pending[k])
      BY <1>3 DEF Follows
    <3>2. h[0] = view
      BY <1>3 DEF Follows
    <3> QED BY <3>1, <3>2
  <2>2. h = [k \in 0 .. n |-> h[k]]
    BY <1>3 DEF Follows
  <2> HIDE DEF Pass
  <2>3. [k \in 0 .. n |-> h[k]] = Step(h)
    BY <2>1
  <2> QED BY <2>2, <2>3
<1> DEFINE g == CHOOSE f : f = Step(f)
<1>5. g = Step(g)
  <2> HIDE DEF Step
  <2> QED BY <1>4
<1>6. Shown = g[n]
  BY <1>2 DEF Shown
<1> HIDE DEF g
<1>7. \A k \in 0 .. n : g[k] = Pass(g, k)
  <2> HIDE DEF Pass
  <2> QED BY <1>5
<1>8. g[0] = view /\ \A k \in 1 .. n : g[k] = DoNetworkCommand(g[k - 1], pending[k])
  BY <1>7
<1>9. g = [k \in 0 .. n |-> g[k]]
  <2> HIDE DEF Pass
  <2> QED BY <1>5
<1> HIDE DEF Step
<1>10. Follows(g, view, pending, n)
  BY <1>8, <1>9 DEF Follows
<1> QED BY <1>3, <1>6, <1>10, FollowsUnique

LEMMA AcceptsNone ==
  ASSUME NEW v PROVE Accepts(v, <<>>, v)
<1> DEFINE g == [k \in 0 .. 0 |-> v]
<1>1. Len(<<>>) = 0
  OBVIOUS
<1>2. g[0] = v /\ g = [k \in 0 .. 0 |-> g[k]]
  OBVIOUS
<1> HIDE DEF g
<1>3. Follows(g, v, <<>>, 0)
  BY <1>2 DEF Follows
<1> QED BY <1>1, <1>2, <1>3, Listings DEF Accepts

LEMMA AcceptsOne ==
  ASSUME NEW v, NEW m, NEW u, u = DoNetworkCommand(v, m), Fine(u, m)
  PROVE  Accepts(v, <<m>>, u)
<1> DEFINE g == [k \in 0 .. 1 |-> IF k = 0 THEN v ELSE u]
           s == <<m>>
<1>1. Len(s) = 1 /\ s[1] = m
  OBVIOUS
<1>2. g[0] = v /\ g[1] = u /\ g = [k \in 0 .. 1 |-> g[k]]
  OBVIOUS
<1>3. \A k \in 1 .. 1 : k = 1 /\ k - 1 = 0
  OBVIOUS
<1>4. Listing(s)
  BY Listings
<1> HIDE DEF g, s
<1>5. Follows(g, v, s, 1)
  BY <1>1, <1>2, <1>3 DEF Follows
<1>6. Accepts(v, s, u)
  BY <1>1, <1>2, <1>3, <1>4, <1>5 DEF Accepts
<1> QED BY <1>6 DEF s

LEMMA AcceptsMore ==
  ASSUME NEW v, NEW s, NEW x, NEW t, NEW u, Accepts(v, s, x), Accepts(x, t, u)
  PROVE  Accepts(v, s \o t, u)
<1>1. PICK A : s \in Seq(A)
  BY DEF Accepts, Listing
<1>2. PICK B : t \in Seq(B)
  BY DEF Accepts, Listing
<1> DEFINE r == s \o t
<1>3. s \in Seq(A \cup B) /\ t \in Seq(A \cup B)
  BY <1>1, <1>2, SeqMonotonic
<1>4. PICK n \in Nat : n = Len(s)
  BY <1>1
<1>5. PICK m \in Nat : m = Len(t)
  BY <1>2
<1>6. Len(r) = n + m /\ (\A k \in 1 .. n : r[k] = s[k]) /\ (\A k \in 1 .. m : r[n + k] = t[k])
  BY <1>3, <1>4, <1>5, ConcatProperties
<1>7. Listing(r)
  BY Listings DEF Accepts
<1> HIDE DEF r
<1>8. PICK g : Follows(g, v, s, n) /\ g[n] = x /\ \A k \in 1 .. n : Fine(g[k], s[k])
  BY <1>4 DEF Accepts
<1>9. PICK h : Follows(h, x, t, m) /\ h[m] = u /\ \A k \in 1 .. m : Fine(h[k], t[k])
  BY <1>5 DEF Accepts
<1> DEFINE f == [k \in 0 .. n + m |-> IF k <= n THEN g[k] ELSE h[k - n]]
<1>10. f[0] = v
  BY <1>8 DEF Follows
<1>11. \A k \in 1 .. n : f[k] = g[k] /\ f[k - 1] = g[k - 1]
  OBVIOUS
<1>12. \A k \in 1 .. m : f[n + k] = h[k] /\ f[n + k - 1] = h[k - 1]
  <2> SUFFICES ASSUME NEW k \in 1 .. m PROVE f[n + k] = h[k] /\ f[n + k - 1] = h[k - 1]
    OBVIOUS
  <2>1. f[n + k] = h[k]
    OBVIOUS
  <2>2. CASE k = 1
    <3>1. f[n + k - 1] = g[n] /\ h[k - 1] = h[0]
      BY <2>2
    <3> QED BY <1>8, <1>9, <2>1, <3>1 DEF Follows
  <2>3. CASE k # 1
    BY <2>1, <2>3
  <2> QED BY <2>2, <2>3
<1>13. f = [k \in 0 .. n + m |-> f[k]]
  OBVIOUS
<1>14. f[n + m] = u
  <2>1. CASE m = 0
    <3>1. f[n + m] = g[n] /\ h[m] = h[0]
      BY <2>1
    <3> QED BY <1>8, <1>9, <3>1 DEF Follows
  <2>2. CASE m # 0
    BY <1>9, <1>12, <2>2
  <2> QED BY <2>1, <2>2
<1> HIDE DEF f
<1>15. \A k \in 1 .. n + m : k \in 1 .. n \/ \E j \in 1 .. m : k = n + j
  <2> SUFFICES ASSUME NEW k \in 1 .. n + m, k \notin 1 .. n PROVE \E j \in 1 .. m : k = n + j
    OBVIOUS
  <2>1. k - n \in 1 .. m /\ k = n + (k - n)
    OBVIOUS
  <2> QED BY <2>1
<1>16. \A k \in 1 .. n : f[k] = DoNetworkCommand(f[k - 1], r[k]) /\ Fine(f[k], r[k])
  BY <1>6, <1>8, <1>11 DEF Follows
<1>17. \A k \in 1 .. m :
         f[n + k] = DoNetworkCommand(f[n + k - 1], r[n + k]) /\ Fine(f[n + k], r[n + k])
  BY <1>6, <1>9, <1>12 DEF Follows
<1>18. \A k \in 1 .. n + m : f[k] = DoNetworkCommand(f[k - 1], r[k]) /\ Fine(f[k], r[k])
  BY <1>15, <1>16, <1>17
<1>19. Follows(f, v, r, n + m)
  BY <1>10, <1>13, <1>18 DEF Follows
<1>20. Accepts(v, r, u)
  BY <1>6, <1>7, <1>14, <1>18, <1>19 DEF Accepts
<1> QED BY <1>20 DEF r

LEMMA AcceptsHead ==
  ASSUME NEW v, NEW s, NEW u, Accepts(v, s, u), s # <<>>
  PROVE  /\ Fine(DoNetworkCommand(v, Head(s)), Head(s))
         /\ Accepts(DoNetworkCommand(v, Head(s)), Tail(s), u)
<1>1. PICK A : s \in Seq(A)
  BY DEF Accepts, Listing
<1>2. PICK n \in Nat : n = Len(s)
  BY <1>1
<1>3. n > 0 /\ Head(s) = s[1]
  BY <1>1, <1>2, EmptySeq
<1> DEFINE t == Tail(s)
<1>4. Len(t) = n - 1 /\ \A k \in 1 .. n - 1 : t[k] = s[k + 1]
  BY <1>1, <1>2, HeadTailProperties
<1>5. Listing(t)
  BY Listings DEF Accepts
<1> HIDE DEF t
<1>6. PICK g : Follows(g, v, s, n) /\ g[n] = u /\ \A k \in 1 .. n : Fine(g[k], s[k])
  BY <1>2 DEF Accepts
<1>7. g[1] = DoNetworkCommand(v, Head(s)) /\ Fine(g[1], Head(s))
  <2>1. 1 \in 1 .. n /\ 1 - 1 = 0
    BY <1>3
  <2> QED BY <1>3, <1>6, <2>1 DEF Follows
<1> DEFINE h == [k \in 0 .. n - 1 |-> g[k + 1]]
<1>8. h[0] = g[1] /\ h[n - 1] = u /\ h = [k \in 0 .. n - 1 |-> h[k]]
  BY <1>3, <1>6
<1>9. \A k \in 1 .. n - 1 : /\ h[k] = g[k + 1] /\ h[k - 1] = g[k] /\ k + 1 \in 1 .. n
                            /\ (k + 1) - 1 = k
  OBVIOUS
<1> HIDE DEF h
<1>10. \A k \in 1 .. n - 1 : h[k] = DoNetworkCommand(h[k - 1], t[k]) /\ Fine(h[k], t[k])
  <2> SUFFICES ASSUME NEW k \in 1 .. n - 1
               PROVE  h[k] = DoNetworkCommand(h[k - 1], t[k]) /\ Fine(h[k], t[k])
    OBVIOUS
  <2>1. g[k + 1] = DoNetworkCommand(g[k], s[k + 1]) /\ Fine(g[k + 1], s[k + 1])
    BY <1>6, <1>9 DEF Follows
  <2> QED BY <1>4, <1>9, <2>1
<1>11. Follows(h, g[1], t, n - 1)
  BY <1>8, <1>10 DEF Follows
<1>12. Accepts(g[1], t, u)
  BY <1>4, <1>5, <1>8, <1>10, <1>11 DEF Accepts
<1> QED BY <1>7, <1>12 DEF t

\* What is shown of a room that is known.
InRoom == TRUE

Pic(P, N, I, V, S, C, L, w) ==
  [inRoom |-> InRoom, players |-> P, npcs |-> N, items |-> I, inventory |-> V,
   slot |-> S, cpu |-> C, level |-> L, verdict |-> w]

\* After the player's data, before the room.
Data(V, S, C, L) ==
  [inRoom |-> FALSE, players |-> <<>>, npcs |-> <<>>, items |-> <<>>, inventory |-> V,
   slot |-> S, cpu |-> C, level |-> L, verdict |-> "done"]

LEMMA ReadsInRoom ==
  ASSUME NEW P, NEW N, NEW I, NEW V, NEW S, NEW C, NEW L, NEW w, NEW m
  PROVE  DoNetworkCommand(Pic(P, N, I, V, S, C, L, w), m) =
             Handler(Pic(P, N, I, V, S, C, L, "done"), m)
<1> DEFINE v == Pic(P, N, I, V, S, C, L, w)
           u == Pic(P, N, I, V, S, C, L, "done")
<1>1. [v EXCEPT !.verdict = "done"] = u
  BY DEF Pic
<1>2. u.inRoom = InRoom
  BY DEF Pic
<1>3. u.inRoom
  BY <1>2 DEF InRoom
<1> HIDE DEF v, u
<1>4. DoNetworkCommand(v, m) = Handler(u, m)
  BY <1>1, <1>3 DEF DoNetworkCommand
<1> QED BY <1>4 DEF v, u

\* Three fields at once.
LEMMA PicOwn ==
  ASSUME NEW P, NEW N, NEW I, NEW V, NEW S, NEW C, NEW L, NEW w, NEW x, NEW y, NEW z
  PROVE  [Pic(P, N, I, V, S, C, L, w) EXCEPT !.inventory = x, !.slot = y, !.cpu = z]
           = Pic(P, N, I, x, y, z, L, w)
<1> DEFINE r == [Pic(P, N, I, V, S, C, L, w) EXCEPT !.inventory = x, !.slot = y, !.cpu = z]
           q == Pic(P, N, I, x, y, z, L, w)
           D == {"inRoom", "players", "npcs", "items", "inventory", "slot", "cpu", "level",
                 "verdict"}
<1>1. r = [f \in D |-> r[f]]
  BY DEF Pic
<1>2. q = [f \in D |-> q[f]]
  BY DEF Pic
<1>3. r["inRoom"] = q["inRoom"] /\ r["players"] = q["players"] /\ r["npcs"] = q["npcs"]
  BY DEF Pic
<1>4. r["items"] = q["items"] /\ r["inventory"] = q["inventory"] /\ r["slot"] = q["slot"]
  BY DEF Pic
<1>5. r["cpu"] = q["cpu"] /\ r["level"] = q["level"] /\ r["verdict"] = q["verdict"]
  BY DEF Pic
<1> HIDE DEF r, q
<1>6. \A f \in D : r[f] = q[f]
  BY <1>3, <1>4, <1>5
<1> HIDE DEF D
<1>7. r = q
  BY <1>1, <1>2, <1>6
<1> QED BY <1>7 DEF r, q

\* A player that is shown speaks.
LEMMA TakesSays ==
  ASSUME NEW P, NEW N, NEW I, NEW V, NEW S, NEW C, NEW L, NEW w,
         NEW p \in ToSet(P)
  PROVE  Accepts(Pic(P, N, I, V, S, C, L, w),
                 <<[kind |-> "says", who |-> p]>>,
                 Pic(P, N, I, V, S, C, L, "done"))
<1> DEFINE m == [kind |-> "says", who |-> p]
           d == Pic(P, N, I, V, S, C, L, "done")
           u == Pic(P, N, I, V, S, C, L, "done")
<1>1. Handler(d, m) = NWCPlayerSaysResponse(d, m)
  BY DEF Handler
<1>2. NWCPlayerSaysResponse(d, m) = u
  BY DEF NWCPlayerSaysResponse, Pic
<1>3. Fine(u, m)
  BY DEF Fine, Pic
<1> HIDE DEF m, d, u
<1>4. DoNetworkCommand(Pic(P, N, I, V, S, C, L, w), m) = u
  BY <1>1, <1>2, ReadsInRoom DEF d
<1>5. Accepts(Pic(P, N, I, V, S, C, L, w), <<m>>, u)
  BY <1>3, <1>4, AcceptsOne
<1> QED BY <1>5 DEF m, u

\* A player that is not shown arrives.
LEMMA TakesArrives ==
  ASSUME NEW P, NEW N, NEW I, NEW V, NEW S, NEW C, NEW L, NEW w,
         NEW p, p # Me, p \notin ToSet(P)
  PROVE  Accepts(Pic(P, N, I, V, S, C, L, w),
                 <<[kind |-> "arrives", who |-> p]>>,
                 Pic(Push(P, p), N, I, V, S, C, L, "done"))
<1> DEFINE m == [kind |-> "arrives", who |-> p]
           d == Pic(P, N, I, V, S, C, L, "done")
           u == Pic(Push(P, p), N, I, V, S, C, L, "done")
<1>1. Handler(d, m) = NWCPlayerArrivesResponse(d, m)
  BY DEF Handler
<1>2. NWCPlayerArrivesResponse(d, m) = u
  BY DEF NWCPlayerArrivesResponse, Pic
<1>3. Fine(u, m)
  BY DEF Fine, Pic
<1> HIDE DEF m, d, u
<1>4. DoNetworkCommand(Pic(P, N, I, V, S, C, L, w), m) = u
  BY <1>1, <1>2, ReadsInRoom DEF d
<1>5. Accepts(Pic(P, N, I, V, S, C, L, w), <<m>>, u)
  BY <1>3, <1>4, AcceptsOne
<1> QED BY <1>5 DEF m, u

\* One's own arrival changes nothing.
LEMMA TakesOwnArrival ==
  ASSUME NEW P, NEW N, NEW I, NEW V, NEW S, NEW C, NEW L, NEW w
  PROVE  Accepts(Pic(P, N, I, V, S, C, L, w),
                 <<[kind |-> "arrives", who |-> Me]>>,
                 Pic(P, N, I, V, S, C, L, "done"))
<1> DEFINE m == [kind |-> "arrives", who |-> Me]
           d == Pic(P, N, I, V, S, C, L, "done")
           u == Pic(P, N, I, V, S, C, L, "done")
<1>1. Handler(d, m) = NWCPlayerArrivesResponse(d, m)
  BY DEF Handler
<1>2. NWCPlayerArrivesResponse(d, m) = u
  BY DEF NWCPlayerArrivesResponse, Pic
<1>3. Fine(u, m)
  BY DEF Fine, Pic
<1> HIDE DEF m, d, u
<1>4. DoNetworkCommand(Pic(P, N, I, V, S, C, L, w), m) = u
  BY <1>1, <1>2, ReadsInRoom DEF d
<1>5. Accepts(Pic(P, N, I, V, S, C, L, w), <<m>>, u)
  BY <1>3, <1>4, AcceptsOne
<1> QED BY <1>5 DEF m, u

\* Another player leaves.
LEMMA TakesLeaves ==
  ASSUME NEW P, NEW N, NEW I, NEW V, NEW S, NEW C, NEW L, NEW w,
         NEW p, NEW how, p # Me
  PROVE  Accepts(Pic(P, N, I, V, S, C, L, w),
                 <<[kind |-> "leaves", who |-> p, how |-> how]>>,
                 Pic(Without(P, p), N, I, V, S, C, L, "done"))
<1> DEFINE m == [kind |-> "leaves", who |-> p, how |-> how]
           d == Pic(P, N, I, V, S, C, L, "done")
           u == Pic(Without(P, p), N, I, V, S, C, L, "done")
<1>1. Handler(d, m) = NWCPlayerLeavesResponse(d, m)
  BY DEF Handler
<1>2. NWCPlayerLeavesResponse(d, m) = u
  BY DEF NWCPlayerLeavesResponse, Pic
<1>3. Fine(u, m)
  BY DEF Fine, Pic
<1> HIDE DEF m, d, u
<1>4. DoNetworkCommand(Pic(P, N, I, V, S, C, L, w), m) = u
  BY <1>1, <1>2, ReadsInRoom DEF d
<1>5. Accepts(Pic(P, N, I, V, S, C, L, w), <<m>>, u)
  BY <1>3, <1>4, AcceptsOne
<1> QED BY <1>5 DEF m, u

\* One's own flight takes all CPU.
LEMMA TakesFlight ==
  ASSUME NEW P, NEW N, NEW I, NEW V, NEW S, NEW C, NEW L, NEW w
  PROVE  Accepts(Pic(P, N, I, V, S, C, L, w),
                 <<[kind |-> "leaves", who |-> Me, how |-> "flee"]>>,
                 Pic(P, N, I, V, S, 0, L, "done"))
<1> DEFINE m == [kind |-> "leaves", who |-> Me, how |-> "flee"]
           d == Pic(P, N, I, V, S, C, L, "done")
           u == Pic(P, N, I, V, S, 0, L, "done")
<1>1. Handler(d, m) = NWCPlayerLeavesResponse(d, m)
  BY DEF Handler
<1>2. NWCPlayerLeavesResponse(d, m) = u
  BY DEF NWCPlayerLeavesResponse, Pic
<1>3. Fine(u, m)
  BY DEF Fine, Pic
<1> HIDE DEF m, d, u
<1>4. DoNetworkCommand(Pic(P, N, I, V, S, C, L, w), m) = u
  BY <1>1, <1>2, ReadsInRoom DEF d
<1>5. Accepts(Pic(P, N, I, V, S, C, L, w), <<m>>, u)
  BY <1>3, <1>4, AcceptsOne
<1> QED BY <1>5 DEF m, u

\* One's own move takes its share of the CPU.
LEMMA TakesExit ==
  ASSUME NEW P, NEW N, NEW I, NEW V, NEW S, NEW C, NEW L, NEW w,
         ~ (MoveCPU(MaxCPU(S)) > C)
  PROVE  Accepts(Pic(P, N, I, V, S, C, L, w),
                 <<[kind |-> "leaves", who |-> Me, how |-> "exit"]>>,
                 Pic(P, N, I, V, S, C - MoveCPU(MaxCPU(S)), L, "done"))
<1> DEFINE m == [kind |-> "leaves", who |-> Me, how |-> "exit"]
           d == Pic(P, N, I, V, S, C, L, "done")
           u == Pic(P, N, I, V, S, C - MoveCPU(MaxCPU(S)), L, "done")
<1>1. Handler(d, m) = NWCPlayerLeavesResponse(d, m)
  BY DEF Handler
<1>2. NWCPlayerLeavesResponse(d, m) = u
  BY DEF NWCPlayerLeavesResponse, Pic
<1>3. Fine(u, m)
  BY DEF Fine, Pic
<1> HIDE DEF m, d, u
<1>4. DoNetworkCommand(Pic(P, N, I, V, S, C, L, w), m) = u
  BY <1>1, <1>2, ReadsInRoom DEF d
<1>5. Accepts(Pic(P, N, I, V, S, C, L, w), <<m>>, u)
  BY <1>3, <1>4, AcceptsOne
<1> QED BY <1>5 DEF m, u

\* A program that is not shown arrives.
LEMMA TakesNPCArrives ==
  ASSUME NEW P, NEW N, NEW I, NEW V, NEW S, NEW C, NEW L, NEW w,
         NEW n, n \notin ToSet(N)
  PROVE  Accepts(Pic(P, N, I, V, S, C, L, w),
                 <<[kind |-> "npcArrives", who |-> n]>>,
                 Pic(P, Push(N, n), I, V, S, C, L, "done"))
<1> DEFINE m == [kind |-> "npcArrives", who |-> n]
           d == Pic(P, N, I, V, S, C, L, "done")
           u == Pic(P, Push(N, n), I, V, S, C, L, "done")
<1>1. Handler(d, m) = NWCNPCArrivesResponse(d, m)
  BY DEF Handler
<1>2. NWCNPCArrivesResponse(d, m) = u
  BY DEF NWCNPCArrivesResponse, Pic
<1>3. Fine(u, m)
  BY DEF Fine, Pic
<1> HIDE DEF m, d, u
<1>4. DoNetworkCommand(Pic(P, N, I, V, S, C, L, w), m) = u
  BY <1>1, <1>2, ReadsInRoom DEF d
<1>5. Accepts(Pic(P, N, I, V, S, C, L, w), <<m>>, u)
  BY <1>3, <1>4, AcceptsOne
<1> QED BY <1>5 DEF m, u

\* A program that is shown leaves.
LEMMA TakesNPCLeaves ==
  ASSUME NEW P, NEW N, NEW I, NEW V, NEW S, NEW C, NEW L, NEW w,
         NEW n, n \in ToSet(N)
  PROVE  Accepts(Pic(P, N, I, V, S, C, L, w),
                 <<[kind |-> "npcLeaves", who |-> n]>>,
                 Pic(P, Without(N, n), I, V, S, C, L, "done"))
<1> DEFINE m == [kind |-> "npcLeaves", who |-> n]
           d == Pic(P, N, I, V, S, C, L, "done")
           u == Pic(P, Without(N, n), I, V, S, C, L, "done")
<1>1. Handler(d, m) = NWCNPCLeavesResponse(d, m)
  BY DEF Handler
<1>2. NWCNPCLeavesResponse(d, m) = u
  BY DEF NWCNPCLeavesResponse, Pic
<1>3. Fine(u, m)
  BY DEF Fine, Pic
<1> HIDE DEF m, d, u
<1>4. DoNetworkCommand(Pic(P, N, I, V, S, C, L, w), m) = u
  BY <1>1, <1>2, ReadsInRoom DEF d
<1>5. Accepts(Pic(P, N, I, V, S, C, L, w), <<m>>, u)
  BY <1>3, <1>4, AcceptsOne
<1> QED BY <1>5 DEF m, u

\* A player that is shown dies.
LEMMA TakesKill ==
  ASSUME NEW P, NEW N, NEW I, NEW V, NEW S, NEW C, NEW L, NEW w,
         NEW p, p \in ToSet(P)
  PROVE  Accepts(Pic(P, N, I, V, S, C, L, w),
                 <<[kind |-> "killed", who |-> p]>>,
                 Pic(Without(P, p), N, I, V, S, C, L, "done"))
<1> DEFINE m == [kind |-> "killed", who |-> p]
           d == Pic(P, N, I, V, S, C, L, "done")
           u == Pic(Without(P, p), N, I, V, S, C, L, "done")
<1>1. Handler(d, m) = NWCPlayerKilledResponse(d, m)
  BY DEF Handler
<1>2. NWCPlayerKilledResponse(d, m) = u
  BY DEF NWCPlayerKilledResponse, Pic
<1>3. Fine(u, m)
  BY DEF Fine, Pic
<1> HIDE DEF m, d, u
<1>4. DoNetworkCommand(Pic(P, N, I, V, S, C, L, w), m) = u
  BY <1>1, <1>2, ReadsInRoom DEF d
<1>5. Accepts(Pic(P, N, I, V, S, C, L, w), <<m>>, u)
  BY <1>3, <1>4, AcceptsOne
<1> QED BY <1>5 DEF m, u

\* The death of a player that is not shown is refused.
LEMMA TakesStranger ==
  ASSUME NEW P, NEW N, NEW I, NEW V, NEW S, NEW C, NEW L, NEW w,
         NEW p \in Others, p \notin ToSet(P), p \notin ToSet(N)
  PROVE  Accepts(Pic(P, N, I, V, S, C, L, w),
                 <<[kind |-> "killed", who |-> p]>>,
                 Pic(P, N, I, V, S, C, L, "refused"))
<1> DEFINE m == [kind |-> "killed", who |-> p]
           d == Pic(P, N, I, V, S, C, L, "done")
           u == Pic(P, N, I, V, S, C, L, "refused")
<1>1. Handler(d, m) = NWCPlayerKilledResponse(d, m)
  BY DEF Handler
<1>2. NWCPlayerKilledResponse(d, m) = u
  BY DEF NWCPlayerKilledResponse, Refused, Pic
<1>3. Fine(u, m)
  BY DEF Fine, Pic
<1> HIDE DEF m, d, u
<1>4. DoNetworkCommand(Pic(P, N, I, V, S, C, L, w), m) = u
  BY <1>1, <1>2, ReadsInRoom DEF d
<1>5. Accepts(Pic(P, N, I, V, S, C, L, w), <<m>>, u)
  BY <1>3, <1>4, AcceptsOne
<1> QED BY <1>5 DEF m, u

\* A program that is shown dies.
LEMMA TakesNPCKill ==
  ASSUME NEW P, NEW N, NEW I, NEW V, NEW S, NEW C, NEW L, NEW w,
         NEW n, n \notin ToSet(P), n \in ToSet(N)
  PROVE  Accepts(Pic(P, N, I, V, S, C, L, w),
                 <<[kind |-> "killed", who |-> n]>>,
                 Pic(P, Without(N, n), I, V, S, C, L, "done"))
<1> DEFINE m == [kind |-> "killed", who |-> n]
           d == Pic(P, N, I, V, S, C, L, "done")
           u == Pic(P, Without(N, n), I, V, S, C, L, "done")
<1>1. Handler(d, m) = NWCPlayerKilledResponse(d, m)
  BY DEF Handler
<1>2. NWCPlayerKilledResponse(d, m) = u
  BY DEF NWCPlayerKilledResponse, Pic
<1>3. Fine(u, m)
  BY DEF Fine, Pic
<1> HIDE DEF m, d, u
<1>4. DoNetworkCommand(Pic(P, N, I, V, S, C, L, w), m) = u
  BY <1>1, <1>2, ReadsInRoom DEF d
<1>5. Accepts(Pic(P, N, I, V, S, C, L, w), <<m>>, u)
  BY <1>3, <1>4, AcceptsOne
<1> QED BY <1>5 DEF m, u

\* One's own get.
LEMMA TakesGetsItem ==
  ASSUME NEW P, NEW N, NEW I, NEW V, NEW S, NEW C, NEW L, NEW w,
         NEW i, i \in ToSet(I), ~ (Len(V) + 1 > MaxCarry)
  PROVE  Accepts(Pic(P, N, I, V, S, C, L, w),
                 <<[kind |-> "getsItem", item |-> i]>>,
                 Pic(P, N, Without(I, i), Push(V, i), S, C, L, "done"))
<1> DEFINE m == [kind |-> "getsItem", item |-> i]
           d == Pic(P, N, I, V, S, C, L, "done")
           u == Pic(P, N, Without(I, i), Push(V, i), S, C, L, "done")
<1>1. Handler(d, m) = NWCPlayerGetItemResponse(d, m)
  BY DEF Handler
<1>2. NWCPlayerGetItemResponse(d, m) = u
  BY DEF NWCPlayerGetItemResponse, Pic
<1>3. Fine(u, m)
  BY DEF Fine, Pic
<1> HIDE DEF m, d, u
<1>4. DoNetworkCommand(Pic(P, N, I, V, S, C, L, w), m) = u
  BY <1>1, <1>2, ReadsInRoom DEF d
<1>5. Accepts(Pic(P, N, I, V, S, C, L, w), <<m>>, u)
  BY <1>3, <1>4, AcceptsOne
<1> QED BY <1>5 DEF m, u

\* The get of a player that is shown.
LEMMA TakesOtherGetsItem ==
  ASSUME NEW P, NEW N, NEW I, NEW V, NEW S, NEW C, NEW L, NEW w,
         NEW p \in ToSet(P), NEW i \in ToSet(I)
  PROVE  Accepts(Pic(P, N, I, V, S, C, L, w),
                 <<[kind |-> "otherGetsItem", who |-> p, item |-> i]>>,
                 Pic(P, N, Without(I, i), V, S, C, L, "done"))
<1> DEFINE m == [kind |-> "otherGetsItem", who |-> p, item |-> i]
           d == Pic(P, N, I, V, S, C, L, "done")
           u == Pic(P, N, Without(I, i), V, S, C, L, "done")
<1>1. Handler(d, m) = NWCOtherPlayerGetItemResponse(d, m)
  BY DEF Handler
<1>2. NWCOtherPlayerGetItemResponse(d, m) = u
  BY DEF NWCOtherPlayerGetItemResponse, Pic
<1>3. Fine(u, m)
  BY DEF Fine, Pic
<1> HIDE DEF m, d, u
<1>4. DoNetworkCommand(Pic(P, N, I, V, S, C, L, w), m) = u
  BY <1>1, <1>2, ReadsInRoom DEF d
<1>5. Accepts(Pic(P, N, I, V, S, C, L, w), <<m>>, u)
  BY <1>3, <1>4, AcceptsOne
<1> QED BY <1>5 DEF m, u

\* One's own drop.
LEMMA TakesDropsItem ==
  ASSUME NEW P, NEW N, NEW I, NEW V, NEW S, NEW C, NEW L, NEW w,
         NEW i \in ToSet(V)
  PROVE  Accepts(Pic(P, N, I, V, S, C, L, w),
                 <<[kind |-> "dropsItem", item |-> i]>>,
                 Pic(P, N, Push(I, i), Without(V, i), S, C, L, "done"))
<1> DEFINE m == [kind |-> "dropsItem", item |-> i]
           d == Pic(P, N, I, V, S, C, L, "done")
           u == Pic(P, N, Push(I, i), Without(V, i), S, C, L, "done")
<1>1. Handler(d, m) = NWCPlayerDropItemResponse(d, m)
  BY DEF Handler
<1>2. NWCPlayerDropItemResponse(d, m) = u
  BY DEF NWCPlayerDropItemResponse, Pic
<1>3. Fine(u, m)
  BY DEF Fine, Pic
<1> HIDE DEF m, d, u
<1>4. DoNetworkCommand(Pic(P, N, I, V, S, C, L, w), m) = u
  BY <1>1, <1>2, ReadsInRoom DEF d
<1>5. Accepts(Pic(P, N, I, V, S, C, L, w), <<m>>, u)
  BY <1>3, <1>4, AcceptsOne
<1> QED BY <1>5 DEF m, u

\* The drop of a player that is shown.
LEMMA TakesOtherDropsItem ==
  ASSUME NEW P, NEW N, NEW I, NEW V, NEW S, NEW C, NEW L, NEW w,
         NEW p \in ToSet(P), NEW i
  PROVE  Accepts(Pic(P, N, I, V, S, C, L, w),
                 <<[kind |-> "otherDropsItem", who |-> p, item |-> i]>>,
                 Pic(P, N, Push(I, i), V, S, C, L, "done"))
<1> DEFINE m == [kind |-> "otherDropsItem", who |-> p, item |-> i]
           d == Pic(P, N, I, V, S, C, L, "done")
           u == Pic(P, N, Push(I, i), V, S, C, L, "done")
<1>1. Handler(d, m) = NWCOtherPlayerDropItemResponse(d, m)
  BY DEF Handler
<1>2. NWCOtherPlayerDropItemResponse(d, m) = u
  BY DEF NWCOtherPlayerDropItemResponse, Pic
<1>3. Fine(u, m)
  BY DEF Fine, Pic
<1> HIDE DEF m, d, u
<1>4. DoNetworkCommand(Pic(P, N, I, V, S, C, L, w), m) = u
  BY <1>1, <1>2, ReadsInRoom DEF d
<1>5. Accepts(Pic(P, N, I, V, S, C, L, w), <<m>>, u)
  BY <1>3, <1>4, AcceptsOne
<1> QED BY <1>5 DEF m, u

\* An item falls into the room.
LEMMA TakesItemToRoom ==
  ASSUME NEW P, NEW N, NEW I, NEW V, NEW S, NEW C, NEW L, NEW w,
         NEW i
  PROVE  Accepts(Pic(P, N, I, V, S, C, L, w),
                 <<[kind |-> "itemToRoom", item |-> i]>>,
                 Pic(P, N, Push(I, i), V, S, C, L, "done"))
<1> DEFINE m == [kind |-> "itemToRoom", item |-> i]
           d == Pic(P, N, I, V, S, C, L, "done")
           u == Pic(P, N, Push(I, i), V, S, C, L, "done")
<1>1. Handler(d, m) = NWCItemToRoomResponse(d, m)
  BY DEF Handler
<1>2. NWCItemToRoomResponse(d, m) = u
  BY DEF NWCItemToRoomResponse, Pic
<1>3. Fine(u, m)
  BY DEF Fine, Pic
<1> HIDE DEF m, d, u
<1>4. DoNetworkCommand(Pic(P, N, I, V, S, C, L, w), m) = u
  BY <1>1, <1>2, ReadsInRoom DEF d
<1>5. Accepts(Pic(P, N, I, V, S, C, L, w), <<m>>, u)
  BY <1>3, <1>4, AcceptsOne
<1> QED BY <1>5 DEF m, u

\* An item of the room goes.
LEMMA TakesItemDeleted ==
  ASSUME NEW P, NEW N, NEW I, NEW V, NEW S, NEW C, NEW L, NEW w,
         NEW i
  PROVE  Accepts(Pic(P, N, I, V, S, C, L, w),
                 <<[kind |-> "itemDeleted", item |-> i]>>,
                 Pic(P, N, Without(I, i), V, S, C, L, "done"))
<1> DEFINE m == [kind |-> "itemDeleted", item |-> i]
           d == Pic(P, N, I, V, S, C, L, "done")
           u == Pic(P, N, Without(I, i), V, S, C, L, "done")
<1>1. Handler(d, m) = NWCItemInRoomDeletedResponse(d, m)
  BY DEF Handler
<1>2. NWCItemInRoomDeletedResponse(d, m) = u
  BY DEF NWCItemInRoomDeletedResponse, Pic
<1>3. Fine(u, m)
  BY DEF Fine, Pic
<1> HIDE DEF m, d, u
<1>4. DoNetworkCommand(Pic(P, N, I, V, S, C, L, w), m) = u
  BY <1>1, <1>2, ReadsInRoom DEF d
<1>5. Accepts(Pic(P, N, I, V, S, C, L, w), <<m>>, u)
  BY <1>3, <1>4, AcceptsOne
<1> QED BY <1>5 DEF m, u

\* An item is installed.
LEMMA TakesEquips ==
  ASSUME NEW P, NEW N, NEW I, NEW V, NEW S, NEW C, NEW L, NEW w,
         NEW i \in ToSet(V), S = NoItem, ~ (Needs[i] > L)
  PROVE  Accepts(Pic(P, N, I, V, S, C, L, w),
                 <<[kind |-> "equips", item |-> i, ok |-> TRUE]>>,
                 Pic(P, N, I, Without(V, i), i, Limit(C, MaxCPU(i)), L, "done"))
<1> DEFINE m == [kind |-> "equips", item |-> i, ok |-> TRUE]
           d == Pic(P, N, I, V, S, C, L, "done")
           u == Pic(P, N, I, Without(V, i), i, Limit(C, MaxCPU(i)), L, "done")
<1>1. Handler(d, m) = NWCPlayerEquipItemResponse(d, m)
  BY DEF Handler
<1>2. NWCPlayerEquipItemResponse(d, m) = u
  BY DEF NWCPlayerEquipItemResponse, Pic
<1>3. Fine(u, m)
  BY DEF Fine, Pic
<1> HIDE DEF m, d, u
<1>4. DoNetworkCommand(Pic(P, N, I, V, S, C, L, w), m) = u
  BY <1>1, <1>2, ReadsInRoom DEF d
<1>5. Accepts(Pic(P, N, I, V, S, C, L, w), <<m>>, u)
  BY <1>3, <1>4, AcceptsOne
<1> QED BY <1>5 DEF m, u

\* An item is not installed.
LEMMA TakesNoEquip ==
  ASSUME NEW P, NEW N, NEW I, NEW V, NEW S, NEW C, NEW L, NEW w,
         NEW i \in ToSet(V)
  PROVE  Accepts(Pic(P, N, I, V, S, C, L, w),
                 <<[kind |-> "equips", item |-> i, ok |-> FALSE]>>,
                 Pic(P, N, I, V, S, C, L, "done"))
<1> DEFINE m == [kind |-> "equips", item |-> i, ok |-> FALSE]
           d == Pic(P, N, I, V, S, C, L, "done")
           u == Pic(P, N, I, V, S, C, L, "done")
<1>1. Handler(d, m) = NWCPlayerEquipItemResponse(d, m)
  BY DEF Handler
<1>2. NWCPlayerEquipItemResponse(d, m) = u
  BY DEF NWCPlayerEquipItemResponse, Pic
<1>3. Fine(u, m)
  BY DEF Fine, Pic
<1> HIDE DEF m, d, u
<1>4. DoNetworkCommand(Pic(P, N, I, V, S, C, L, w), m) = u
  BY <1>1, <1>2, ReadsInRoom DEF d
<1>5. Accepts(Pic(P, N, I, V, S, C, L, w), <<m>>, u)
  BY <1>3, <1>4, AcceptsOne
<1> QED BY <1>5 DEF m, u

\* The installed item is taken out.
LEMMA TakesUnequips ==
  ASSUME NEW P, NEW N, NEW I, NEW V, NEW S, NEW C, NEW L, NEW w,
         ~ (Len(V) + 1 > MaxCarry)
  PROVE  Accepts(Pic(P, N, I, V, S, C, L, w),
                 <<[kind |-> "unequips", item |-> S, ok |-> TRUE]>>,
                 Pic(P, N, I, Push(V, S), NoItem, Limit(C, BaseCPU), L, "done"))
<1> DEFINE m == [kind |-> "unequips", item |-> S, ok |-> TRUE]
           d == Pic(P, N, I, V, S, C, L, "done")
           u == Pic(P, N, I, Push(V, S), NoItem, Limit(C, BaseCPU), L, "done")
<1>1. Handler(d, m) = NWCPlayerUnequipItemResponse(d, m)
  BY DEF Handler
<1>2. NWCPlayerUnequipItemResponse(d, m) = u
  BY DEF NWCPlayerUnequipItemResponse, Pic
<1>3. Fine(u, m)
  BY DEF Fine, Pic
<1> HIDE DEF m, d, u
<1>4. DoNetworkCommand(Pic(P, N, I, V, S, C, L, w), m) = u
  BY <1>1, <1>2, ReadsInRoom DEF d
<1>5. Accepts(Pic(P, N, I, V, S, C, L, w), <<m>>, u)
  BY <1>3, <1>4, AcceptsOne
<1> QED BY <1>5 DEF m, u

\* The installed item stays.
LEMMA TakesNoUnequip ==
  ASSUME NEW P, NEW N, NEW I, NEW V, NEW S, NEW C, NEW L, NEW w
  PROVE  Accepts(Pic(P, N, I, V, S, C, L, w),
                 <<[kind |-> "unequips", item |-> S, ok |-> FALSE]>>,
                 Pic(P, N, I, V, S, C, L, "done"))
<1> DEFINE m == [kind |-> "unequips", item |-> S, ok |-> FALSE]
           d == Pic(P, N, I, V, S, C, L, "done")
           u == Pic(P, N, I, V, S, C, L, "done")
<1>1. Handler(d, m) = NWCPlayerUnequipItemResponse(d, m)
  BY DEF Handler
<1>2. NWCPlayerUnequipItemResponse(d, m) = u
  BY DEF NWCPlayerUnequipItemResponse, Pic
<1>3. Fine(u, m)
  BY DEF Fine, Pic
<1> HIDE DEF m, d, u
<1>4. DoNetworkCommand(Pic(P, N, I, V, S, C, L, w), m) = u
  BY <1>1, <1>2, ReadsInRoom DEF d
<1>5. Accepts(Pic(P, N, I, V, S, C, L, w), <<m>>, u)
  BY <1>3, <1>4, AcceptsOne
<1> QED BY <1>5 DEF m, u

\* The stats.
LEMMA TakesStats ==
  ASSUME NEW P, NEW N, NEW I, NEW V, NEW S, NEW C, NEW L, NEW w,
         NEW c, ~ (c > MaxCPU(S))
  PROVE  Accepts(Pic(P, N, I, V, S, C, L, w),
                 <<[kind |-> "stats", cpu |-> c, max |-> MaxCPU(S)]>>,
                 Pic(P, N, I, V, S, c, L, "done"))
<1> DEFINE m == [kind |-> "stats", cpu |-> c, max |-> MaxCPU(S)]
           d == Pic(P, N, I, V, S, C, L, "done")
           u == Pic(P, N, I, V, S, c, L, "done")
<1>1. Handler(d, m) = NWCPlayerStatUpdateResponse(d, m)
  BY DEF Handler
<1>2. NWCPlayerStatUpdateResponse(d, m) = u
  BY DEF NWCPlayerStatUpdateResponse, Pic
<1>3. Fine(u, m)
  BY DEF Fine, Pic
<1> HIDE DEF m, d, u
<1>4. DoNetworkCommand(Pic(P, N, I, V, S, C, L, w), m) = u
  BY <1>1, <1>2, ReadsInRoom DEF d
<1>5. Accepts(Pic(P, N, I, V, S, C, L, w), <<m>>, u)
  BY <1>3, <1>4, AcceptsOne
<1> QED BY <1>5 DEF m, u

\* A level.
LEMMA TakesLevel ==
  ASSUME NEW P, NEW N, NEW I, NEW V, NEW S, NEW C, NEW L, NEW w,
         NEW gain
  PROVE  Accepts(Pic(P, N, I, V, S, C, L, w),
                 <<[kind |-> "level", gain |-> gain, level |-> L + gain]>>,
                 Pic(P, N, I, V, S, C, L + gain, "done"))
<1> DEFINE m == [kind |-> "level", gain |-> gain, level |-> L + gain]
           d == Pic(P, N, I, V, S, C, L, "done")
           u == Pic(P, N, I, V, S, C, L + gain, "done")
<1>1. Handler(d, m) = NWCPlayerLevelResponse(d, m)
  BY DEF Handler
<1>2. NWCPlayerLevelResponse(d, m) = u
  BY DEF NWCPlayerLevelResponse, Pic
<1>3. Fine(u, m)
  BY DEF Fine, Pic
<1> HIDE DEF m, d, u
<1>4. DoNetworkCommand(Pic(P, N, I, V, S, C, L, w), m) = u
  BY <1>1, <1>2, ReadsInRoom DEF d
<1>5. Accepts(Pic(P, N, I, V, S, C, L, w), <<m>>, u)
  BY <1>3, <1>4, AcceptsOne
<1> QED BY <1>5 DEF m, u

\* A script runs.
LEMMA TakesRuns ==
  ASSUME NEW P, NEW N, NEW I, NEW V, NEW S, NEW C, NEW L, NEW w,
         NEW c, ~ (c > C)
  PROVE  Accepts(Pic(P, N, I, V, S, C, L, w),
                 <<[kind |-> "runsScript", cpu |-> c]>>,
                 Pic(P, N, I, V, S, C - c, L, "done"))
<1> DEFINE m == [kind |-> "runsScript", cpu |-> c]
           d == Pic(P, N, I, V, S, C, L, "done")
           u == Pic(P, N, I, V, S, C - c, L, "done")
<1>1. Handler(d, m) = NWCPlayerRunsScriptResponse(d, m)
  BY DEF Handler
<1>2. NWCPlayerRunsScriptResponse(d, m) = u
  BY DEF NWCPlayerRunsScriptResponse, Pic
<1>3. Fine(u, m)
  BY DEF Fine, Pic
<1> HIDE DEF m, d, u
<1>4. DoNetworkCommand(Pic(P, N, I, V, S, C, L, w), m) = u
  BY <1>1, <1>2, ReadsInRoom DEF d
<1>5. Accepts(Pic(P, N, I, V, S, C, L, w), <<m>>, u)
  BY <1>3, <1>4, AcceptsOne
<1> QED BY <1>5 DEF m, u

\* An item is spent on something that is shown.
LEMMA TakesFinger ==
  ASSUME NEW P, NEW N, NEW I, NEW V, NEW S, NEW C, NEW L, NEW w,
         NEW x \in ToSet(P) \cup ToSet(N), NEW i \in ToSet(V)
  PROVE  Accepts(Pic(P, N, I, V, S, C, L, w),
                 <<[kind |-> "finger", who |-> x, item |-> i]>>,
                 Pic(P, N, I, Without(V, i), S, C, L, "done"))
<1> DEFINE m == [kind |-> "finger", who |-> x, item |-> i]
           d == Pic(P, N, I, V, S, C, L, "done")
           u == Pic(P, N, I, Without(V, i), S, C, L, "done")
<1>1. Handler(d, m) = NWCPlayerFingerResponse(d, m)
  BY DEF Handler
<1>2. NWCPlayerFingerResponse(d, m) = u
  BY DEF NWCPlayerFingerResponse, Pic
<1>3. Fine(u, m)
  BY DEF Fine, Pic
<1> HIDE DEF m, d, u
<1>4. DoNetworkCommand(Pic(P, N, I, V, S, C, L, w), m) = u
  BY <1>1, <1>2, ReadsInRoom DEF d
<1>5. Accepts(Pic(P, N, I, V, S, C, L, w), <<m>>, u)
  BY <1>3, <1>4, AcceptsOne
<1> QED BY <1>5 DEF m, u

\* The player's data, whatever was shown, and then the room.
LEMMA TakesDeath ==
  ASSUME NEW z, NEW V, NEW S, NEW C, NEW L
  PROVE  Accepts(z, <<[kind |-> "death", inventory |-> V, slot |-> S, cpu |-> C, level |-> L]>>,
                 Data(V, S, C, L))
<1> DEFINE m == [kind |-> "death", inventory |-> V, slot |-> S, cpu |-> C, level |-> L]
           u == Data(V, S, C, L)
<1>1. DoNetworkCommand(z, m) = u
  <2>1. ~ NeedsRoom(m)
    BY DEF NeedsRoom
  <2>2. \A y : Handler(y, m) = u
    BY DEF Handler, NWCPlayerDeathResponse, NoView, Data
  <2> HIDE DEF m, u
  <2> QED BY <2>1, <2>2 DEF DoNetworkCommand
<1>2. Fine(u, m)
  BY DEF Fine, Data
<1> HIDE DEF m, u
<1>3. Accepts(z, <<m>>, u)
  BY <1>1, <1>2, AcceptsOne
<1> QED BY <1>3 DEF m, u

LEMMA TakesEnterRoom ==
  ASSUME NEW V, NEW S, NEW C, NEW L, NEW P, NEW N, NEW I
  PROVE  Accepts(Data(V, S, C, L),
                 <<[kind |-> "enterRoom", players |-> P, npcs |-> N, items |-> I]>>,
                 Pic(P, N, I, V, S, C, L, "done"))
<1> DEFINE m == [kind |-> "enterRoom", players |-> P, npcs |-> N, items |-> I]
           v == Data(V, S, C, L)
           u == Pic(P, N, I, V, S, C, L, "done")
<1>1. DoNetworkCommand(v, m) = u
  BY DEF DoNetworkCommand, NeedsRoom, Handler, NWCPlayerEnterroomResponse, Pic, InRoom, Data
<1>2. Fine(u, m)
  BY DEF Fine, Pic
<1> HIDE DEF m, v, u
<1>3. Accepts(v, <<m>>, u)
  BY <1>1, <1>2, AcceptsOne
<1> QED BY <1>3 DEF m, v, u

\* A new room takes the place of the old one.
LEMMA TakesNewRoom ==
  ASSUME NEW P, NEW N, NEW I, NEW V, NEW S, NEW C, NEW L, NEW w, NEW Q, NEW O, NEW J
  PROVE  Accepts(Pic(P, N, I, V, S, C, L, w),
                 <<[kind |-> "enterRoom", players |-> Q, npcs |-> O, items |-> J]>>,
                 Pic(Q, O, J, V, S, C, L, "done"))
<1> DEFINE m == [kind |-> "enterRoom", players |-> Q, npcs |-> O, items |-> J]
           v == Pic(P, N, I, V, S, C, L, w)
           u == Pic(Q, O, J, V, S, C, L, "done")
<1>1. DoNetworkCommand(v, m) = u
  BY DEF DoNetworkCommand, NeedsRoom, Handler, NWCPlayerEnterroomResponse, Pic, InRoom
<1>2. Fine(u, m)
  BY DEF Fine, Pic
<1> HIDE DEF m, v, u
<1>3. Accepts(v, <<m>>, u)
  BY <1>1, <1>2, AcceptsOne
<1> QED BY <1>3 DEF m, v, u

-----------------------------------------------------------------------------
(* Items that fall into a room                                             *)

\* The messages turn the list of items that is shown, and nothing else, into the other.
Leads(I, X, J) ==
  \A P, N, V, S, C, L, w : \E z :
    Accepts(Pic(P, N, I, V, S, C, L, w), X, Pic(P, N, J, V, S, C, L, z))

LEMMA LeadsNone == ASSUME NEW I PROVE Leads(I, <<>>, I)
BY AcceptsNone DEF Leads

LEMMA LeadsMore ==
  ASSUME NEW I, NEW X, NEW J, NEW Y, NEW K, Leads(I, X, J), Leads(J, Y, K)
  PROVE  Leads(I, X \o Y, K)
<1> SUFFICES ASSUME NEW P, NEW N, NEW V, NEW S, NEW C, NEW L, NEW w
             PROVE  \E z : Accepts(Pic(P, N, I, V, S, C, L, w), X \o Y,
                        Pic(P, N, K, V, S, C, L, z))
  BY DEF Leads
<1>1. PICK y : Accepts(Pic(P, N, I, V, S, C, L, w), X, Pic(P, N, J, V, S, C, L, y))
  BY DEF Leads
<1>2. PICK z : Accepts(Pic(P, N, J, V, S, C, L, y), Y, Pic(P, N, K, V, S, C, L, z))
  BY DEF Leads
<1>3. Accepts(Pic(P, N, I, V, S, C, L, w), X \o Y, Pic(P, N, K, V, S, C, L, z))
  BY ONLY <1>1, <1>2, AcceptsMore
<1> QED BY <1>3

LEMMA LeadsToRoom == ASSUME NEW I, NEW i PROVE Leads(I, With("itemToRoom", i), Push(I, i))
<1> SUFFICES ASSUME NEW P, NEW N, NEW V, NEW S, NEW C, NEW L, NEW w
             PROVE  \E z : Accepts(Pic(P, N, I, V, S, C, L, w), With("itemToRoom", i),
                                   Pic(P, N, Push(I, i), V, S, C, L, z))
  BY DEF Leads
<1>1. Accepts(Pic(P, N, I, V, S, C, L, w), With("itemToRoom", i),
              Pic(P, N, Push(I, i), V, S, C, L, "done"))
  BY TakesItemToRoom DEF With
<1> QED BY <1>1

LEMMA LeadsDeleted == ASSUME NEW I, NEW i PROVE Leads(I, With("itemDeleted", i), Without(I, i))
<1> SUFFICES ASSUME NEW P, NEW N, NEW V, NEW S, NEW C, NEW L, NEW w
             PROVE  \E z : Accepts(Pic(P, N, I, V, S, C, L, w), With("itemDeleted", i),
                                   Pic(P, N, Without(I, i), V, S, C, L, z))
  BY DEF Leads
<1>1. Accepts(Pic(P, N, I, V, S, C, L, w), With("itemDeleted", i),
              Pic(P, N, Without(I, i), V, S, C, L, "done"))
  BY TakesItemDeleted DEF With
<1> QED BY <1>1

Room(I, T) == [items |-> I, told |-> T]

\* K is what is left of the items I when there is place for one more, as X tells.
Makes(I, X, K) ==
  K \in Seq(Items) /\ Distinct(K) /\ ToSet(K) \subseteq ToSet(I) /\ Listing(X) /\ Leads(I, X, K)

LEMMA AddsItem ==
  ASSUME NEW I \in Seq(Items), Distinct(I), NEW i, NEW T, Listing(T)
  PROVE  \E X, K : Makes(I, X, K) /\ AddItemToRoom(Room(I, T), i) = Room(Push(K, i), T \o X)
<1>1. CASE Len(I) < MAX_ITEMS_IN_ROOM
  <2>1. AddItemToRoom(Room(I, T), i) = Room(Push(I, i), T)
    BY <1>1 DEF AddItemToRoom, Room
  <2>2. T \o <<>> = T
    BY DEF Listing
  <2>3. Makes(I, <<>>, I)
    BY LeadsNone, Listings DEF Makes
  <2> QED BY <2>1, <2>2, <2>3
<1>2. CASE ~ (Len(I) < MAX_ITEMS_IN_ROOM)
  <2>1. I # <<>>
    BY <1>2, MirrorAssumption
  <2> DEFINE X == With("itemDeleted", Last(I))
  <2>2. Front(I) = Without(I, Last(I))
    BY <2>1, WithoutLast
  <2>3. AddItemToRoom(Room(I, T), i) = Room(Push(Front(I), i), T \o X)
    BY <1>2 DEF AddItemToRoom, Room
  <2>4. Makes(I, X, Without(I, Last(I)))
    <3>1. Leads(I, X, Without(I, Last(I)))
      BY LeadsDeleted
    <3>2. Listing(X)
      BY Listings DEF With
    <3> HIDE DEF X
    <3> QED BY <3>1, <3>2, WithoutIs DEF Makes
  <2> QED BY <2>2, <2>3, <2>4
<1> QED BY <1>1, <1>2

\* The items I became those of the room, and its messages tell so.
DropsTo(I, D, room) ==
  \E J, T : /\ room = Room(J, T)
            /\ J \in Seq(Items) /\ Distinct(J) /\ ToSet(J) \subseteq ToSet(I) \cup D
            /\ Listing(T) /\ Leads(I, T, J)

LEMMA DropsOne ==
  ASSUME NEW I, NEW D, NEW room, DropsTo(I, D, room),
         NEW i \in Items, i \notin ToSet(I), i \notin D
  PROVE  DropsTo(I, D \cup {i}, NWCDropItemToRoom(room, i))
<1>1. PICK J, T : /\ room = Room(J, T)
                  /\ J \in Seq(Items) /\ Distinct(J) /\ ToSet(J) \subseteq ToSet(I) \cup D
                  /\ Listing(T) /\ Leads(I, T, J)
  BY DEF DropsTo
<1>2. PICK X, K : Makes(J, X, K) /\ AddItemToRoom(Room(J, T), i) = Room(Push(K, i), T \o X)
  BY <1>1, AddsItem
<1> DEFINE U == T \o X
           M == Push(K, i)
           Y == With("itemToRoom", i)
<1>3. NWCDropItemToRoom(room, i) = [Room(M, U) EXCEPT !.told = @ \o Y]
  BY <1>1, <1>2 DEF NWCDropItemToRoom
<1>4. M \in Seq(Items) /\ ToSet(M) = ToSet(K) \cup {i} /\ Distinct(M)
  BY <1>1, <1>2, OfPush DEF Makes
<1>5. Listing(U) /\ Listing(Y)
  BY <1>1, <1>2, Listings DEF Makes, With
<1>6. Leads(I, U, K)
  BY <1>1, <1>2, LeadsMore DEF Makes
<1>7. Leads(K, Y, M)
  BY LeadsToRoom
<1>8. ToSet(M) \subseteq ToSet(I) \cup (D \cup {i})
  BY <1>1, <1>2, <1>4 DEF Makes
<1> HIDE DEF U, M, Y
<1>9. [Room(M, U) EXCEPT !.told = @ \o Y] = Room(M, U \o Y)
  <2>1. Room(M, U).told = U
    BY DEF Room
  <2>2. \A Z : [Room(M, U) EXCEPT !.told = Z] = Room(M, Z)
    BY DEF Room
  <2> QED BY <2>1, <2>2
<1>10. Leads(I, U \o Y, M)
  BY <1>6, <1>7, LeadsMore
<1>11. Listing(U \o Y)
  BY <1>5, Listings
<1> QED BY <1>3, <1>4, <1>8, <1>9, <1>10, <1>11 DEF DropsTo

\* The loop of Dropped.
Drops(g, I, s, n) ==
  /\ g = [k \in 0 .. n |-> g[k]]
  /\ g[0] = Room(I, <<>>)
  /\ \A k \in 1 .. n : g[k] = NWCDropItemToRoom(g[k - 1], s[k])

LEMMA DropsExists ==
  ASSUME NEW I, NEW s, NEW n \in Nat
  PROVE  \E g : Drops(g, I, s, n)
<1> DEFINE S == {j \in 0 .. n : \E g : Drops(g, I, s, j)}
<1>1. 0 \in S
  <2>1. Drops([k \in 0 .. 0 |-> Room(I, <<>>)], I, s, 0)
    BY DEF Drops
  <2> QED BY <2>1
<1>2. \A j \in 1 .. n : j - 1 \in S => j \in S
  <2> SUFFICES ASSUME NEW j \in 1 .. n, NEW g, Drops(g, I, s, j - 1)
               PROVE \E h : Drops(h, I, s, j)
    OBVIOUS
  <2> DEFINE h == [k \in 0 .. j |-> IF k = j THEN NWCDropItemToRoom(g[j - 1], s[j]) ELSE g[k]]
  <2>1. h[0] = Room(I, <<>>)
    BY DEF Drops
  <2>2. \A k \in 1 .. j : h[k] = NWCDropItemToRoom(h[k - 1], s[k])
    <3> SUFFICES ASSUME NEW k \in 1 .. j PROVE h[k] = NWCDropItemToRoom(h[k - 1], s[k])
      OBVIOUS
    <3>1. CASE k = j
      BY <3>1
    <3>2. CASE k # j
      BY <3>2 DEF Drops
    <3> QED BY <3>1, <3>2
  <2>3. h = [k \in 0 .. j |-> h[k]]
    OBVIOUS
  <2> HIDE DEF h
  <2> QED BY <2>1, <2>2, <2>3 DEF Drops
<1> HIDE DEF S
<1>3. 0 .. n \subseteq S
  BY <1>1, <1>2, LoopInduction
<1>4. n \in S
  BY <1>3
<1> QED BY <1>4 DEF S

LEMMA DroppedIs ==
  ASSUME NEW A, NEW s \in Seq(A), NEW I
  PROVE  \E g : Drops(g, I, s, Len(s)) /\ Dropped(I, s) = g[Len(s)]
<1>0. PICK n \in Nat : n = Len(s)
  OBVIOUS
<1>1. PICK h : Drops(h, I, s, n)
  BY DropsExists
<1> DEFINE Pass(f, k) == IF k = 0 THEN Room(I, <<>>) ELSE NWCDropItemToRoom(f[k - 1], s[k])
           Step(f) == [k \in 0 .. n |-> Pass(f, k)]
<1>2. h = Step(h)
  <2>1. \A k \in 0 .. n : h[k] = Pass(h, k)
    <3>1. \A k \in 1 .. n : h[k] = NWCDropItemToRoom(h[k - 1], s[k])
      BY <1>1 DEF Drops
    <3>2. h[0] = Room(I, <<>>)
      BY <1>1 DEF Drops
    <3> QED BY <3>1, <3>2
  <2>2. h = [k \in 0 .. n |-> h[k]]
    BY <1>1 DEF Drops
  <2> HIDE DEF Pass
  <2>3. [k \in 0 .. n |-> h[k]] = Step(h)
    BY <2>1
  <2> QED BY <2>2, <2>3
<1> DEFINE g == CHOOSE f : f = Step(f)
<1>3. g = Step(g)
  <2> HIDE DEF Step
  <2> QED BY <1>2
<1>4. Dropped(I, s) = g[n]
  BY <1>0 DEF Dropped, Room
<1> HIDE DEF g
<1>5. \A k \in 0 .. n : g[k] = Pass(g, k)
  <2> HIDE DEF Pass
  <2> QED BY <1>3
<1>6. g[0] = Room(I, <<>>) /\ \A k \in 1 .. n : g[k] = NWCDropItemToRoom(g[k - 1], s[k])
  BY <1>5
<1>7. g = [k \in 0 .. n |-> g[k]]
  <2> HIDE DEF Pass
  <2> QED BY <1>3
<1> HIDE DEF Step
<1> QED BY <1>0, <1>4, <1>6, <1>7 DEF Drops

\* A number of items falls into a room that has none of them.
LEMMA DropsAll ==
  ASSUME NEW I \in Seq(Items), Distinct(I), NEW s \in Seq(Items), Distinct(s),
         ToSet(I) \cap ToSet(s) = {}
  PROVE  DropsTo(I, ToSet(s), Dropped(I, s))
<1>1. PICK n \in Nat : n = Len(s)
  OBVIOUS
<1>2. PICK g : Drops(g, I, s, n) /\ Dropped(I, s) = g[n]
  BY <1>1, DroppedIs
<1> DEFINE D(k) == {s[j] : j \in 1 .. k}
           S == {k \in 0 .. n : DropsTo(I, D(k), g[k])}
<1>3. 0 \in S
  <2>1. g[0] = Room(I, <<>>)
    BY <1>2 DEF Drops
  <2>2. DropsTo(I, D(0), Room(I, <<>>))
    <3> HIDE DEF D
    <3> QED BY LeadsNone, Listings DEF DropsTo
  <2> QED BY <2>1, <2>2
<1>4. \A k \in 1 .. n : k - 1 \in S => k \in S
  <2> SUFFICES ASSUME NEW k \in 1 .. n, DropsTo(I, D(k - 1), g[k - 1])
               PROVE DropsTo(I, D(k), g[k])
    <3> HIDE DEF D
    <3> QED OBVIOUS
  <2>1. s[k] \in Items /\ s[k] \in ToSet(s) /\ s[k] \notin ToSet(I)
    <3>1. DOMAIN s = 1 .. n
      BY <1>1
    <3>2. s[k] \in Items
      BY <3>1
    <3>3. s[k] \in ToSet(s)
      BY <3>1 DEF ToSet
    <3> QED BY <3>2, <3>3
  <2>2. s[k] \notin D(k - 1)
    BY <1>1 DEF Distinct
  <2>3. D(k - 1) \cup {s[k]} = D(k)
    <3>1. \A j \in 1 .. k : j \in 1 .. k - 1 \/ j = k
      OBVIOUS
    <3>2. \A j \in 1 .. k - 1 : j \in 1 .. k
      OBVIOUS
    <3> QED BY <3>1, <3>2
  <2>4. g[k] = NWCDropItemToRoom(g[k - 1], s[k])
    BY <1>2 DEF Drops
  <2> HIDE DEF D
  <2>5. DropsTo(I, D(k - 1) \cup {s[k]}, NWCDropItemToRoom(g[k - 1], s[k]))
    BY <2>1, <2>2, DropsOne
  <2> QED BY <2>3, <2>4, <2>5
<1> HIDE DEF S
<1>5. 0 .. n \subseteq S
  BY <1>3, <1>4, LoopInduction
<1>6. n \in S
  BY <1>5
<1>7. D(n) = ToSet(s)
  BY <1>1 DEF ToSet
<1>8. DropsTo(I, D(n), g[n])
  <2> HIDE DEF D
  <2> QED BY <1>6 DEF S
<1> QED BY <1>2, <1>7, <1>8

-----------------------------------------------------------------------------
(* The players that are shown                                              *)

\* P shows all of the list that have a session, in their order, and nobody else.
Same(P, list, C) ==
  /\ P \in Seq(Players) /\ list \in Seq(Players)
  /\ Only(P, C) = Only(list, C)
  /\ ToSet(P) \subseteq ToSet(list)

LEMMA SameWhole == ASSUME NEW list \in Seq(Players), NEW C PROVE Same(list, list, C)
BY DEF Same

LEMMA SameShows ==
  ASSUME NEW P, NEW list, NEW C, Same(P, list, C), NEW p \in C, p \in ToSet(list)
  PROVE  p \in ToSet(P)
<1>1. ToSet(Only(P, C)) = ToSet(P) \cap C
  BY OnlyTyped DEF Same
<1>2. ToSet(Only(list, C)) = ToSet(list) \cap C
  BY OnlyTyped DEF Same
<1> QED BY <1>1, <1>2 DEF Same

LEMMA SamePush ==
  ASSUME NEW P, NEW list, NEW C, Same(P, list, C), NEW p \in Players
  PROVE  Same(Push(P, p), Push(list, p), C)
<1>1. Push(P, p) \in Seq(Players) /\ ToSet(Push(P, p)) = ToSet(P) \cup {p}
  BY OfPush DEF Same
<1>2. Push(list, p) \in Seq(Players) /\ ToSet(Push(list, p)) = ToSet(list) \cup {p}
  BY OfPush DEF Same
<1>3. Only(Push(P, p), C) = Only(Push(list, p), C)
  BY OnlyPush DEF Same
<1> QED BY <1>1, <1>2, <1>3 DEF Same

LEMMA SameWithout ==
  ASSUME NEW P, NEW list, NEW C, Same(P, list, C), NEW p
  PROVE  Same(Without(P, p), Without(list, p), C)
<1>1. /\ Without(P, p) \in Seq(Players) /\ Without(list, p) \in Seq(Players)
      /\ ToSet(Without(P, p)) = ToSet(P) \ {p} /\ ToSet(Without(list, p)) = ToSet(list) \ {p}
  BY WithoutIs DEF Same
<1>2. Only(Without(P, p), C) = Only(Without(list, p), C)
  BY OnlyWithout DEF Same
<1> QED BY <1>1, <1>2 DEF Same

\* One without a session comes, and the client is not told.
LEMMA SameHidden ==
  ASSUME NEW P, NEW list, NEW C, Same(P, list, C), NEW p \in Players, p \notin C
  PROVE  Same(P, Push(list, p), C)
<1>1. Push(list, p) \in Seq(Players) /\ ToSet(Push(list, p)) = ToSet(list) \cup {p}
  BY OfPush DEF Same
<1>2. Only(Push(list, p), C) = Only(list, C)
  BY OnlyPush DEF Same
<1> QED BY <1>1, <1>2 DEF Same

\* Sessions begin elsewhere, and end anywhere.
LEMMA SameMore ==
  ASSUME NEW P, NEW list, NEW C, Same(P, list, C), NEW p, p \notin ToSet(list)
  PROVE  Same(P, list, C \cup {p})
<1>1. ToSet(P) \cap (C \cup {p}) = ToSet(P) \cap C /\ ToSet(list) \cap (C \cup {p}) = ToSet(list) \cap C
  BY DEF Same
<1>2. Only(P, C \cup {p}) = Only(P, C)
  BY <1>1, OnlySame DEF Same
<1>3. Only(list, C \cup {p}) = Only(list, C)
  BY <1>1, OnlySame DEF Same
<1> QED BY <1>2, <1>3 DEF Same

LEMMA SameLess ==
  ASSUME NEW P, NEW list, NEW C, Same(P, list, C), NEW p
  PROVE  Same(P, list, C \ {p})
<1> DEFINE D == C \ {p}
<1>1. C \cap D = D
  OBVIOUS
<1> HIDE DEF D
<1>2. Only(Only(P, C), D) = Only(P, D)
  BY <1>1, OnlyOnly DEF Same
<1>3. Only(Only(list, C), D) = Only(list, D)
  BY <1>1, OnlyOnly DEF Same
<1>4. Same(P, list, D)
  BY <1>2, <1>3 DEF Same
<1> QED BY <1>4 DEF D

-----------------------------------------------------------------------------
(* What the client will show                                               *)

\* After the messages s the client shows the list of players and the rest as it is.
Tracks(v, s, list, K, N, I, V, S, C, L) ==
  \E P, w : Same(P, list, K) /\ Accepts(v, s, Pic(P, N, I, V, S, C, L, w))

LEMMA Assoc ==
  ASSUME NEW a, NEW b, NEW c, Listing(a), Listing(b), Listing(c)
  PROVE  a \o (b \o c) = (a \o b) \o c
<1>1. PICK A : a \in Seq(A)
  BY DEF Listing
<1>2. PICK B : b \in Seq(B)
  BY DEF Listing
<1>3. PICK C : c \in Seq(C)
  BY DEF Listing
<1> DEFINE D == A \cup B \cup C
<1>4. a \in Seq(D) /\ b \in Seq(D) /\ c \in Seq(D)
  BY <1>1, <1>2, <1>3, SeqMonotonic
<1> HIDE DEF D
<1> QED BY <1>4

LEMMA Nothing == ASSUME NEW a, Listing(a) PROVE a \o <<>> = a /\ <<>> \o a = a
BY DEF Listing

\* Somebody without a session comes.
LEMMA TracksHidden ==
  ASSUME NEW v, NEW s, NEW list, NEW K, NEW N, NEW I, NEW V, NEW S, NEW C, NEW L,
         Tracks(v, s, list, K, N, I, V, S, C, L), NEW p \in Players, p \notin K
  PROVE  Tracks(v, s, Push(list, p), K, N, I, V, S, C, L)
<1>1. PICK P, w : Same(P, list, K) /\ Accepts(v, s, Pic(P, N, I, V, S, C, L, w))
  BY DEF Tracks
<1>2. Same(P, Push(list, p), K)
  BY <1>1, SameHidden
<1> QED BY <1>1, <1>2 DEF Tracks

\* A session begins elsewhere.
LEMMA TracksMore ==
  ASSUME NEW v, NEW s, NEW list, NEW K, NEW N, NEW I, NEW V, NEW S, NEW C, NEW L,
         Tracks(v, s, list, K, N, I, V, S, C, L), NEW p, p \notin ToSet(list)
  PROVE  Tracks(v, s, list, K \cup {p}, N, I, V, S, C, L)
<1>1. PICK P, w : Same(P, list, K) /\ Accepts(v, s, Pic(P, N, I, V, S, C, L, w))
  BY DEF Tracks
<1>2. Same(P, list, K \cup {p})
  BY <1>1, SameMore
<1> QED BY <1>1, <1>2 DEF Tracks

\* A session ends.
LEMMA TracksLess ==
  ASSUME NEW v, NEW s, NEW list, NEW K, NEW N, NEW I, NEW V, NEW S, NEW C, NEW L,
         Tracks(v, s, list, K, N, I, V, S, C, L), NEW p
  PROVE  Tracks(v, s, list, K \ {p}, N, I, V, S, C, L)
<1>1. PICK P, w : Same(P, list, K) /\ Accepts(v, s, Pic(P, N, I, V, S, C, L, w))
  BY DEF Tracks
<1>2. Same(P, list, K \ {p})
  BY <1>1, SameLess
<1> QED BY <1>1, <1>2 DEF Tracks

\* Another player comes.
LEMMA TracksArrives ==
  ASSUME NEW v, NEW s, NEW list, NEW K, NEW N, NEW I, NEW V, NEW S, NEW C, NEW L,
         Tracks(v, s, list, K, N, I, V, S, C, L),
         NEW p \in Players, p # Me, p \notin ToSet(list)
  PROVE  Tracks(v, s \o Arrives(p), Push(list, p), K, N, I, V, S, C, L)
<1>1. PICK P, w : Same(P, list, K) /\ Accepts(v, s, Pic(P, N, I, V, S, C, L, w))
  BY DEF Tracks
<1>2. Same(Push(P, p), Push(list, p), K)
  BY <1>1, SamePush
<1>3. Accepts(Pic(P, N, I, V, S, C, L, w), Arrives(p),
              Pic(Push(P, p), N, I, V, S, C, L, "done"))
  BY <1>1, TakesArrives DEF Arrives, Same
<1>4. Accepts(v, s \o Arrives(p), Pic(Push(P, p), N, I, V, S, C, L, "done"))
  BY ONLY <1>1, <1>3, AcceptsMore
<1> QED BY <1>2, <1>4 DEF Tracks

\* One's own arrival.
LEMMA TracksOwnArrival ==
  ASSUME NEW v, NEW s, NEW list, NEW K, NEW N, NEW I, NEW V, NEW S, NEW C, NEW L,
         Tracks(v, s, list, K, N, I, V, S, C, L)
  PROVE  Tracks(v, s \o Arrives(Me), list, K, N, I, V, S, C, L)
<1>1. PICK P, w : Same(P, list, K) /\ Accepts(v, s, Pic(P, N, I, V, S, C, L, w))
  BY DEF Tracks
<1>2. Same(P, list, K)
  BY <1>1
<1>3. Accepts(Pic(P, N, I, V, S, C, L, w), Arrives(Me),
              Pic(P, N, I, V, S, C, L, "done"))
  BY TakesOwnArrival DEF Arrives
<1>4. Accepts(v, s \o Arrives(Me), Pic(P, N, I, V, S, C, L, "done"))
  BY ONLY <1>1, <1>3, AcceptsMore
<1> QED BY <1>2, <1>4 DEF Tracks

\* Another player leaves.
LEMMA TracksLeaves ==
  ASSUME NEW v, NEW s, NEW list, NEW K, NEW N, NEW I, NEW V, NEW S, NEW C, NEW L,
         Tracks(v, s, list, K, N, I, V, S, C, L),
         NEW p, NEW how, p # Me
  PROVE  Tracks(v, s \o Leaves(p, how), Without(list, p), K, N, I, V, S, C, L)
<1>1. PICK P, w : Same(P, list, K) /\ Accepts(v, s, Pic(P, N, I, V, S, C, L, w))
  BY DEF Tracks
<1>2. Same(Without(P, p), Without(list, p), K)
  BY <1>1, SameWithout
<1>3. Accepts(Pic(P, N, I, V, S, C, L, w), Leaves(p, how),
              Pic(Without(P, p), N, I, V, S, C, L, "done"))
  BY TakesLeaves DEF Leaves
<1>4. Accepts(v, s \o Leaves(p, how), Pic(Without(P, p), N, I, V, S, C, L, "done"))
  BY ONLY <1>1, <1>3, AcceptsMore
<1> QED BY <1>2, <1>4 DEF Tracks

\* Somebody with a session speaks.
LEMMA TracksSays ==
  ASSUME NEW v, NEW s, NEW list, NEW K, NEW N, NEW I, NEW V, NEW S, NEW C, NEW L,
         Tracks(v, s, list, K, N, I, V, S, C, L),
         NEW p \in K, p \in ToSet(list)
  PROVE  Tracks(v, s \o <<[kind |-> "says", who |-> p]>>, list, K, N, I, V, S, C, L)
<1>1. PICK P, w : Same(P, list, K) /\ Accepts(v, s, Pic(P, N, I, V, S, C, L, w))
  BY DEF Tracks
<1>2. Same(P, list, K)
  BY <1>1
<1>3. Accepts(Pic(P, N, I, V, S, C, L, w), <<[kind |-> "says", who |-> p]>>,
              Pic(P, N, I, V, S, C, L, "done"))
  BY <1>1, SameShows, TakesSays
<1>4. Accepts(v, s \o <<[kind |-> "says", who |-> p]>>, Pic(P, N, I, V, S, C, L, "done"))
  BY ONLY <1>1, <1>3, AcceptsMore
<1> QED BY <1>2, <1>4 DEF Tracks

\* One's own exit.
LEMMA TracksExit ==
  ASSUME NEW v, NEW s, NEW list, NEW K, NEW N, NEW I, NEW V, NEW S, NEW C, NEW L,
         Tracks(v, s, list, K, N, I, V, S, C, L),
         ~ (MoveCPU(MaxCPU(S)) > C)
  PROVE  Tracks(v, s \o Leaves(Me, "exit"), list, K, N, I, V, S, C - MoveCPU(MaxCPU(S)), L)
<1>1. PICK P, w : Same(P, list, K) /\ Accepts(v, s, Pic(P, N, I, V, S, C, L, w))
  BY DEF Tracks
<1>2. Same(P, list, K)
  BY <1>1
<1>3. Accepts(Pic(P, N, I, V, S, C, L, w), Leaves(Me, "exit"),
              Pic(P, N, I, V, S, C - MoveCPU(MaxCPU(S)), L, "done"))
  BY TakesExit DEF Leaves
<1>4. Accepts(v, s \o Leaves(Me, "exit"), Pic(P, N, I, V, S, C - MoveCPU(MaxCPU(S)), L, "done"))
  BY ONLY <1>1, <1>3, AcceptsMore
<1> QED BY <1>2, <1>4 DEF Tracks

\* One's own flight.
LEMMA TracksFlight ==
  ASSUME NEW v, NEW s, NEW list, NEW K, NEW N, NEW I, NEW V, NEW S, NEW C, NEW L,
         Tracks(v, s, list, K, N, I, V, S, C, L)
  PROVE  Tracks(v, s \o Leaves(Me, "flee"), list, K, N, I, V, S, 0, L)
<1>1. PICK P, w : Same(P, list, K) /\ Accepts(v, s, Pic(P, N, I, V, S, C, L, w))
  BY DEF Tracks
<1>2. Same(P, list, K)
  BY <1>1
<1>3. Accepts(Pic(P, N, I, V, S, C, L, w), Leaves(Me, "flee"),
              Pic(P, N, I, V, S, 0, L, "done"))
  BY TakesFlight DEF Leaves
<1>4. Accepts(v, s \o Leaves(Me, "flee"), Pic(P, N, I, V, S, 0, L, "done"))
  BY ONLY <1>1, <1>3, AcceptsMore
<1> QED BY <1>2, <1>4 DEF Tracks

\* A program comes.
LEMMA TracksNPCArrives ==
  ASSUME NEW v, NEW s, NEW list, NEW K, NEW N, NEW I, NEW V, NEW S, NEW C, NEW L,
         Tracks(v, s, list, K, N, I, V, S, C, L),
         NEW n, n \notin ToSet(N)
  PROVE  Tracks(v, s \o <<[kind |-> "npcArrives", who |-> n]>>, list, K, Push(N, n), I, V, S, C,
             L)
<1>1. PICK P, w : Same(P, list, K) /\ Accepts(v, s, Pic(P, N, I, V, S, C, L, w))
  BY DEF Tracks
<1>2. Same(P, list, K)
  BY <1>1
<1>3. Accepts(Pic(P, N, I, V, S, C, L, w), <<[kind |-> "npcArrives", who |-> n]>>,
              Pic(P, Push(N, n), I, V, S, C, L, "done"))
  BY TakesNPCArrives
<1>4. Accepts(v, s \o <<[kind |-> "npcArrives", who |-> n]>>,
          Pic(P, Push(N, n), I, V, S, C, L, "done"))
  BY ONLY <1>1, <1>3, AcceptsMore
<1> QED BY <1>2, <1>4 DEF Tracks

\* A program leaves.
LEMMA TracksNPCLeaves ==
  ASSUME NEW v, NEW s, NEW list, NEW K, NEW N, NEW I, NEW V, NEW S, NEW C, NEW L,
         Tracks(v, s, list, K, N, I, V, S, C, L),
         NEW n, n \in ToSet(N)
  PROVE  Tracks(v, s \o <<[kind |-> "npcLeaves", who |-> n]>>, list, K, Without(N, n), I, V, S,
             C, L)
<1>1. PICK P, w : Same(P, list, K) /\ Accepts(v, s, Pic(P, N, I, V, S, C, L, w))
  BY DEF Tracks
<1>2. Same(P, list, K)
  BY <1>1
<1>3. Accepts(Pic(P, N, I, V, S, C, L, w), <<[kind |-> "npcLeaves", who |-> n]>>,
              Pic(P, Without(N, n), I, V, S, C, L, "done"))
  BY TakesNPCLeaves
<1>4. Accepts(v, s \o <<[kind |-> "npcLeaves", who |-> n]>>,
          Pic(P, Without(N, n), I, V, S, C, L, "done"))
  BY ONLY <1>1, <1>3, AcceptsMore
<1> QED BY <1>2, <1>4 DEF Tracks

\* A program dies.
LEMMA TracksNPCKilled ==
  ASSUME NEW v, NEW s, NEW list, NEW K, NEW N, NEW I, NEW V, NEW S, NEW C, NEW L,
         Tracks(v, s, list, K, N, I, V, S, C, L),
         NEW n, n \notin ToSet(list), n \in ToSet(N)
  PROVE  Tracks(v, s \o Killed(n), list, K, Without(N, n), I, V, S, C, L)
<1>1. PICK P, w : Same(P, list, K) /\ Accepts(v, s, Pic(P, N, I, V, S, C, L, w))
  BY DEF Tracks
<1>2. Same(P, list, K)
  BY <1>1
<1>3. Accepts(Pic(P, N, I, V, S, C, L, w), Killed(n),
              Pic(P, Without(N, n), I, V, S, C, L, "done"))
  BY <1>1, TakesNPCKill DEF Killed, Same
<1>4. Accepts(v, s \o Killed(n), Pic(P, Without(N, n), I, V, S, C, L, "done"))
  BY ONLY <1>1, <1>3, AcceptsMore
<1> QED BY <1>2, <1>4 DEF Tracks

\* One's own get.
LEMMA TracksGets ==
  ASSUME NEW v, NEW s, NEW list, NEW K, NEW N, NEW I, NEW V, NEW S, NEW C, NEW L,
         Tracks(v, s, list, K, N, I, V, S, C, L),
         NEW i \in ToSet(I), ~ (Len(V) + 1 > MaxCarry)
  PROVE  Tracks(v, s \o With("getsItem", i), list, K, N, Without(I, i), Push(V, i), S, C, L)
<1>1. PICK P, w : Same(P, list, K) /\ Accepts(v, s, Pic(P, N, I, V, S, C, L, w))
  BY DEF Tracks
<1>2. Same(P, list, K)
  BY <1>1
<1>3. Accepts(Pic(P, N, I, V, S, C, L, w), With("getsItem", i),
              Pic(P, N, Without(I, i), Push(V, i), S, C, L, "done"))
  BY TakesGetsItem DEF With
<1>4. Accepts(v, s \o With("getsItem", i), Pic(P, N, Without(I, i), Push(V, i), S, C, L, "done"))
  BY ONLY <1>1, <1>3, AcceptsMore
<1> QED BY <1>2, <1>4 DEF Tracks

\* The get of another player with a session.
LEMMA TracksOtherGets ==
  ASSUME NEW v, NEW s, NEW list, NEW K, NEW N, NEW I, NEW V, NEW S, NEW C, NEW L,
         Tracks(v, s, list, K, N, I, V, S, C, L),
         NEW p \in K, p \in ToSet(list), NEW i \in ToSet(I)
  PROVE  Tracks(v, s \o By("otherGetsItem", p, i), list, K, N, Without(I, i), V, S, C, L)
<1>1. PICK P, w : Same(P, list, K) /\ Accepts(v, s, Pic(P, N, I, V, S, C, L, w))
  BY DEF Tracks
<1>2. Same(P, list, K)
  BY <1>1
<1>3. Accepts(Pic(P, N, I, V, S, C, L, w), By("otherGetsItem", p, i),
              Pic(P, N, Without(I, i), V, S, C, L, "done"))
  BY <1>1, SameShows, TakesOtherGetsItem DEF By
<1>4. Accepts(v, s \o By("otherGetsItem", p, i), Pic(P, N, Without(I, i), V, S, C, L, "done"))
  BY ONLY <1>1, <1>3, AcceptsMore
<1> QED BY <1>2, <1>4 DEF Tracks

\* One's own drop.
LEMMA TracksDrops ==
  ASSUME NEW v, NEW s, NEW list, NEW K, NEW N, NEW I, NEW V, NEW S, NEW C, NEW L,
         Tracks(v, s, list, K, N, I, V, S, C, L),
         NEW i \in ToSet(V)
  PROVE  Tracks(v, s \o With("dropsItem", i), list, K, N, Push(I, i), Without(V, i), S, C, L)
<1>1. PICK P, w : Same(P, list, K) /\ Accepts(v, s, Pic(P, N, I, V, S, C, L, w))
  BY DEF Tracks
<1>2. Same(P, list, K)
  BY <1>1
<1>3. Accepts(Pic(P, N, I, V, S, C, L, w), With("dropsItem", i),
              Pic(P, N, Push(I, i), Without(V, i), S, C, L, "done"))
  BY TakesDropsItem DEF With
<1>4. Accepts(v, s \o With("dropsItem", i), Pic(P, N, Push(I, i), Without(V, i), S, C, L, "done"))
  BY ONLY <1>1, <1>3, AcceptsMore
<1> QED BY <1>2, <1>4 DEF Tracks

\* The drop of another player with a session.
LEMMA TracksOtherDrops ==
  ASSUME NEW v, NEW s, NEW list, NEW K, NEW N, NEW I, NEW V, NEW S, NEW C, NEW L,
         Tracks(v, s, list, K, N, I, V, S, C, L),
         NEW p \in K, p \in ToSet(list), NEW i
  PROVE  Tracks(v, s \o By("otherDropsItem", p, i), list, K, N, Push(I, i), V, S, C, L)
<1>1. PICK P, w : Same(P, list, K) /\ Accepts(v, s, Pic(P, N, I, V, S, C, L, w))
  BY DEF Tracks
<1>2. Same(P, list, K)
  BY <1>1
<1>3. Accepts(Pic(P, N, I, V, S, C, L, w), By("otherDropsItem", p, i),
              Pic(P, N, Push(I, i), V, S, C, L, "done"))
  BY <1>1, SameShows, TakesOtherDropsItem DEF By
<1>4. Accepts(v, s \o By("otherDropsItem", p, i), Pic(P, N, Push(I, i), V, S, C, L, "done"))
  BY ONLY <1>1, <1>3, AcceptsMore
<1> QED BY <1>2, <1>4 DEF Tracks

\* An item of the room is deleted.
LEMMA TracksDeleted ==
  ASSUME NEW v, NEW s, NEW list, NEW K, NEW N, NEW I, NEW V, NEW S, NEW C, NEW L,
         Tracks(v, s, list, K, N, I, V, S, C, L),
         NEW i
  PROVE  Tracks(v, s \o With("itemDeleted", i), list, K, N, Without(I, i), V, S, C, L)
<1>1. PICK P, w : Same(P, list, K) /\ Accepts(v, s, Pic(P, N, I, V, S, C, L, w))
  BY DEF Tracks
<1>2. Same(P, list, K)
  BY <1>1
<1>3. Accepts(Pic(P, N, I, V, S, C, L, w), With("itemDeleted", i),
              Pic(P, N, Without(I, i), V, S, C, L, "done"))
  BY TakesItemDeleted DEF With
<1>4. Accepts(v, s \o With("itemDeleted", i), Pic(P, N, Without(I, i), V, S, C, L, "done"))
  BY ONLY <1>1, <1>3, AcceptsMore
<1> QED BY <1>2, <1>4 DEF Tracks

\* An item is installed.
LEMMA TracksEquips ==
  ASSUME NEW v, NEW s, NEW list, NEW K, NEW N, NEW I, NEW V, NEW S, NEW C, NEW L,
         Tracks(v, s, list, K, N, I, V, S, C, L),
         NEW i \in ToSet(V), S = NoItem, ~ (Needs[i] > L)
  PROVE  Tracks(v, s \o Equips("equips", i, TRUE), list, K, N, I, Without(V, i), i,
             Limit(C, MaxCPU(i)), L)
<1>1. PICK P, w : Same(P, list, K) /\ Accepts(v, s, Pic(P, N, I, V, S, C, L, w))
  BY DEF Tracks
<1>2. Same(P, list, K)
  BY <1>1
<1>3. Accepts(Pic(P, N, I, V, S, C, L, w), Equips("equips", i, TRUE),
              Pic(P, N, I, Without(V, i), i, Limit(C, MaxCPU(i)), L, "done"))
  BY TakesEquips DEF Equips
<1>4. Accepts(v, s \o Equips("equips", i, TRUE),
          Pic(P, N, I, Without(V, i), i, Limit(C, MaxCPU(i)), L, "done"))
  BY ONLY <1>1, <1>3, AcceptsMore
<1> QED BY <1>2, <1>4 DEF Tracks

\* An item is not installed.
LEMMA TracksNoEquip ==
  ASSUME NEW v, NEW s, NEW list, NEW K, NEW N, NEW I, NEW V, NEW S, NEW C, NEW L,
         Tracks(v, s, list, K, N, I, V, S, C, L),
         NEW i \in ToSet(V)
  PROVE  Tracks(v, s \o Equips("equips", i, FALSE), list, K, N, I, V, S, C, L)
<1>1. PICK P, w : Same(P, list, K) /\ Accepts(v, s, Pic(P, N, I, V, S, C, L, w))
  BY DEF Tracks
<1>2. Same(P, list, K)
  BY <1>1
<1>3. Accepts(Pic(P, N, I, V, S, C, L, w), Equips("equips", i, FALSE),
              Pic(P, N, I, V, S, C, L, "done"))
  BY TakesNoEquip DEF Equips
<1>4. Accepts(v, s \o Equips("equips", i, FALSE), Pic(P, N, I, V, S, C, L, "done"))
  BY ONLY <1>1, <1>3, AcceptsMore
<1> QED BY <1>2, <1>4 DEF Tracks

\* An item is taken out.
LEMMA TracksUnequips ==
  ASSUME NEW v, NEW s, NEW list, NEW K, NEW N, NEW I, NEW V, NEW S, NEW C, NEW L,
         Tracks(v, s, list, K, N, I, V, S, C, L),
         ~ (Len(V) + 1 > MaxCarry)
  PROVE  Tracks(v, s \o Equips("unequips", S, TRUE), list, K, N, I, Push(V, S), NoItem,
             Limit(C, BaseCPU), L)
<1>1. PICK P, w : Same(P, list, K) /\ Accepts(v, s, Pic(P, N, I, V, S, C, L, w))
  BY DEF Tracks
<1>2. Same(P, list, K)
  BY <1>1
<1>3. Accepts(Pic(P, N, I, V, S, C, L, w), Equips("unequips", S, TRUE),
              Pic(P, N, I, Push(V, S), NoItem, Limit(C, BaseCPU), L, "done"))
  BY TakesUnequips DEF Equips
<1>4. Accepts(v, s \o Equips("unequips", S, TRUE),
          Pic(P, N, I, Push(V, S), NoItem, Limit(C, BaseCPU), L, "done"))
  BY ONLY <1>1, <1>3, AcceptsMore
<1> QED BY <1>2, <1>4 DEF Tracks

\* An item stays installed.
LEMMA TracksNoUnequip ==
  ASSUME NEW v, NEW s, NEW list, NEW K, NEW N, NEW I, NEW V, NEW S, NEW C, NEW L,
         Tracks(v, s, list, K, N, I, V, S, C, L)
  PROVE  Tracks(v, s \o Equips("unequips", S, FALSE), list, K, N, I, V, S, C, L)
<1>1. PICK P, w : Same(P, list, K) /\ Accepts(v, s, Pic(P, N, I, V, S, C, L, w))
  BY DEF Tracks
<1>2. Same(P, list, K)
  BY <1>1
<1>3. Accepts(Pic(P, N, I, V, S, C, L, w), Equips("unequips", S, FALSE),
              Pic(P, N, I, V, S, C, L, "done"))
  BY TakesNoUnequip DEF Equips
<1>4. Accepts(v, s \o Equips("unequips", S, FALSE), Pic(P, N, I, V, S, C, L, "done"))
  BY ONLY <1>1, <1>3, AcceptsMore
<1> QED BY <1>2, <1>4 DEF Tracks

\* The stats.
LEMMA TracksStats ==
  ASSUME NEW v, NEW s, NEW list, NEW K, NEW N, NEW I, NEW V, NEW S, NEW C, NEW L,
         Tracks(v, s, list, K, N, I, V, S, C, L),
         NEW c, ~ (c > MaxCPU(S))
  PROVE  Tracks(v, s \o <<[kind |-> "stats", cpu |-> c, max |-> MaxCPU(S)]>>, list, K, N, I, V,
             S, c, L)
<1>1. PICK P, w : Same(P, list, K) /\ Accepts(v, s, Pic(P, N, I, V, S, C, L, w))
  BY DEF Tracks
<1>2. Same(P, list, K)
  BY <1>1
<1>3. Accepts(Pic(P, N, I, V, S, C, L, w), <<[kind |-> "stats", cpu |-> c, max |-> MaxCPU(S)]>>,
              Pic(P, N, I, V, S, c, L, "done"))
  BY TakesStats
<1>4. Accepts(v, s \o <<[kind |-> "stats", cpu |-> c, max |-> MaxCPU(S)]>>,
          Pic(P, N, I, V, S, c, L, "done"))
  BY ONLY <1>1, <1>3, AcceptsMore
<1> QED BY <1>2, <1>4 DEF Tracks

\* A level.
LEMMA TracksLevel ==
  ASSUME NEW v, NEW s, NEW list, NEW K, NEW N, NEW I, NEW V, NEW S, NEW C, NEW L,
         Tracks(v, s, list, K, N, I, V, S, C, L),
         NEW gain
  PROVE  Tracks(v, s \o <<[kind |-> "level", gain |-> gain, level |-> L + gain]>>, list, K, N,
             I, V, S, C, L + gain)
<1>1. PICK P, w : Same(P, list, K) /\ Accepts(v, s, Pic(P, N, I, V, S, C, L, w))
  BY DEF Tracks
<1>2. Same(P, list, K)
  BY <1>1
<1>3. Accepts(Pic(P, N, I, V, S, C, L, w),
          <<[kind |-> "level", gain |-> gain, level |-> L + gain]>>,
              Pic(P, N, I, V, S, C, L + gain, "done"))
  BY TakesLevel
<1>4. Accepts(v, s \o <<[kind |-> "level", gain |-> gain, level |-> L + gain]>>,
          Pic(P, N, I, V, S, C, L + gain, "done"))
  BY ONLY <1>1, <1>3, AcceptsMore
<1> QED BY <1>2, <1>4 DEF Tracks

\* A script runs.
LEMMA TracksRun ==
  ASSUME NEW v, NEW s, NEW list, NEW K, NEW N, NEW I, NEW V, NEW S, NEW C, NEW L,
         Tracks(v, s, list, K, N, I, V, S, C, L),
         NEW c, ~ (c > C)
  PROVE  Tracks(v, s \o Ran(c), list, K, N, I, V, S, C - c, L)
<1>1. PICK P, w : Same(P, list, K) /\ Accepts(v, s, Pic(P, N, I, V, S, C, L, w))
  BY DEF Tracks
<1>2. Same(P, list, K)
  BY <1>1
<1>3. Accepts(Pic(P, N, I, V, S, C, L, w), Ran(c),
              Pic(P, N, I, V, S, C - c, L, "done"))
  BY TakesRuns DEF Ran
<1>4. Accepts(v, s \o Ran(c), Pic(P, N, I, V, S, C - c, L, "done"))
  BY ONLY <1>1, <1>3, AcceptsMore
<1> QED BY <1>2, <1>4 DEF Tracks

\* Another room.
LEMMA TracksNewRoom ==
  ASSUME NEW v, NEW s, NEW list, NEW K, NEW N, NEW I, NEW V, NEW S, NEW C, NEW L,
         Tracks(v, s, list, K, N, I, V, S, C, L),
         NEW Q \in Seq(Players), NEW O, NEW J
  PROVE  Tracks(v, s \o <<[kind |-> "enterRoom", players |-> Q, npcs |-> O, items |-> J]>>, Q,
             K, O, J, V, S, C, L)
<1>1. PICK P, w : Same(P, list, K) /\ Accepts(v, s, Pic(P, N, I, V, S, C, L, w))
  BY DEF Tracks
<1>2. Same(Q, Q, K)
  BY <1>1, SameWhole
<1>3. Accepts(Pic(P, N, I, V, S, C, L, w),
          <<[kind |-> "enterRoom", players |-> Q, npcs |-> O, items |-> J]>>,
              Pic(Q, O, J, V, S, C, L, "done"))
  BY TakesNewRoom
<1>4. Accepts(v, s \o <<[kind |-> "enterRoom", players |-> Q, npcs |-> O, items |-> J]>>,
          Pic(Q, O, J, V, S, C, L, "done"))
  BY ONLY <1>1, <1>3, AcceptsMore
<1> QED BY <1>2, <1>4 DEF Tracks

\* A player dies, who may not be shown.
LEMMA TracksKilled ==
  ASSUME NEW v, NEW s, NEW list, NEW K, NEW N, NEW I, NEW V, NEW S, NEW C, NEW L,
         Tracks(v, s, list, K, N, I, V, S, C, L),
         NEW p \in Others, p \notin ToSet(N)
  PROVE  Tracks(v, s \o Killed(p), Without(list, p), K, N, I, V, S, C, L)
<1>1. PICK P, w : Same(P, list, K) /\ Accepts(v, s, Pic(P, N, I, V, S, C, L, w))
  BY DEF Tracks
<1>2. Same(Without(P, p), Without(list, p), K)
  BY <1>1, SameWithout
<1>3. PICK z : Accepts(Pic(P, N, I, V, S, C, L, w), Killed(p),
                       Pic(Without(P, p), N, I, V, S, C, L, z))
  <2>1. CASE p \in ToSet(P)
    BY <2>1, TakesKill DEF Killed
  <2>2. CASE p \notin ToSet(P)
    <3>1. Without(P, p) = P
      BY <1>1, <2>2, WithoutIs DEF Same
    <3>2. Accepts(Pic(P, N, I, V, S, C, L, w), Killed(p), Pic(P, N, I, V, S, C, L, "refused"))
      BY <2>2, TakesStranger DEF Killed
    <3> QED BY <3>1, <3>2
  <2> QED BY <2>1, <2>2
<1>4. Accepts(v, s \o Killed(p), Pic(Without(P, p), N, I, V, S, C, L, z))
  BY ONLY <1>1, <1>3, AcceptsMore
<1> QED BY <1>2, <1>4 DEF Tracks

\* Items fall into the room.
LEMMA TracksItems ==
  ASSUME NEW v, NEW s, NEW list, NEW K, NEW N, NEW I, NEW V, NEW S, NEW C, NEW L,
         Tracks(v, s, list, K, N, I, V, S, C, L), NEW X, NEW J, Leads(I, X, J)
  PROVE  Tracks(v, s \o X, list, K, N, J, V, S, C, L)
<1>1. PICK P, w : Same(P, list, K) /\ Accepts(v, s, Pic(P, N, I, V, S, C, L, w))
  BY DEF Tracks
<1>2. PICK z : Accepts(Pic(P, N, I, V, S, C, L, w), X, Pic(P, N, J, V, S, C, L, z))
  BY DEF Leads
<1>3. Accepts(v, s \o X, Pic(P, N, J, V, S, C, L, z))
  BY ONLY <1>1, <1>2, AcceptsMore
<1> QED BY <1>1, <1>3 DEF Tracks

\* The data of the player and the room, whatever was shown.
LEMMA TracksData ==
  ASSUME NEW v, NEW s, NEW z, Accepts(v, s, z),
         NEW list \in Seq(Players), NEW K, NEW N, NEW I, NEW V, NEW S, NEW C, NEW L
  PROVE  Tracks(v,
                s \o (<<[kind |-> "death", inventory |-> V, slot |-> S, cpu |-> C, level |-> L]>>
                        \o <<[kind |-> "enterRoom", players |-> list, npcs |-> N, items |-> I]>>),
                list, K, N, I, V, S, C, L)
<1> DEFINE a == <<[kind |-> "death", inventory |-> V, slot |-> S, cpu |-> C, level |-> L]>>
           b == <<[kind |-> "enterRoom", players |-> list, npcs |-> N, items |-> I]>>
           d == Data(V, S, C, L)
           u == Pic(list, N, I, V, S, C, L, "done")
<1>1. Accepts(z, a, d)
  BY TakesDeath
<1>2. Accepts(d, b, u)
  BY TakesEnterRoom
<1> HIDE DEF a, b, d
<1>3. Accepts(z, a \o b, u)
  BY ONLY <1>1, <1>2, AcceptsMore
<1>4. Accepts(v, s \o (a \o b), u)
  BY ONLY <1>3, Accepts(v, s, z), AcceptsMore
<1>5. Tracks(v, s \o (a \o b), list, K, N, I, V, S, C, L)
  BY <1>4, SameWhole DEF Tracks
<1> QED BY <1>5 DEF a, b

\* A finger request that names what will be shown.
LEMMA TracksFinger ==
  ASSUME NEW list, NEW K, NEW N, NEW I, NEW V, NEW S, NEW C, NEW L,
         Tracks(view, pending, list, K, N, I, V, S, C, L),
         NEW x \in Names(Shown), NEW i \in ToSet(V)
  PROVE  Tracks(view, pending \o By("finger", x, i), list, K, N, I, Without(V, i), S, C, L)
<1>1. PICK P, w : Same(P, list, K) /\ Accepts(view, pending, Pic(P, N, I, V, S, C, L, w))
  BY DEF Tracks
<1>2. Shown = Pic(P, N, I, V, S, C, L, w)
  BY <1>1, ShownIs
<1>3. Shown.players = P /\ Shown.npcs = N
  BY <1>2 DEF Pic
<1>4. x \in ToSet(P) \cup ToSet(N)
  BY <1>3 DEF Names
<1>5. Accepts(Pic(P, N, I, V, S, C, L, w), By("finger", x, i),
              Pic(P, N, I, Without(V, i), S, C, L, "done"))
  BY <1>4, TakesFinger DEF By
<1>6. Accepts(view, pending \o By("finger", x, i), Pic(P, N, I, Without(V, i), S, C, L, "done"))
  BY ONLY <1>1, <1>5, AcceptsMore
<1> QED BY <1>1, <1>6 DEF Tracks

-----------------------------------------------------------------------------
(* Who and what is where                                                   *)

\* Everybody is in one room at most.
Once(L, X) ==
  /\ L \in [Rooms -> Seq(X)]
  /\ \A x \in X : \A r, q \in Rooms : x \in ToSet(L[r]) /\ x \in ToSet(L[q]) => r = q

In(L, x) == \E r \in Rooms : x \in ToSet(L[r])

WhereIn(L, x) == CHOOSE r \in Rooms : x \in ToSet(L[r])

LEMMA WhereIs ==
  ASSUME NEW L, NEW X, Once(L, X), NEW x \in X
  PROVE  /\ In(L, x) => WhereIn(L, x) \in Rooms /\ x \in ToSet(L[WhereIn(L, x)])
         /\ \A r \in Rooms : x \in ToSet(L[r]) => WhereIn(L, x) = r
BY DEF Once, In, WhereIn

\* One comes, or goes, or moves.
LEMMA OnceComes ==
  ASSUME NEW L, NEW X, Once(L, X), NEW x \in X, ~ In(L, x), NEW r \in Rooms
  PROVE  Once([L EXCEPT ![r] = Push(@, x)], X)
<1> DEFINE M == [L EXCEPT ![r] = Push(@, x)]
<1>1. L \in [Rooms -> Seq(X)]
  BY DEF Once
<1>2. L[r] \in Seq(X)
  BY <1>1
<1>3. Push(L[r], x) \in Seq(X) /\ ToSet(Push(L[r], x)) = ToSet(L[r]) \cup {x}
  <2> DEFINE t == L[r]
  <2>1. t \in Seq(X)
    BY <1>2
  <2> HIDE DEF t, M
  <2>2. Push(t, x) \in Seq(X) /\ ToSet(Push(t, x)) = ToSet(t) \cup {x}
    BY <2>1, OfPush
  <2> QED BY <2>2 DEF t
<1>4. M \in [Rooms -> Seq(X)] /\ M[r] = Push(L[r], x) /\ \A q \in Rooms : q # r => M[q] = L[q]
  BY <1>1, <1>3
<1> HIDE DEF M
<1>5. \A y \in X : \A q \in Rooms : y \in ToSet(M[q]) => y \in ToSet(L[q]) \/ (y = x /\ q = r)
  BY <1>3, <1>4
<1>6. ASSUME NEW y \in X, NEW q \in Rooms, NEW o \in Rooms, y \in ToSet(M[q]), y \in ToSet(M[o])
      PROVE  q = o
  <2>1. CASE y = x
    <3>1. \A z \in Rooms : x \notin ToSet(L[z])
      BY DEF In
    <3> QED BY <1>5, <1>6, <2>1, <3>1
  <2>2. CASE y # x
    <3>1. y \in ToSet(L[q]) /\ y \in ToSet(L[o])
      BY <1>5, <1>6, <2>2
    <3> QED BY <3>1 DEF Once
  <2> QED BY <2>1, <2>2
<1>7. Once(M, X)
  BY <1>4, <1>6 DEF Once
<1> QED BY <1>7 DEF M

LEMMA OnceGoes ==
  ASSUME NEW L, NEW X, Once(L, X), NEW x, NEW r \in Rooms
  PROVE  Once([L EXCEPT ![r] = Without(@, x)], X)
<1> DEFINE M == [L EXCEPT ![r] = Without(@, x)]
<1>1. L \in [Rooms -> Seq(X)]
  BY DEF Once
<1>2. L[r] \in Seq(X)
  BY <1>1
<1>3. Without(L[r], x) \in Seq(X) /\ ToSet(Without(L[r], x)) = ToSet(L[r]) \ {x}
  BY <1>2, WithoutIs
<1>4. M \in [Rooms -> Seq(X)] /\ M[r] = Without(L[r], x) /\ \A q \in Rooms : q # r => M[q] = L[q]
  BY <1>1, <1>3
<1> HIDE DEF M
<1>5. \A y \in X : \A q \in Rooms : y \in ToSet(M[q]) => y \in ToSet(L[q])
  BY <1>3, <1>4
<1>6. Once(M, X)
  BY <1>4, <1>5 DEF Once
<1> QED BY <1>6 DEF M

\* The lists after a move.
Goes(L, x, from, to) ==
  [r \in Rooms |->
     IF r = to THEN Push(Without(L[r], x), x)
     ELSE IF r = from THEN Without(L[r], x) ELSE L[r]]

LEMMA GoesIs ==
  ASSUME NEW L, NEW X, Once(L, X), NEW x \in X, NEW from \in Rooms, NEW to \in Rooms,
         x \in ToSet(L[from])
  PROVE  /\ Once(Goes(L, x, from, to), X)
         /\ Goes(L, x, from, to)[to] = Push(Without(L[to], x), x)
         /\ to # from => Goes(L, x, from, to)[from] = Without(L[from], x) /\ Without(L[to], x) = L[to]
         /\ x \in ToSet(Goes(L, x, from, to)[to])
         /\ \A y \in X : \A q \in Rooms :
              y # x => (y \in ToSet(Goes(L, x, from, to)[q]) <=> y \in ToSet(L[q]))
         /\ \A q \in Rooms : q # to /\ q # from => Goes(L, x, from, to)[q] = L[q]
<1> DEFINE M == Goes(L, x, from, to)
<1>1. L \in [Rooms -> Seq(X)]
  BY DEF Once
<1>2. \A q \in Rooms : Without(L[q], x) \in Seq(X) /\ ToSet(Without(L[q], x)) = ToSet(L[q]) \ {x}
                       /\ (x \notin ToSet(L[q]) => Without(L[q], x) = L[q])
  BY <1>1, WithoutIs
<1>3. \A q \in Rooms : Push(Without(L[q], x), x) \in Seq(X)
                       /\ ToSet(Push(Without(L[q], x), x)) = ToSet(Without(L[q], x)) \cup {x}
  <2> SUFFICES ASSUME NEW q \in Rooms
               PROVE  /\ Push(Without(L[q], x), x) \in Seq(X)
                      /\ ToSet(Push(Without(L[q], x), x)) = ToSet(Without(L[q], x)) \cup {x}
    OBVIOUS
  <2> DEFINE t == Without(L[q], x)
  <2>1. t \in Seq(X)
    BY <1>2
  <2> HIDE DEF t
  <2>2. Push(t, x) \in Seq(X) /\ ToSet(Push(t, x)) = ToSet(t) \cup {x}
    BY <2>1, OfPush
  <2> QED BY <2>2 DEF t
<1>4. M[to] = Push(Without(L[to], x), x)
  BY DEF Goes
<1>5. to # from => M[from] = Without(L[from], x)
  BY DEF Goes
<1>6. \A q \in Rooms : q # to /\ q # from => M[q] = L[q]
  BY DEF Goes
<1>7. M \in [Rooms -> Seq(X)]
  BY <1>1, <1>2, <1>3 DEF Goes
<1> HIDE DEF M
<1>8. \A y \in X : \A q \in Rooms : y # x => (y \in ToSet(M[q]) <=> y \in ToSet(L[q]))
  <2> SUFFICES ASSUME NEW y \in X, NEW q \in Rooms, y # x
               PROVE  y \in ToSet(M[q]) <=> y \in ToSet(L[q])
    OBVIOUS
  <2>1. CASE q = to
    <3>1. ToSet(Push(Without(L[to], x), x)) = (ToSet(L[to]) \ {x}) \cup {x}
      BY <1>2, <1>3
    <3>2. ToSet(M[q]) = (ToSet(L[q]) \ {x}) \cup {x}
      BY <1>4, <2>1, <3>1
    <3> QED BY <3>2
  <2>2. CASE q # to /\ q = from
    BY <1>2, <1>5, <2>2
  <2>3. CASE q # to /\ q # from
    BY <1>6, <2>3
  <2> QED BY <2>1, <2>2, <2>3
<1>9. \A q \in Rooms : x \in ToSet(M[q]) => q = to
  <2> SUFFICES ASSUME NEW q \in Rooms, q # to PROVE x \notin ToSet(M[q])
    OBVIOUS
  <2>1. CASE q = from
    BY <1>2, <1>5, <2>1
  <2>2. CASE q # from
    BY <1>6, <2>2 DEF Once
  <2> QED BY <2>1, <2>2
<1>10. x \in ToSet(M[to])
  BY <1>3, <1>4
<1>11. Once(M, X)
  BY <1>7, <1>8, <1>9 DEF Once
<1>12. to # from => Without(L[to], x) = L[to]
  BY <1>2 DEF Once
<1> QED BY <1>4, <1>5, <1>6, <1>8, <1>10, <1>11, <1>12 DEF M

-----------------------------------------------------------------------------
(* Items                                                                   *)

\* An item is in one place at most, and there once.
Apart(I, C, S) ==
  /\ I \in [Rooms -> Seq(Items)] /\ C \in [Players -> Seq(Items)] /\ S \in Items \cup {NoItem}
  /\ \A r \in Rooms : Distinct(I[r])
  /\ \A p \in Players : Distinct(C[p])
  /\ \A r, q \in Rooms : r # q => ToSet(I[r]) \cap ToSet(I[q]) = {}
  /\ \A p, q \in Players : p # q => ToSet(C[p]) \cap ToSet(C[q]) = {}
  /\ \A r \in Rooms, p \in Players : ToSet(I[r]) \cap ToSet(C[p]) = {}
  /\ \A r \in Rooms : S \notin ToSet(I[r])
  /\ \A p \in Players : S \notin ToSet(C[p])

\* No list and no slot has one of these.
Nowhere(I, C, S, D) ==
  /\ \A r \in Rooms : ToSet(I[r]) \cap D = {}
  /\ \A p \in Players : ToSet(C[p]) \cap D = {}
  /\ S \notin D

LEMMA RoomOther ==
  ASSUME NEW I, NEW C, NEW S, Apart(I, C, S), NEW r \in Rooms, NEW J \in Seq(Items), Distinct(J),
         NEW D, ToSet(J) \subseteq ToSet(I[r]) \cup D, Nowhere(I, C, S, D)
  PROVE  Apart([I EXCEPT ![r] = J], C, S)
<1> DEFINE M == [I EXCEPT ![r] = J]
<1>1. M \in [Rooms -> Seq(Items)] /\ M[r] = J /\ \A q \in Rooms : q # r => M[q] = I[q]
  BY DEF Apart
<1> HIDE DEF M
<1>2. \A q \in Rooms : Distinct(M[q])
  BY <1>1 DEF Apart
<1>3. \A q \in Rooms : q # r => ToSet(M[q]) \cap ToSet(M[r]) = {}
  BY <1>1 DEF Apart, Nowhere
<1>4. \A p, q \in Rooms : p # q => ToSet(M[p]) \cap ToSet(M[q]) = {}
  BY <1>1, <1>3 DEF Apart
<1>5. \A q \in Rooms, p \in Players : ToSet(M[q]) \cap ToSet(C[p]) = {}
  BY <1>1 DEF Apart, Nowhere
<1>6. \A q \in Rooms : S \notin ToSet(M[q])
  BY <1>1 DEF Apart, Nowhere
<1>7. Apart(M, C, S)
  BY <1>1, <1>2, <1>4, <1>5, <1>6 DEF Apart
<1> QED BY <1>7 DEF M

LEMMA CarriedOther ==
  ASSUME NEW I, NEW C, NEW S, Apart(I, C, S), NEW p \in Players, NEW J \in Seq(Items),
             Distinct(J),
         NEW D, ToSet(J) \subseteq ToSet(C[p]) \cup D, Nowhere(I, C, S, D)
  PROVE  Apart(I, [C EXCEPT ![p] = J], S)
<1> DEFINE M == [C EXCEPT ![p] = J]
<1>1. M \in [Players -> Seq(Items)] /\ M[p] = J /\ \A q \in Players : q # p => M[q] = C[q]
  BY DEF Apart
<1> HIDE DEF M
<1>2. \A q \in Players : Distinct(M[q])
  BY <1>1 DEF Apart
<1>3. \A q \in Players : q # p => ToSet(M[q]) \cap ToSet(M[p]) = {}
  BY <1>1 DEF Apart, Nowhere
<1>4. \A q, o \in Players : q # o => ToSet(M[q]) \cap ToSet(M[o]) = {}
  BY <1>1, <1>3 DEF Apart
<1>5. \A r \in Rooms, q \in Players : ToSet(I[r]) \cap ToSet(M[q]) = {}
  BY <1>1 DEF Apart, Nowhere
<1>6. \A q \in Players : S \notin ToSet(M[q])
  BY <1>1 DEF Apart, Nowhere
<1>7. Apart(I, M, S)
  BY <1>1, <1>2, <1>4, <1>5, <1>6 DEF Apart
<1> QED BY <1>7 DEF M

LEMMA SlotOther ==
  ASSUME NEW I, NEW C, NEW S, Apart(I, C, S), NEW i \in Items \cup {NoItem},
         Nowhere(I, C, NoItem, {i})
  PROVE  Apart(I, C, i)
BY DEF Apart, Nowhere

LEMMA SlotEmpties ==
  ASSUME NEW I, NEW C, NEW S, Apart(I, C, S)
  PROVE  Apart(I, C, NoItem)
<1>1. \A r \in Rooms : ToSet(I[r]) \subseteq Items
  BY DEF Apart, ToSet
<1>2. \A p \in Players : ToSet(C[p]) \subseteq Items
  BY DEF Apart, ToSet
<1> QED BY <1>1, <1>2, MirrorAssumption DEF Apart

-----------------------------------------------------------------------------
(* The invariant                                                           *)

PlayersHere ==
  /\ Once(playersIn, Players)
  /\ connected \subseteq Players
  /\ \A p \in connected : In(playersIn, p)

NPCsHere == Once(npcsIn, NPCs)

ItemsHere == Apart(itemsIn, carried, installed)

StatsHere == cpu \in Nat /\ cpu <= MaxCPU(installed) /\ level \in Nat

\* A client without a session has nothing to read.
Idle == Me \notin connected => pending = <<>> /\ view = NoView

\* What will be shown when the messages on their way are read is what is there.
TracksRoom(r) ==
  Tracks(view, pending, playersIn[r], connected, npcsIn[r], itemsIn[r], carried[Me],
         installed, cpu, level)

InStep ==
  Me \in connected /\ ~ misnamed =>
    /\ view.verdict # "lost"
    /\ \A r \in Rooms : Me \in ToSet(playersIn[r]) => TracksRoom(r)

\* The inductive invariant.
MirrorInv == PlayersHere /\ NPCsHere /\ ItemsHere /\ StatsHere /\ Idle /\ InStep

LEMMA RoomFacts ==
  ASSUME PlayersHere, NEW p \in Players
  PROVE  /\ Placed(p) => RoomOf(p) \in Rooms /\ p \in ToSet(playersIn[RoomOf(p)])
         /\ \A r \in Rooms : p \in ToSet(playersIn[r]) => RoomOf(p) = r /\ Placed(p)
         /\ p \in connected => Placed(p)
         /\ Placed(p) <=> In(playersIn, p)
<1>1. /\ In(playersIn, p) =>
            WhereIn(playersIn, p) \in Rooms /\ p \in ToSet(playersIn[WhereIn(playersIn, p)])
      /\ \A r \in Rooms : p \in ToSet(playersIn[r]) => WhereIn(playersIn, p) = r
  BY WhereIs DEF PlayersHere
<1> QED BY <1>1 DEF PlayersHere, In, WhereIn, RoomOf, Placed

LEMMA HomeFacts ==
  ASSUME NPCsHere, NEW n \in NPCs
  PROVE  /\ Seen(n) => HomeOf(n) \in Rooms /\ n \in ToSet(npcsIn[HomeOf(n)])
         /\ \A r \in Rooms : n \in ToSet(npcsIn[r]) => HomeOf(n) = r /\ Seen(n)
         /\ Seen(n) <=> In(npcsIn, n)
<1>1. /\ In(npcsIn, n) => WhereIn(npcsIn, n) \in Rooms /\ n \in ToSet(npcsIn[WhereIn(npcsIn, n)])
      /\ \A r \in Rooms : n \in ToSet(npcsIn[r]) => WhereIn(npcsIn, n) = r
  BY WhereIs DEF NPCsHere
<1> QED BY <1>1 DEF In, WhereIn, HomeOf, Seen

LEMMA MirrorInitInv == MirrorInit => MirrorInv
<1> SUFFICES ASSUME MirrorInit PROVE MirrorInv
  OBVIOUS
<1> USE DEF MirrorInit
<1>1. \A X : <<>> \in Seq(X)
  OBVIOUS
<1>2. ToSet(<<>>) = {} /\ Distinct(<<>>)
  BY OfEmpty
<1>3. PlayersHere
  <2>1. playersIn \in [Rooms -> Seq(Players)]
    BY <1>1
  <2>2. \A r \in Rooms : ToSet(playersIn[r]) = {}
    BY <1>2
  <2> QED BY <2>1, <2>2 DEF PlayersHere, Once
<1>4. NPCsHere
  <2>1. npcsIn \in [Rooms -> Seq(NPCs)]
    BY <1>1
  <2>2. \A r \in Rooms : ToSet(npcsIn[r]) = {}
    BY <1>2
  <2> QED BY <2>1, <2>2 DEF NPCsHere, Once
<1>5. ItemsHere
  <2>1. itemsIn \in [Rooms -> Seq(Items)] /\ carried \in [Players -> Seq(Items)]
    BY <1>1
  <2>2. \A r \in Rooms : ToSet(itemsIn[r]) = {} /\ Distinct(itemsIn[r])
    BY <1>2
  <2>3. \A p \in Players : ToSet(carried[p]) = {} /\ Distinct(carried[p])
    BY <1>2
  <2> QED BY <2>1, <2>2, <2>3 DEF ItemsHere, Apart
<1>6. StatsHere
  BY MirrorAssumption DEF StatsHere, MaxCPU
<1>7. Idle /\ InStep
  BY DEF Idle, InStep
<1> QED BY <1>3, <1>4, <1>5, <1>6, <1>7 DEF MirrorInv

\* Reading only shortens what is on its way.
LEMMA ReadKeeps ==
  ASSUME MirrorInv, Read
  PROVE  MirrorInv'
<1> USE DEF MirrorInv
<1>1. PlayersHere' /\ NPCsHere' /\ ItemsHere' /\ StatsHere'
  BY DEF Read, world, mine, sessions, PlayersHere, NPCsHere, ItemsHere, StatsHere
<1>2. Me \in connected
  BY DEF Read, Idle
<1>3. Idle'
  BY <1>2 DEF Read, sessions, Idle
<1>4. ASSUME ~ misnamed, NEW r \in Rooms, Me \in ToSet(playersIn[r])
      PROVE  view'.verdict # "lost" /\ TracksRoom(r)'
  <2>1. TracksRoom(r)
    BY <1>2, <1>4 DEF InStep
  <2>2. PICK P, w : /\ Same(P, playersIn[r], connected)
                    /\ Accepts(view, pending, Pic(P, npcsIn[r], itemsIn[r], carried[Me],
                                                  installed, cpu, level, w))
    BY <2>1 DEF TracksRoom, Tracks
  <2> DEFINE u == Pic(P, npcsIn[r], itemsIn[r], carried[Me], installed, cpu, level, w)
  <2>3. Accepts(view, pending, u) /\ pending # <<>>
    BY <2>2 DEF Read
  <2> HIDE DEF u
  <2>4. Fine(view', Head(pending)) /\ Accepts(view', pending', u)
    BY <2>3, AcceptsHead DEF Read
  <2>5. TracksRoom(r)'
    BY <2>2, <2>4 DEF Read, world, mine, sessions, TracksRoom, Tracks, u
  <2> QED BY <2>4, <2>5 DEF Fine
<1>5. InStep'
  <2> SUFFICES ASSUME ~ misnamed
               PROVE  /\ view'.verdict # "lost"
                      /\ \A r \in Rooms : Me \in ToSet(playersIn'[r]) => TracksRoom(r)'
    BY DEF InStep, Read, sessions
  <2>1. PICK r \in Rooms : Me \in ToSet(playersIn[r])
    BY <1>2 DEF PlayersHere, In
  <2> QED BY <1>4, <2>1 DEF Read, world
<1> QED BY <1>1, <1>3, <1>5

\* The end of a session: the client forgets everything.
LEMMA DisconnectKeeps ==
  ASSUME MirrorInv, NEW p \in Players, Disconnect(p)
  PROVE  MirrorInv'
<1> USE DEF MirrorInv
<1>1. PlayersHere' /\ NPCsHere' /\ ItemsHere' /\ StatsHere'
  BY DEF Disconnect, world, mine, PlayersHere, NPCsHere, ItemsHere, StatsHere
<1>2. Idle'
  BY DEF Disconnect, Idle
<1>3. InStep'
  <2> SUFFICES ASSUME Me \in connected', ~ misnamed'
               PROVE  /\ view'.verdict # "lost"
                      /\ \A r \in Rooms : Me \in ToSet(playersIn'[r]) => TracksRoom(r)'
    BY DEF InStep
  <2>1. Me \in connected /\ p # Me /\ ~ misnamed /\ view' = view /\ pending' = pending
    BY DEF Disconnect
  <2>2. connected' = connected \ {p}
    BY DEF Disconnect
  <2>3. \A r \in Rooms : Me \in ToSet(playersIn[r]) => TracksRoom(r)
    BY <2>1 DEF InStep
  <2>4. ASSUME NEW r \in Rooms, TracksRoom(r) PROVE TracksRoom(r)'
    <3>1. Tracks(view, pending, playersIn[r], connected \ {p}, npcsIn[r], itemsIn[r],
                 carried[Me], installed, cpu, level)
      BY <2>4, TracksLess DEF TracksRoom
    <3> QED BY <2>1, <2>2, <3>1 DEF Disconnect, world, mine, TracksRoom
  <2> QED BY <2>1, <2>3, <2>4 DEF InStep, Disconnect, world
<1> QED BY <1>1, <1>2, <1>3

\* A character that nobody is told of.
LEMMA NWCCreatePlayerKeeps ==
  ASSUME MirrorInv, NEW p \in Players, NEW r \in Rooms, NWCCreatePlayer(p, r)
  PROVE  MirrorInv'
<1> USE DEF MirrorInv
<1>1. NPCsHere' /\ ItemsHere' /\ StatsHere' /\ Idle'
  BY DEF NWCCreatePlayer, mine, NPCsHere, ItemsHere, StatsHere, Idle
<1>2. ~ In(playersIn, p) /\ p \notin connected
  BY RoomFacts DEF NWCCreatePlayer
<1>3. playersIn \in [Rooms -> Seq(Players)]
  BY DEF PlayersHere, Once
<1>4. /\ playersIn'[r] = Push(playersIn[r], p)
      /\ \A q \in Rooms : q # r => playersIn'[q] = playersIn[q]
  BY <1>3 DEF NWCCreatePlayer
<1>5. ToSet(playersIn'[r]) = ToSet(playersIn[r]) \cup {p}
  <2> DEFINE t == playersIn[r]
  <2>1. t \in Seq(Players)
    BY <1>3
  <2> HIDE DEF t
  <2>2. ToSet(Push(t, p)) = ToSet(t) \cup {p}
    BY <2>1, OfPush
  <2> QED BY <1>4, <2>2 DEF t
<1>6. PlayersHere'
  <2>1. Once(playersIn', Players)
    BY <1>2, OnceComes DEF PlayersHere, NWCCreatePlayer
  <2>2. \A q \in connected : In(playersIn', q)
    BY <1>4, <1>5 DEF PlayersHere, In
  <2> QED BY <2>1, <2>2 DEF PlayersHere, NWCCreatePlayer
<1>7. InStep'
  <2> SUFFICES ASSUME Me \in connected, ~ misnamed
               PROVE  /\ view'.verdict # "lost"
                      /\ \A q \in Rooms : Me \in ToSet(playersIn'[q]) => TracksRoom(q)'
    BY DEF InStep, NWCCreatePlayer
  <2>1. view'.verdict # "lost"
    BY DEF InStep, NWCCreatePlayer
  <2>2. ASSUME NEW q \in Rooms, Me \in ToSet(playersIn'[q]) PROVE TracksRoom(q)'
    <3>1. Me \in ToSet(playersIn[q])
      BY <1>4, <1>5, <2>2 DEF NWCCreatePlayer
    <3>2. TracksRoom(q)
      BY <3>1 DEF InStep
    <3>3. Tracks(view, pending, playersIn'[q], connected, npcsIn[q], itemsIn[q], carried[Me],
                 installed, cpu, level)
      <4>1. CASE q = r
        <5>1. Tracks(view, pending, Push(playersIn[q], p), connected, npcsIn[q], itemsIn[q],
                     carried[Me], installed, cpu, level)
          BY <1>2, <3>2, TracksHidden DEF TracksRoom
        <5> QED BY <1>4, <4>1, <5>1
      <4>2. CASE q # r
        BY <1>4, <3>2, <4>2 DEF TracksRoom
      <4> QED BY <4>1, <4>2
    <3> QED BY <3>3 DEF NWCCreatePlayer, mine, TracksRoom
  <2> QED BY <2>1, <2>2
<1> QED BY <1>1, <1>6, <1>7

LEMMA RoomLists ==
  ASSUME PlayersHere, NEW r \in Rooms, NEW p \in Players
  PROVE  /\ playersIn[r] \in Seq(Players)
         /\ Push(playersIn[r], p) \in Seq(Players)
         /\ ToSet(Push(playersIn[r], p)) = ToSet(playersIn[r]) \cup {p}
         /\ Without(playersIn[r], p) \in Seq(Players)
         /\ ToSet(Without(playersIn[r], p)) = ToSet(playersIn[r]) \ {p}
<1> DEFINE t == playersIn[r]
<1>1. t \in Seq(Players)
  BY DEF PlayersHere, Once
<1> HIDE DEF t
<1>2. Push(t, p) \in Seq(Players) /\ ToSet(Push(t, p)) = ToSet(t) \cup {p}
  BY <1>1, OfPush
<1>3. Without(t, p) \in Seq(Players) /\ ToSet(Without(t, p)) = ToSet(t) \ {p}
  BY <1>1, WithoutIs
<1> QED BY <1>1, <1>2, <1>3 DEF t

LEMMA TracksListing ==
  ASSUME NEW v, NEW s, NEW list, NEW K, NEW N, NEW I, NEW V, NEW S, NEW C, NEW L,
         Tracks(v, s, list, K, N, I, V, S, C, L)
  PROVE  Listing(s)
BY DEF Tracks, Accepts

\* Me is in one room while the session lasts, and follows it.
LEMMA MyRoom ==
  ASSUME MirrorInv, Me \in connected, ~ misnamed
  PROVE  /\ view.verdict # "lost" /\ Listing(pending)
         /\ RoomOf(Me) \in Rooms /\ Me \in ToSet(playersIn[RoomOf(Me)])
         /\ TracksRoom(RoomOf(Me))
         /\ \A r \in Rooms : Me \in ToSet(playersIn[r]) => r = RoomOf(Me)
<1>1. Me \in Players
  BY DEF Players
<1>2. /\ RoomOf(Me) \in Rooms /\ Me \in ToSet(playersIn[RoomOf(Me)])
      /\ \A r \in Rooms : Me \in ToSet(playersIn[r]) => r = RoomOf(Me)
  BY <1>1, RoomFacts DEF MirrorInv
<1>3. view.verdict # "lost" /\ TracksRoom(RoomOf(Me))
  BY <1>2 DEF MirrorInv, InStep
<1>4. Listing(pending)
  BY <1>3, TracksListing DEF TracksRoom
<1> QED BY <1>2, <1>3, <1>4

\* A session begins.
LEMMA NWCAuthKeeps ==
  ASSUME MirrorInv, NEW p \in Players, NWCAuth(p)
  PROVE  MirrorInv'
<1> USE DEF MirrorInv
<1> DEFINE in == Push(playersIn[Start], p)
<1>0. Start \in Rooms
  BY MirrorAssumption
<1>1. NPCsHere' /\ ItemsHere' /\ StatsHere'
  BY DEF NWCAuth, mine, NPCsHere, ItemsHere, StatsHere
<1>2. ~ In(playersIn, p) /\ p \notin connected
  BY RoomFacts DEF NWCAuth
<1>3. playersIn \in [Rooms -> Seq(Players)]
  BY DEF PlayersHere, Once
<1>4. /\ playersIn'[Start] = in
      /\ \A q \in Rooms : q # Start => playersIn'[q] = playersIn[q]
  BY <1>0, <1>3 DEF NWCAuth
<1>5. in \in Seq(Players) /\ ToSet(in) = ToSet(playersIn[Start]) \cup {p}
  BY <1>0, RoomLists
<1>6. PlayersHere'
  <2>1. Once(playersIn', Players)
    BY <1>0, <1>2, OnceComes DEF PlayersHere, NWCAuth
  <2> HIDE DEF in
  <2>2. \A q \in connected' : In(playersIn', q)
    BY <1>0, <1>4, <1>5 DEF PlayersHere, In, NWCAuth
  <2> QED BY <2>1, <2>2 DEF PlayersHere, NWCAuth
<1>7. Idle'
  BY DEF Idle, NWCAuth, Send
<1>8. CASE p = Me
  <2>1. ASSUME NEW r \in Rooms, Me \in ToSet(playersIn'[r]) PROVE r = Start
    <3>1. \A q \in Rooms : Me \notin ToSet(playersIn[q])
      BY <1>2, <1>8 DEF In
    <3> QED BY <1>4, <2>1, <3>1
  <2> DEFINE a == PlayerData(installed, carried[Me], cpu)
             b == EnterRoom(in, Start)
             c == Arrives(Me)
             K == connected \cup {p}
  <2>2. pending' = (a \o b) \o c /\ view' = NoView
    BY <1>8 DEF NWCAuth
  <2>3. Listing(a) /\ Listing(b)
    BY Listings DEF PlayerData, EnterRoom
  <2>4. <<>> \o (a \o b) = a \o b
    <3> HIDE DEF a, b
    <3>1. Listing(a \o b)
      BY <2>3, Listings
    <3> QED BY <3>1, Nothing
  <2> HIDE DEF in, K
  <2>5. Tracks(NoView, <<>> \o (a \o b), in, K, npcsIn[Start], itemsIn[Start], carried[Me],
               installed, cpu, level)
    BY <1>5, AcceptsNone, TracksData DEF PlayerData, EnterRoom
  <2>6. Tracks(NoView, (a \o b) \o c, in, K, npcsIn[Start], itemsIn[Start], carried[Me],
               installed, cpu, level)
    <3> HIDE DEF a, b
    <3> QED BY <2>4, <2>5, TracksOwnArrival
  <2> HIDE DEF a, b, c
  <2>7. TracksRoom(Start)'
    BY <1>4, <2>2, <2>6 DEF NWCAuth, mine, TracksRoom, K
  <2>8. view'.verdict # "lost"
    BY <2>2 DEF NoView
  <2> QED BY <1>1, <1>6, <1>7, <2>1, <2>7, <2>8 DEF InStep
<1>9. CASE p # Me
  <2>1. InStep'
    <3> SUFFICES ASSUME Me \in connected, ~ misnamed
                 PROVE  /\ view'.verdict # "lost"
                        /\ \A q \in Rooms : Me \in ToSet(playersIn'[q]) => TracksRoom(q)'
      BY <1>0, <1>9 DEF InStep, NWCAuth
    <3>1. PICK r \in Rooms :
            /\ view.verdict # "lost" /\ Listing(pending)
            /\ Me \in ToSet(playersIn[r]) /\ TracksRoom(r)
            /\ \A q \in Rooms : Me \in ToSet(playersIn[q]) => q = r
      BY MyRoom
    <3> HIDE DEF in
    <3>2. \A q \in Rooms : Me \in ToSet(playersIn'[q]) => q = r
      BY <1>4, <1>5, <1>9, <3>1
    <3>3. p \notin ToSet(playersIn[r])
      BY <1>2, <3>1 DEF In
    <3>4. Tracks(view, pending, playersIn[r], connected \cup {p}, npcsIn[r], itemsIn[r],
                 carried[Me], installed, cpu, level)
      BY <3>1, <3>3, TracksMore DEF TracksRoom
    <3>5. pending' = pending \o ToRoom(in, Arrives(p)) /\ view' = view
      BY <1>9 DEF NWCAuth, Send, in
    <3>6. Tracks(view, pending', playersIn'[r], connected \cup {p}, npcsIn[r], itemsIn[r],
                 carried[Me], installed, cpu, level)
      <4>1. CASE r = Start
        <5>1. pending' = pending \o Arrives(p)
          BY <1>5, <3>1, <3>5, <4>1 DEF ToRoom
        <5>2. playersIn'[r] = Push(playersIn[r], p)
          BY <1>4, <4>1 DEF in
        <5>3. Tracks(view, pending \o Arrives(p), Push(playersIn[r], p), connected \cup {p},
                     npcsIn[r], itemsIn[r], carried[Me], installed, cpu, level)
          BY <1>9, <3>3, <3>4, TracksArrives
        <5> QED BY <5>1, <5>2, <5>3
      <4>2. CASE r # Start
        <5>1. Me \notin ToSet(in)
          BY <1>0, <1>5, <1>9, <3>1, <4>2
        <5>2. pending' = pending
          BY <3>1, <3>5, <5>1, Nothing DEF ToRoom
        <5> QED BY <1>4, <3>1, <3>4, <4>2, <5>2
      <4> QED BY <4>1, <4>2
    <3>7. TracksRoom(r)'
      BY <3>5, <3>6 DEF NWCAuth, mine, TracksRoom
    <3> QED BY <3>1, <3>2, <3>5, <3>7
  <2> QED BY <1>1, <1>6, <1>7, <2>1
<1> QED BY <1>8, <1>9

\* Moves: where the others are does not change.
LEMMA MovedIs ==
  ASSUME PlayersHere, NEW p \in Players, NEW from \in Rooms, NEW to \in Rooms,
         p \in ToSet(playersIn[from]), NEW new, new = Moved(p, from, to)
  PROVE  /\ Once(new, Players)
         /\ new[to] = Push(Without(playersIn[to], p), p)
         /\ to # from => new[from] = Without(playersIn[from], p) /\ new[to] = Push(playersIn[to], p)
         /\ p \in ToSet(new[to])
         /\ \A y \in Players : \A q \in Rooms :
              y # p => (y \in ToSet(new[q]) <=> y \in ToSet(playersIn[q]))
         /\ \A q \in Rooms : q # to /\ q # from => new[q] = playersIn[q]
         /\ \A y \in Players : In(playersIn, y) => In(new, y)
<1>1. new = Goes(playersIn, p, from, to)
  BY DEF Moved, Goes
<1>2. /\ Once(new, Players)
      /\ new[to] = Push(Without(playersIn[to], p), p)
      /\ to # from =>
           new[from] = Without(playersIn[from], p) /\ Without(playersIn[to], p) = playersIn[to]
      /\ p \in ToSet(new[to])
      /\ \A y \in Players : \A q \in Rooms :
           y # p => (y \in ToSet(new[q]) <=> y \in ToSet(playersIn[q]))
      /\ \A q \in Rooms : q # to /\ q # from => new[q] = playersIn[q]
  BY <1>1, GoesIs DEF PlayersHere
<1>3. \A y \in Players : In(playersIn, y) => In(new, y)
  BY <1>2 DEF In
<1> QED BY <1>2, <1>3

LEMMA WalkKeeps ==
  ASSUME MirrorInv, NEW p \in Players, p \in connected, NEW to \in Rooms, NEW how,
         Walk(p, to, how), StatsHere',
         p # Me => cpu' = cpu,
         p = Me => \/ how = "exit" /\ cpu' = cpu - MoveCPU(MaxCPU(installed))
                      /\ ~ (MoveCPU(MaxCPU(installed)) > cpu)
                   \/ how = "flee" /\ cpu' = 0
  PROVE  MirrorInv'
<1> USE DEF MirrorInv
<1> DEFINE from == RoomOf(p)
           new == Moved(p, from, to)
<1>0. /\ to # from /\ playersIn' = new /\ misnamed' = misnamed
      /\ connected' = connected /\ view' = view
  BY DEF Walk, sessions
<1>1. NPCsHere' /\ ItemsHere'
  BY DEF Walk, NPCsHere, ItemsHere
<1>2. from \in Rooms /\ p \in ToSet(playersIn[from])
  BY RoomFacts
<1> DEFINE X1 == ToRoom(playersIn[from], Leaves(p, how))
           X2 == IF p = Me THEN EnterRoom(new[to], to) ELSE <<>>
           X3 == ToRoom(new[to], Arrives(p))
<1>3. pending' = IF Me \in connected THEN pending \o (X1 \o X2 \o X3) ELSE pending
  BY DEF Walk, Send
<1>4. /\ X2 = IF p = Me THEN EnterRoom(new[to], to) ELSE <<>>
      /\ X1 = ToRoom(playersIn[from], Leaves(p, how)) /\ X3 = ToRoom(new[to], Arrives(p))
  OBVIOUS
<1> HIDE DEF new, X1, X2, X3
<1>5. /\ Once(new, Players)
      /\ new[from] = Without(playersIn[from], p) /\ new[to] = Push(playersIn[to], p)
      /\ p \in ToSet(new[to])
      /\ \A y \in Players : \A q \in Rooms :
           y # p => (y \in ToSet(new[q]) <=> y \in ToSet(playersIn[q]))
      /\ \A q \in Rooms : q # to /\ q # from => new[q] = playersIn[q]
      /\ \A y \in Players : In(playersIn, y) => In(new, y)
  BY <1>0, <1>2, MovedIs DEF new
<1> HIDE DEF from
<1>6. PlayersHere'
  BY <1>0, <1>5 DEF PlayersHere
<1>7. Idle'
  BY <1>0, <1>3 DEF Idle
<1>8. Listing(Leaves(p, how)) /\ Listing(Arrives(p)) /\ Listing(EnterRoom(new[to], to))
  BY Listings DEF Leaves, Arrives, EnterRoom
<1>9. InStep'
  <2> SUFFICES ASSUME Me \in connected, ~ misnamed
               PROVE  /\ view'.verdict # "lost"
                      /\ \A q \in Rooms : Me \in ToSet(playersIn'[q]) => TracksRoom(q)'
    BY <1>0 DEF InStep
  <2>1. PICK r \in Rooms :
          /\ view.verdict # "lost" /\ Listing(pending)
          /\ Me \in ToSet(playersIn[r]) /\ TracksRoom(r)
          /\ \A q \in Rooms : Me \in ToSet(playersIn[q]) => q = r
    BY MyRoom
  <2>2. Me \in Players
    BY DEF Players
  <2>3. p = Me => r = from
    BY <1>2, <2>1
  <2>4. CASE p = Me
    <3> DEFINE A == Leaves(Me, how)
               B == EnterRoom(new[to], to)
               D == Arrives(Me)
    <3>1. pending' = pending \o ((A \o B) \o D)
      BY <1>2, <1>3, <1>4, <1>5, <2>4 DEF ToRoom
    <3>2. Listing(A) /\ Listing(B) /\ Listing(D)
      BY <1>8, <2>4
    <3>3. Tracks(view, pending \o A, playersIn[r], connected, npcsIn[r], itemsIn[r], carried[Me],
                 installed, cpu', level)
      BY <2>1, <2>4, TracksExit, TracksFlight DEF TracksRoom
    <3>4. Tracks(view, (pending \o A) \o B, new[to], connected, npcsIn[to], itemsIn[to],
                 carried[Me], installed, cpu', level)
      <4>1. new[to] \in Seq(Players)
        BY <1>5 DEF Once
      <4> QED BY <3>3, <4>1, TracksNewRoom DEF EnterRoom
    <3>5. Tracks(view, ((pending \o A) \o B) \o D, new[to], connected, npcsIn[to], itemsIn[to],
                 carried[Me], installed, cpu', level)
      <4> HIDE DEF A, B
      <4> QED BY <3>4, TracksOwnArrival
    <3> HIDE DEF A, B, D
    <3>6. pending' = ((pending \o A) \o B) \o D
      <4>1. Listing(A \o B)
        BY <3>2, Listings
      <4>2. pending \o ((A \o B) \o D) = (pending \o (A \o B)) \o D
        BY <2>1, <3>2, <4>1, Assoc
      <4>3. pending \o (A \o B) = (pending \o A) \o B
        BY <2>1, <3>2, Assoc
      <4> QED BY <3>1, <4>2, <4>3
    <3>7. TracksRoom(to)'
      BY <1>0, <3>5, <3>6 DEF Walk, TracksRoom
    <3>8. \A q \in Rooms : Me \in ToSet(playersIn'[q]) => q = to
      BY <1>0, <1>5, <2>2, <2>4 DEF Once
    <3> QED BY <1>0, <2>1, <3>7, <3>8
  <2>5. CASE p # Me
    <3>1. X2 = <<>> /\ cpu' = cpu
      BY <1>4, <2>5
    <3>2. \A q \in Rooms : Me \in ToSet(new[q]) <=> Me \in ToSet(playersIn[q])
      BY <1>5, <2>2, <2>5
    <3>3. Tracks(view, pending', playersIn'[r], connected, npcsIn[r], itemsIn[r], carried[Me],
                 installed, cpu, level)
      <4>1. CASE r = from
        <5>1. X1 = Leaves(p, how) /\ X3 = <<>>
          BY <1>0, <1>4, <2>1, <3>2, <4>1 DEF ToRoom
        <5>2. X1 \o X2 \o X3 = Leaves(p, how)
          BY <1>8, <3>1, <5>1, Nothing
        <5>3. Tracks(view, pending \o Leaves(p, how), Without(playersIn[r], p), connected,
                     npcsIn[r], itemsIn[r], carried[Me], installed, cpu, level)
          BY <2>1, <2>5, TracksLeaves DEF TracksRoom
        <5> QED BY <1>0, <1>3, <1>5, <4>1, <5>2, <5>3
      <4>2. CASE r = to
        <5>1. X1 = <<>> /\ X3 = Arrives(p)
          BY <1>0, <1>2, <1>4, <2>1, <3>2, <4>2 DEF ToRoom
        <5>2. X1 \o X2 \o X3 = Arrives(p)
          BY <1>8, <3>1, <5>1, Nothing, Listings
        <5>3. p \notin ToSet(playersIn[r])
          BY <1>0, <1>2, <4>2 DEF PlayersHere, Once
        <5>4. Tracks(view, pending \o Arrives(p), Push(playersIn[r], p), connected,
                     npcsIn[r], itemsIn[r], carried[Me], installed, cpu, level)
          BY <2>1, <2>5, <5>3, TracksArrives DEF TracksRoom
        <5> QED BY <1>0, <1>3, <1>5, <4>2, <5>2, <5>4
      <4>3. CASE r # from /\ r # to
        <5>1. X1 = <<>> /\ X3 = <<>>
          BY <1>2, <1>4, <2>1, <3>2, <4>3 DEF ToRoom
        <5>2. X1 \o X2 \o X3 = <<>>
          BY <3>1, <5>1, Nothing, Listings
        <5>3. pending' = pending
          BY <1>3, <2>1, <5>2, Nothing
        <5> QED BY <1>0, <1>5, <2>1, <4>3, <5>3 DEF TracksRoom
      <4> QED BY <4>1, <4>2, <4>3
    <3>4. TracksRoom(r)'
      BY <1>0, <3>1, <3>3 DEF Walk, TracksRoom
    <3> QED BY <1>0, <2>1, <3>2, <3>4
  <2> QED BY <2>4, <2>5
<1> QED BY <1>1, <1>6, <1>7, <1>9

LEMMA CPUFacts ==
  ASSUME NEW S \in Items \cup {NoItem}
  PROVE  /\ MaxCPU(S) \in Nat /\ MoveCPU(MaxCPU(S)) \in Nat
         /\ MaxCPU(S) \div 10 \in Nat /\ MaxCPU(S) \div 10 <= MaxCPU(S)
         /\ \A c \in Nat : /\ Limit(c, MaxCPU(S)) \in Nat /\ Limit(c, MaxCPU(S)) <= MaxCPU(S)
                           /\ c <= MaxCPU(S) => Limit(c, MaxCPU(S)) = c
<1>1. MaxCPU(S) \in Nat
  BY MirrorAssumption DEF MaxCPU
<1> QED BY <1>1 DEF MoveCPU, Limit

LEMMA NWCDirectionKeeps ==
  ASSUME MirrorInv, NEW p \in Players, NEW to \in Rooms, NWCDirection(p, to)
  PROVE  MirrorInv'
<1>1. MoveCPU(MaxCPU(installed)) \in Nat /\ MaxCPU(installed) \in Nat
  BY CPUFacts DEF MirrorInv, ItemsHere, Apart
<1>2. cpu \in Nat /\ cpu <= MaxCPU(installed) /\ level \in Nat
  BY DEF MirrorInv, StatsHere
<1>3. Walk(p, to, "exit") /\ p \in connected
  BY DEF NWCDirection
<1>4. installed' = installed /\ level' = level
  BY <1>3 DEF Walk
<1>5. /\ p # Me => cpu' = cpu
      /\ p = Me => cpu' = cpu - MoveCPU(MaxCPU(installed)) /\ cpu >= MoveCPU(MaxCPU(installed))
  BY DEF NWCDirection
<1>6. cpu' \in Nat /\ cpu' <= MaxCPU(installed)
  BY <1>1, <1>2, <1>5
<1>7. StatsHere'
  BY <1>2, <1>4, <1>6 DEF StatsHere
<1>8. p = Me => ~ (MoveCPU(MaxCPU(installed)) > cpu)
  BY <1>1, <1>2, <1>5
<1> QED BY <1>3, <1>5, <1>7, <1>8, WalkKeeps

LEMMA NWCPlayerFleeKeeps ==
  ASSUME MirrorInv, NEW p \in Players, NEW to \in Rooms, NWCPlayerFlee(p, to)
  PROVE  MirrorInv'
<1>1. MaxCPU(installed) \in Nat
  BY CPUFacts DEF MirrorInv, ItemsHere, Apart
<1>2. cpu \in Nat /\ cpu <= MaxCPU(installed) /\ level \in Nat
  BY DEF MirrorInv, StatsHere
<1>3. Walk(p, to, "flee") /\ p \in connected
  BY DEF NWCPlayerFlee
<1>4. installed' = installed /\ level' = level
  BY <1>3 DEF Walk
<1>5. (p # Me => cpu' = cpu) /\ (p = Me => cpu' = 0)
  BY DEF NWCPlayerFlee
<1>6. StatsHere'
  BY <1>1, <1>2, <1>4, <1>5 DEF StatsHere
<1> QED BY <1>3, <1>5, <1>6, WalkKeeps

\* What a player loses leaves the player, and falls into the room.
LEMMA LossesFall ==
  ASSUME ItemsHere, NEW p \in Players, TakeLosses(p), NEW r \in Rooms
  PROVE  \E J, T : /\ Dropped(itemsIn[r], Losses(p)) = Room(J, T)
                   /\ Listing(T) /\ Leads(itemsIn[r], T, J)
                   /\ Apart([itemsIn EXCEPT ![r] = J], carried', installed')
                   /\ p # Me => carried'[Me] = carried[Me] /\ installed' = installed
<1> DEFINE c == carried[p]
           F == Flagged(c)
           U == Unflagged(c)
           X == Losses(p)
           I == itemsIn[r]
<1>1. c \in Seq(Items) /\ Distinct(c)
  BY DEF ItemsHere, Apart
<1>2. I \in Seq(Items) /\ Distinct(I) /\ ToSet(I) \cap ToSet(c) = {}
  BY DEF ItemsHere, Apart
<1>3. carried' = [carried EXCEPT ![p] = U]
  BY DEF TakeLosses
<1>4. X = (IF p = Me /\ installed \in DropOnPK THEN <<installed>> ELSE <<>>) \o F
  BY DEF Losses
<1>5. carried \in [Players -> Seq(Items)]
  BY DEF ItemsHere, Apart
<1> HIDE DEF X
<1>6. /\ F \in Seq(Items) /\ Distinct(F) /\ ToSet(F) = ToSet(c) \cap DropOnPK
      /\ U \in Seq(Items) /\ Distinct(U) /\ ToSet(U) = ToSet(c) \cap (Items \ DropOnPK)
  BY <1>1, OnlyTyped DEF Flagged, Unflagged
<1>7. /\ installed \notin ToSet(I) /\ installed \notin ToSet(c)
      /\ installed \in Items \cup {NoItem}
  BY DEF ItemsHere, Apart
<1> HIDE DEF F, U
<1>8. CASE ~ (p = Me /\ installed \in DropOnPK)
  <2>1. X = F
    BY <1>4, <1>6, <1>8
  <2>2. installed' = installed
    BY <1>8 DEF TakeLosses
  <2>3. Apart(itemsIn, carried', installed')
    <3>1. Nowhere(itemsIn, carried, installed, {}) /\ ToSet(U) \subseteq ToSet(carried[p]) \cup {}
      BY <1>6 DEF Nowhere
    <3> QED BY <1>3, <1>6, <2>2, <3>1, CarriedOther DEF ItemsHere
  <2>4. Nowhere(itemsIn, carried', installed', ToSet(X))
    <3>1. carried'[p] = U /\ \A q \in Players : q # p => carried'[q] = carried[q]
      BY <1>3, <1>5
    <3>2. \A q \in Players : ToSet(carried'[q]) \cap ToSet(F) = {}
      BY <1>6, <3>1 DEF ItemsHere, Apart
    <3>3. \A q \in Rooms : ToSet(itemsIn[q]) \cap ToSet(F) = {}
      BY <1>6 DEF ItemsHere, Apart
    <3> QED BY <1>6, <1>7, <2>1, <2>2, <3>2, <3>3 DEF Nowhere
  <2>5. DropsTo(I, ToSet(X), Dropped(I, X))
    <3>1. ToSet(I) \cap ToSet(X) = {}
      BY <1>2, <1>6, <2>1
    <3> HIDE DEF I
    <3> QED BY <1>2, <1>6, <2>1, <3>1, DropsAll
  <2>6. p # Me => carried'[Me] = carried[Me]
    BY <1>3, <1>5
  <2>7. PICK J, T : /\ Dropped(I, X) = Room(J, T)
                    /\ J \in Seq(Items) /\ Distinct(J) /\ ToSet(J) \subseteq ToSet(I) \cup ToSet(X)
                    /\ Listing(T) /\ Leads(I, T, J)
    BY <2>5 DEF DropsTo
  <2>8. Apart([itemsIn EXCEPT ![r] = J], carried', installed')
    BY <2>3, <2>4, <2>7, RoomOther
  <2> QED BY <2>2, <2>6, <2>7, <2>8 DEF X
<1>9. CASE p = Me /\ installed \in DropOnPK
  <2>1. X = Push(F, installed)
    BY <1>4, <1>9 DEF Push
  <2>2. installed' = NoItem /\ installed \in Items
    BY <1>9, MirrorAssumption DEF TakeLosses
  <2>3. installed \notin ToSet(F)
    BY <1>6, <1>7
  <2>4. X \in Seq(Items) /\ ToSet(X) = ToSet(F) \cup {installed} /\ Distinct(X)
    BY <1>6, <2>1, <2>2, <2>3, OfPush
  <2>5. Apart(itemsIn, carried', installed')
    <3>1. Nowhere(itemsIn, carried, installed, {}) /\ ToSet(U) \subseteq ToSet(carried[p]) \cup {}
      BY <1>6 DEF Nowhere
    <3>2. Apart(itemsIn, carried', installed)
      BY <1>3, <1>6, <3>1, CarriedOther DEF ItemsHere
    <3> QED BY <2>2, <3>2, SlotEmpties
  <2>6. Nowhere(itemsIn, carried', installed', ToSet(X))
    <3>1. carried'[p] = U /\ \A q \in Players : q # p => carried'[q] = carried[q]
      BY <1>3, <1>5
    <3>2. \A q \in Players : ToSet(carried'[q]) \cap ToSet(F) = {}
      BY <1>6, <3>1 DEF ItemsHere, Apart
    <3>3. \A q \in Rooms : ToSet(itemsIn[q]) \cap ToSet(F) = {}
      BY <1>6 DEF ItemsHere, Apart
    <3>4. \A q \in Rooms : installed \notin ToSet(itemsIn[q])
      BY DEF ItemsHere, Apart
    <3>5. \A q \in Players : installed \notin ToSet(carried'[q])
      BY <1>6, <1>7, <3>1 DEF ItemsHere, Apart
    <3>6. NoItem \notin ToSet(X)
      BY <1>6, <2>2, <2>4, MirrorAssumption
    <3> QED BY <2>2, <2>4, <3>2, <3>3, <3>4, <3>5, <3>6 DEF Nowhere
  <2>7. DropsTo(I, ToSet(X), Dropped(I, X))
    <3>1. ToSet(I) \cap ToSet(X) = {}
      BY <1>2, <1>6, <1>7, <2>4
    <3> HIDE DEF I
    <3> QED BY <1>2, <2>4, <3>1, DropsAll
  <2>8. PICK J, T : /\ Dropped(I, X) = Room(J, T)
                    /\ J \in Seq(Items) /\ Distinct(J) /\ ToSet(J) \subseteq ToSet(I) \cup ToSet(X)
                    /\ Listing(T) /\ Leads(I, T, J)
    BY <2>7 DEF DropsTo
  <2>9. Apart([itemsIn EXCEPT ![r] = J], carried', installed')
    BY <2>5, <2>6, <2>8, RoomOther
  <2> QED BY <1>9, <2>8, <2>9 DEF X
<1> QED BY <1>8, <1>9

\* The object of a session that is over leaves the room, and its losses stay.
LEMMA HandleDisconnectKeeps ==
  ASSUME MirrorInv, NEW p \in Players, HandleDisconnect(p)
  PROVE  MirrorInv'
<1> USE DEF MirrorInv
<1>0. PICK s \in Rooms : s = RoomOf(p) /\ p \in ToSet(playersIn[s])
  BY RoomFacts DEF HandleDisconnect
<1>1. PICK J, T : /\ Dropped(itemsIn[s], Losses(p)) = Room(J, T)
                  /\ Listing(T) /\ Leads(itemsIn[s], T, J)
                  /\ Apart([itemsIn EXCEPT ![s] = J], carried', installed')
                  /\ p # Me => carried'[Me] = carried[Me] /\ installed' = installed
  BY LossesFall DEF HandleDisconnect
<1>2. Room(J, T).items = J /\ Room(J, T).told = T
  BY DEF Room
<1>3. /\ itemsIn' = [itemsIn EXCEPT ![s] = J]
      /\ playersIn' = [playersIn EXCEPT ![s] = Without(@, p)]
      /\ Send(ToRoom(playersIn[s], Leaves(p, "logout") \o T))
      /\ p \notin connected
  BY <1>0, <1>1, <1>2 DEF HandleDisconnect
<1>4. connected' = connected /\ misnamed' = misnamed /\ view' = view /\ npcsIn' = npcsIn
      /\ level' = level
  BY DEF HandleDisconnect, sessions
<1>5. NPCsHere' /\ ItemsHere'
  BY <1>1, <1>3, <1>4 DEF NPCsHere, ItemsHere
<1>6. StatsHere'
  <2>1. cpu \in Nat /\ cpu <= MaxCPU(installed) /\ level \in Nat
    BY DEF StatsHere
  <2>2. installed' \in Items \cup {NoItem}
    BY <1>1 DEF Apart
  <2>3. Limit(cpu, MaxCPU(installed')) \in Nat /\ Limit(cpu, MaxCPU(installed')) <= MaxCPU(installed')
    BY <2>1, <2>2, CPUFacts
  <2>4. cpu' = IF p = Me THEN Limit(cpu, MaxCPU(installed')) ELSE cpu
    BY DEF HandleDisconnect
  <2> QED BY <1>1, <1>4, <2>1, <2>3, <2>4 DEF StatsHere
<1>7. playersIn \in [Rooms -> Seq(Players)]
  BY DEF PlayersHere, Once
<1>8. /\ playersIn'[s] = Without(playersIn[s], p)
      /\ \A q \in Rooms : q # s => playersIn'[q] = playersIn[q]
      /\ ToSet(Without(playersIn[s], p)) = ToSet(playersIn[s]) \ {p}
  BY <1>3, <1>7, RoomLists
<1>9. PlayersHere'
  <2>1. Once(playersIn', Players)
    BY <1>3, OnceGoes DEF PlayersHere
  <2>2. \A q \in connected : In(playersIn', q)
    <3> SUFFICES ASSUME NEW q \in connected PROVE In(playersIn', q)
      OBVIOUS
    <3>1. PICK r \in Rooms : q \in ToSet(playersIn[r])
      BY DEF PlayersHere, In
    <3>2. q \in ToSet(playersIn'[r])
      BY <1>3, <1>8, <3>1
    <3> QED BY <3>2 DEF In
  <2> QED BY <1>4, <2>1, <2>2 DEF PlayersHere
<1>10. Idle'
  BY <1>3, <1>4 DEF Idle, Send
<1>11. InStep'
  <2> SUFFICES ASSUME Me \in connected, ~ misnamed
               PROVE  /\ view'.verdict # "lost"
                      /\ \A q \in Rooms : Me \in ToSet(playersIn'[q]) => TracksRoom(q)'
    BY <1>3, <1>4 DEF InStep
  <2>1. PICK r \in Rooms :
          /\ view.verdict # "lost" /\ Listing(pending)
          /\ Me \in ToSet(playersIn[r]) /\ TracksRoom(r)
          /\ \A q \in Rooms : Me \in ToSet(playersIn[q]) => q = r
    BY MyRoom
  <2>2. p # Me /\ cpu' = cpu /\ installed' = installed /\ carried'[Me] = carried[Me]
    BY <1>1, <1>3 DEF HandleDisconnect
  <2>3. \A q \in Rooms : Me \in ToSet(playersIn'[q]) => q = r
    BY <1>8, <2>1
  <2>4. Tracks(view, pending', playersIn'[r], connected, npcsIn[r], itemsIn'[r], carried[Me],
               installed, cpu, level)
    <3>1. CASE r = s
      <4> DEFINE A == Leaves(p, "logout")
      <4>1. pending' = pending \o (A \o T)
        BY <1>3, <2>1, <3>1 DEF Send, ToRoom
      <4>2. Listing(A)
        BY Listings DEF Leaves
      <4>3. Tracks(view, pending \o A, Without(playersIn[r], p), connected, npcsIn[r], itemsIn[r],
                   carried[Me], installed, cpu, level)
        BY <2>1, <2>2, TracksLeaves DEF TracksRoom
      <4> HIDE DEF A
      <4>4. Tracks(view, (pending \o A) \o T, Without(playersIn[r], p), connected, npcsIn[r], J,
                   carried[Me], installed, cpu, level)
        BY <1>1, <3>1, <4>3, TracksItems
      <4>5. pending' = (pending \o A) \o T
        BY <1>1, <2>1, <4>1, <4>2, Assoc
      <4>6. itemsIn'[r] = J
        BY <1>3, <3>1 DEF ItemsHere, Apart
      <4> QED BY <1>8, <3>1, <4>4, <4>5, <4>6
    <3>2. CASE r # s
      <4>1. ToRoom(playersIn[s], Leaves(p, "logout") \o T) = <<>>
        BY <2>1, <3>2 DEF ToRoom
      <4>2. pending' = pending
        BY <1>3, <2>1, <4>1, Nothing DEF Send
      <4>3. itemsIn'[r] = itemsIn[r]
        BY <1>3, <3>2 DEF ItemsHere, Apart
      <4> QED BY <1>8, <2>1, <3>2, <4>2, <4>3 DEF TracksRoom
    <3> QED BY <3>1, <3>2
  <2>5. TracksRoom(r)'
    BY <1>4, <2>2, <2>4 DEF TracksRoom
  <2> QED BY <1>4, <2>1, <2>3, <2>5
<1> QED BY <1>5, <1>6, <1>9, <1>10, <1>11

\* A player dies and starts again, here or elsewhere.
LEMMA KillKeeps ==
  ASSUME MirrorInv, NEW p \in Players, NEW to \in Rooms, Kill(p, to)
  PROVE  MirrorInv'
<1> USE DEF MirrorInv
<1>0. PICK from \in Rooms : from = RoomOf(p) /\ p \in ToSet(playersIn[from])
  BY RoomFacts DEF Kill
<1>1. PICK J, T : /\ Dropped(itemsIn[from], Losses(p)) = Room(J, T)
                  /\ Listing(T) /\ Leads(itemsIn[from], T, J)
                  /\ Apart([itemsIn EXCEPT ![from] = J], carried', installed')
                  /\ p # Me => carried'[Me] = carried[Me] /\ installed' = installed
  BY LossesFall DEF Kill
<1>2. Room(J, T).items = J /\ Room(J, T).told = T
  BY DEF Room
<1> DEFINE new == Moved(p, from, to)
           there == [itemsIn EXCEPT ![from] = J]
           seen == IF p # Me THEN Killed(p) ELSE <<>>
           a == PlayerData(installed', carried'[Me], cpu')
           b == <<[kind |-> "enterRoom", players |-> new[to], npcs |-> npcsIn[to],
                   items |-> there[to]]>>
           X1 == ToRoom(playersIn[from], seen \o T)
           X2 == IF p = Me THEN a \o b ELSE <<>>
           X3 == IF p \in connected THEN ToRoom(new[to], Arrives(p)) ELSE <<>>
<1>3. /\ itemsIn' = there /\ playersIn' = new
      /\ pending' = IF Me \in connected THEN pending \o (X1 \o X2 \o X3) ELSE pending
  BY <1>0, <1>1, <1>2 DEF Kill, Send
<1>4. connected' = connected /\ misnamed' = misnamed /\ view' = view /\ npcsIn' = npcsIn
      /\ level' = level
  BY DEF Kill, sessions
<1>5. NPCsHere' /\ ItemsHere'
  BY <1>1, <1>3, <1>4 DEF NPCsHere, ItemsHere
<1>6. StatsHere'
  <2>1. cpu \in Nat /\ cpu <= MaxCPU(installed) /\ level \in Nat
    BY DEF StatsHere
  <2>2. installed' \in Items \cup {NoItem}
    BY <1>1 DEF Apart
  <2>3. MaxCPU(installed') \div 10 \in Nat /\ MaxCPU(installed') \div 10 <= MaxCPU(installed')
    BY <2>2, CPUFacts
  <2>4. cpu' = IF p = Me THEN MaxCPU(installed') \div 10 ELSE cpu
    BY DEF Kill
  <2> QED BY <1>1, <1>4, <2>1, <2>3, <2>4 DEF StatsHere
<1>7. /\ X1 = ToRoom(playersIn[from], seen \o T)
      /\ X2 = IF p = Me THEN a \o b ELSE <<>>
      /\ X3 = IF p \in connected THEN ToRoom(new[to], Arrives(p)) ELSE <<>>
      /\ seen = IF p # Me THEN Killed(p) ELSE <<>>
  OBVIOUS
<1> HIDE DEF X1, X2, X3, seen, new
<1>8. /\ Once(new, Players)
      /\ new[to] = Push(Without(playersIn[to], p), p)
      /\ to # from => new[from] = Without(playersIn[from], p) /\ new[to] = Push(playersIn[to], p)
      /\ p \in ToSet(new[to])
      /\ \A y \in Players : \A q \in Rooms :
           y # p => (y \in ToSet(new[q]) <=> y \in ToSet(playersIn[q]))
      /\ \A q \in Rooms : q # to /\ q # from => new[q] = playersIn[q]
      /\ \A y \in Players : In(playersIn, y) => In(new, y)
  BY <1>0, MovedIs DEF new
<1>9. PlayersHere'
  BY <1>3, <1>4, <1>8 DEF PlayersHere
<1>10. Idle'
  BY <1>3, <1>4 DEF Idle
<1>11. there[from] = J /\ \A q \in Rooms : q # from => there[q] = itemsIn[q]
  BY DEF ItemsHere, Apart
<1> HIDE DEF there
<1>12. Listing(Killed(p)) /\ Listing(Arrives(p)) /\ Listing(a) /\ Listing(b)
  BY Listings DEF Killed, Arrives, PlayerData
<1> HIDE DEF a, b
<1>13. Me \in Players
  BY DEF Players
<1>14. ASSUME Me \in connected, ~ misnamed PROVE view'.verdict # "lost" /\ InStep'
  <2>1. PICK r \in Rooms :
          /\ view.verdict # "lost" /\ Listing(pending)
          /\ Me \in ToSet(playersIn[r]) /\ TracksRoom(r)
          /\ \A q \in Rooms : Me \in ToSet(playersIn[q]) => q = r
    BY <1>14, MyRoom
  <2>2. pending' = pending \o (X1 \o X2 \o X3)
    BY <1>3, <1>14
  <2>3. CASE p = Me
    <3>1. r = from
      BY <1>0, <2>1, <2>3
    <3>2. X1 = T
      <4>1. <<>> \o T = T
        BY <1>1, Nothing
      <4> QED BY <1>0, <1>7, <2>3, <4>1 DEF ToRoom
    <3>3. X2 = a \o b /\ X3 = Arrives(Me)
      BY <1>7, <1>8, <1>14, <2>3 DEF ToRoom
    <3>4. PICK z : Accepts(view, pending \o T, z)
      <4>1. Tracks(view, pending \o T, playersIn[r], connected, npcsIn[r], J, carried[Me],
                   installed, cpu, level)
        BY <1>1, <2>1, <3>1, TracksItems DEF TracksRoom
      <4> QED BY <4>1 DEF Tracks
    <3>5. Tracks(view, (pending \o T) \o (a \o b), new[to], connected, npcsIn[to], there[to],
                 carried'[Me], installed', cpu', level)
      <4>1. new[to] \in Seq(Players)
        BY <1>8 DEF Once
      <4> QED BY <3>4, <4>1, TracksData DEF a, b, PlayerData
    <3>6. Tracks(view, ((pending \o T) \o (a \o b)) \o Arrives(Me), new[to], connected,
                 npcsIn[to], there[to], carried'[Me], installed', cpu', level)
      BY <3>5, TracksOwnArrival
    <3>7. pending' = ((pending \o T) \o (a \o b)) \o Arrives(Me)
      <4>1. PICK d : d = a \o b
        OBVIOUS
      <4>2. PICK e : e = T \o d
        OBVIOUS
      <4>3. PICK c : c = Arrives(Me)
        OBVIOUS
      <4>4. pending' = pending \o (e \o c)
        BY <2>2, <3>2, <3>3, <4>1, <4>2, <4>3
      <4>5. Listing(d) /\ Listing(c)
        BY <1>12, <2>3, <4>1, <4>3, Listings
      <4>6. Listing(e)
        BY <1>1, <4>2, <4>5, Listings
      <4>7. pending \o e = (pending \o T) \o d
        BY <1>1, <2>1, <4>2, <4>5, Assoc
      <4>8. pending \o (e \o c) = (pending \o e) \o c
        BY <2>1, <4>5, <4>6, Assoc
      <4> QED BY <4>1, <4>3, <4>4, <4>7, <4>8
    <3>8. TracksRoom(to)'
      BY <1>3, <1>4, <3>6, <3>7 DEF TracksRoom
    <3>9. \A q \in Rooms : Me \in ToSet(new[q]) => q = to
      BY <1>8, <1>13, <2>3 DEF Once
    <3> QED BY <1>3, <1>4, <2>1, <3>8, <3>9 DEF InStep
  <2>4. CASE p # Me
    <3>1. /\ X2 = <<>> /\ seen = Killed(p) /\ p \in Others
          /\ cpu' = cpu /\ installed' = installed /\ carried'[Me] = carried[Me]
      BY <1>1, <1>7, <2>4 DEF Players, Kill
    <3>2. \A q \in Rooms : Me \in ToSet(new[q]) <=> Me \in ToSet(playersIn[q])
      BY <1>8, <1>13, <2>4
    <3>3. Listing(X1) /\ Listing(X3)
      <4>1. Listing(Killed(p) \o T)
        BY <1>1, <1>12, Listings
      <4> QED BY <1>7, <1>12, <3>1, <4>1, Listings DEF ToRoom
    <3>4. pending' = (pending \o X1) \o X3
      <4>1. X1 \o <<>> = X1
        BY <3>3, Nothing
      <4>2. pending \o (X1 \o X3) = (pending \o X1) \o X3
        BY <2>1, <3>3, Assoc
      <4> QED BY <2>2, <3>1, <4>1, <4>2
    <3> DEFINE list == IF r = from THEN Without(playersIn[r], p) ELSE playersIn[r]
    <3>5. list \in Seq(Players) /\ p \notin ToSet(list)
      BY <1>0, <2>1, RoomLists DEF PlayersHere, Once
    <3>6. Tracks(view, pending \o X1, list, connected, npcsIn[r], there[r], carried[Me],
                 installed, cpu, level)
      <4>1. CASE r = from
        <5>1. X1 = Killed(p) \o T
          BY <1>7, <2>1, <3>1, <4>1 DEF ToRoom
        <5>2. p \notin ToSet(npcsIn[r])
          <6>1. npcsIn[r] \in Seq(NPCs)
            BY DEF NPCsHere, Once
          <6>2. ToSet(npcsIn[r]) \subseteq NPCs
            BY <6>1 DEF ToSet
          <6> QED BY <6>2, MirrorAssumption
        <5>3. Tracks(view, pending \o Killed(p), list, connected, npcsIn[r], itemsIn[r],
                     carried[Me], installed, cpu, level)
          BY <2>1, <3>1, <4>1, <5>2, TracksKilled DEF TracksRoom
        <5>4. Tracks(view, (pending \o Killed(p)) \o T, list, connected, npcsIn[r], J,
                     carried[Me], installed, cpu, level)
          <6> HIDE DEF list
          <6> QED BY <1>1, <4>1, <5>3, TracksItems
        <5>5. pending \o X1 = (pending \o Killed(p)) \o T
          BY <1>1, <1>12, <2>1, <5>1, Assoc
        <5> QED BY <1>11, <4>1, <5>4, <5>5
      <4>2. CASE r # from
        <5>1. X1 = <<>>
          BY <1>7, <2>1, <4>2 DEF ToRoom
        <5>2. pending \o X1 = pending
          BY <2>1, <5>1, Nothing
        <5> QED BY <1>11, <2>1, <4>2, <5>2 DEF TracksRoom
      <4> QED BY <4>1, <4>2
    <3>7. Tracks(view, (pending \o X1) \o X3, new[r], connected, npcsIn[r], there[r], carried[Me],
                 installed, cpu, level)
      <4>1. CASE r = to
        <5>1. new[r] = Push(list, p)
          BY <1>8, <4>1
        <5>2. CASE p \in connected
          <6>1. X3 = Arrives(p)
            BY <1>7, <2>1, <3>2, <4>1, <5>2 DEF ToRoom
          <6> HIDE DEF list
          <6>2. Tracks(view, (pending \o X1) \o Arrives(p), Push(list, p), connected, npcsIn[r],
                       there[r], carried[Me], installed, cpu, level)
            BY <2>4, <3>5, <3>6, TracksArrives
          <6> QED BY <5>1, <6>1, <6>2
        <5>3. CASE p \notin connected
          <6>1. X3 = <<>>
            BY <1>7, <5>3
          <6>2. (pending \o X1) \o X3 = pending \o X1
            BY <2>1, <3>3, <6>1, Listings, Nothing
          <6> HIDE DEF list
          <6>3. Tracks(view, pending \o X1, Push(list, p), connected, npcsIn[r], there[r],
                       carried[Me], installed, cpu, level)
            BY <3>6, <5>3, TracksHidden
          <6> QED BY <5>1, <6>2, <6>3
        <5> QED BY <5>2, <5>3
      <4>2. CASE r # to
        <5>1. X3 = <<>>
          BY <1>7, <2>1, <3>2, <4>2 DEF ToRoom
        <5>2. (pending \o X1) \o X3 = pending \o X1
          BY <2>1, <3>3, <5>1, Listings, Nothing
        <5>3. new[r] = list
          BY <1>8, <4>2
        <5> QED BY <3>6, <5>2, <5>3
      <4> QED BY <4>1, <4>2
    <3> HIDE DEF list
    <3>8. TracksRoom(r)'
      BY <1>3, <1>4, <3>1, <3>4, <3>7 DEF TracksRoom
    <3>9. \A q \in Rooms : Me \in ToSet(playersIn'[q]) => q = r
      BY <1>3, <2>1, <3>2
    <3> QED BY <1>4, <2>1, <3>8, <3>9 DEF InStep
  <2> QED BY <2>3, <2>4
<1>15. InStep'
  <2>1. CASE Me \in connected /\ ~ misnamed
    BY <1>14, <2>1
  <2>2. CASE Me \notin connected \/ misnamed
    BY <1>4, <2>2 DEF InStep
  <2> QED BY <2>1, <2>2
<1> QED BY <1>5, <1>6, <1>9, <1>10, <1>15

LEMMA MyRoomOnly ==
  ASSUME PlayersHere, NEW r \in Rooms, Me \in ToSet(playersIn[r]), NEW s \in Rooms
  PROVE  Me \in ToSet(playersIn[s]) <=> r = s
<1>1. Me \in Players
  BY DEF Players
<1> QED BY <1>1 DEF PlayersHere, Once

\* An action that moves no player: the client has to follow it in its room.
LEMMA Stays ==
  ASSUME MirrorInv, UNCHANGED <<playersIn, connected, view>>, misnamed => misnamed',
         Me \notin connected => pending' = pending,
         \A r \in Rooms :
           /\ Me \in connected /\ ~ misnamed /\ ~ misnamed' /\ Listing(pending)
           /\ Me \in ToSet(playersIn[r]) /\ RoomOf(Me) = r /\ TracksRoom(r)
           => TracksRoom(r)'
  PROVE  PlayersHere' /\ Idle' /\ InStep'
<1>1. PlayersHere' /\ Idle'
  BY DEF MirrorInv, PlayersHere, Idle
<1>2. InStep'
  <2> SUFFICES ASSUME Me \in connected, ~ misnamed'
               PROVE  /\ view'.verdict # "lost"
                      /\ \A q \in Rooms : Me \in ToSet(playersIn'[q]) => TracksRoom(q)'
    BY DEF InStep
  <2>1. PICK r \in Rooms :
          /\ view.verdict # "lost" /\ Listing(pending) /\ r = RoomOf(Me)
          /\ Me \in ToSet(playersIn[r]) /\ TracksRoom(r)
          /\ \A q \in Rooms : Me \in ToSet(playersIn[q]) => q = r
    BY MyRoom
  <2>2. TracksRoom(r)'
    BY <2>1
  <2> QED BY <2>1, <2>2
<1> QED BY <1>1, <1>2

LEMMA NWCSayKeeps ==
  ASSUME MirrorInv, NEW p \in Players, NWCSay(p)
  PROVE  MirrorInv'
<1>1. /\ UNCHANGED <<playersIn, npcsIn, itemsIn, carried, installed, cpu, level>>
      /\ UNCHANGED <<connected, misnamed, view>> /\ p \in connected
  BY DEF NWCSay, world, mine, sessions
<1>2. PICK s \in Rooms : s = RoomOf(p) /\ p \in ToSet(playersIn[s])
  BY <1>1, RoomFacts DEF MirrorInv
<1> DEFINE A == <<[kind |-> "says", who |-> p]>>
<1>3. Send(ToRoom(playersIn[s], A))
  BY <1>2 DEF NWCSay
<1>4. NPCsHere' /\ ItemsHere' /\ StatsHere'
  BY <1>1 DEF MirrorInv, NPCsHere, ItemsHere, StatsHere
<1>5. ASSUME NEW r \in Rooms, Me \in connected, Listing(pending), Me \in ToSet(playersIn[r]),
             RoomOf(Me) = r, TracksRoom(r)
      PROVE  TracksRoom(r)'
  <2>1. Me \in ToSet(playersIn[s]) <=> r = s
    BY <1>5, MyRoomOnly DEF MirrorInv
  <2>2. Tracks(view, pending', playersIn[r], connected, npcsIn[r], itemsIn[r], carried[Me],
               installed, cpu, level)
    <3>1. CASE r = s
      <4>1. pending' = pending \o A
        BY <1>3, <1>5, <2>1, <3>1 DEF Send, ToRoom
      <4> QED BY <1>1, <1>2, <1>5, <3>1, <4>1, TracksSays DEF TracksRoom
    <3>2. CASE r # s
      <4>1. pending' = pending
        BY <1>3, <1>5, <2>1, <3>2, Nothing DEF Send, ToRoom
      <4> QED BY <1>5, <4>1 DEF TracksRoom
    <3> QED BY <3>1, <3>2
  <2> QED BY <1>1, <2>2 DEF TracksRoom
<1>6. Me \notin connected => pending' = pending
  BY <1>3 DEF Send
<1>7. PlayersHere' /\ Idle' /\ InStep'
  BY <1>1, <1>5, <1>6, Stays
<1> QED BY <1>4, <1>7 DEF MirrorInv

LEMMA NWCGetItemKeeps ==
  ASSUME MirrorInv, NEW p \in Players, NEW i \in Items, NWCGetItem(p, i)
  PROVE  MirrorInv'
<1>1. /\ UNCHANGED <<playersIn, npcsIn, installed, cpu, level>>
      /\ UNCHANGED <<connected, misnamed, view>> /\ p \in connected
  BY DEF NWCGetItem, mine, sessions
<1>2. PICK s \in Rooms : s = RoomOf(p) /\ p \in ToSet(playersIn[s])
  BY <1>1, RoomFacts DEF MirrorInv
<1>3. /\ i \in ToSet(itemsIn[s]) /\ Len(carried[p]) + 1 <= MaxCarry
      /\ carried' = [carried EXCEPT ![p] = Push(@, i)]
      /\ itemsIn' = [itemsIn EXCEPT ![s] = Without(@, i)]
      /\ p = Me => Send(With("getsItem", i))
      /\ p # Me => Send(ToRoom(playersIn[s], By("otherGetsItem", p, i)))
  BY <1>2 DEF NWCGetItem
<1>4. Apart(itemsIn, carried, installed)
  BY DEF MirrorInv, ItemsHere
<1>5. itemsIn[s] \in Seq(Items) /\ carried[p] \in Seq(Items) /\ Distinct(itemsIn[s])
      /\ Distinct(carried[p])
  BY <1>4 DEF Apart
<1>6. ItemsHere'
  <2> DEFINE J == Without(itemsIn[s], i)
             c == carried[p]
             G == Push(c, i)
  <2>1. J \in Seq(Items) /\ ToSet(J) = ToSet(itemsIn[s]) \ {i} /\ Distinct(J)
    BY <1>5, WithoutIs
  <2>2. Apart(itemsIn', carried, installed)
    <3> HIDE DEF J
    <3>1. Nowhere(itemsIn, carried, installed, {}) /\ ToSet(J) \subseteq ToSet(itemsIn[s]) \cup {}
      BY <2>1 DEF Nowhere
    <3>2. Apart([itemsIn EXCEPT ![s] = J], carried, installed)
      BY <1>4, <2>1, <3>1, RoomOther
    <3> QED BY <1>3, <3>2 DEF J
  <2>3. /\ itemsIn'[s] = J /\ \A q \in Rooms : q # s => itemsIn'[q] = itemsIn[q]
    BY <1>3, <1>4 DEF Apart
  <2> HIDE DEF J
  <2>4. Nowhere(itemsIn', carried, installed, {i})
    <3>1. \A q \in Rooms : i \notin ToSet(itemsIn'[q])
      BY <1>3, <1>4, <2>1, <2>3 DEF Apart
    <3>2. \A q \in Players : i \notin ToSet(carried[q])
      BY <1>3, <1>4 DEF Apart
    <3>3. installed # i
      BY <1>3, <1>4 DEF Apart
    <3> QED BY <3>1, <3>2, <3>3 DEF Nowhere
  <2>5. c \in Seq(Items) /\ Distinct(c) /\ i \notin ToSet(c)
    BY <1>5, <2>4 DEF Nowhere
  <2> HIDE DEF c
  <2>6. G \in Seq(Items) /\ ToSet(G) = ToSet(c) \cup {i} /\ Distinct(G)
    BY <2>5, OfPush
  <2> HIDE DEF G
  <2>7. Apart(itemsIn', [carried EXCEPT ![p] = G], installed)
    BY <2>2, <2>4, <2>6, CarriedOther DEF c
  <2>8. carried' = [carried EXCEPT ![p] = G]
    BY <1>3 DEF G, c
  <2> QED BY <1>1, <2>7, <2>8 DEF ItemsHere
<1>7. NPCsHere' /\ StatsHere'
  BY <1>1 DEF MirrorInv, NPCsHere, StatsHere
<1>8. ASSUME NEW r \in Rooms, Me \in connected, Listing(pending), Me \in ToSet(playersIn[r]),
             RoomOf(Me) = r, TracksRoom(r)
      PROVE  TracksRoom(r)'
  <2>1. Me \in ToSet(playersIn[s]) <=> r = s
    BY <1>8, MyRoomOnly DEF MirrorInv
  <2>2. itemsIn'[s] = Without(itemsIn[s], i) /\ \A q \in Rooms : q # s => itemsIn'[q] = itemsIn[q]
    BY <1>3, <1>4 DEF Apart
  <2>3. carried'[p] = Push(carried[p], i) /\ (p # Me => carried'[Me] = carried[Me])
    BY <1>3, <1>4 DEF Apart
  <2>4. Tracks(view, pending', playersIn[r], connected, npcsIn[r], itemsIn'[r], carried'[Me],
               installed, cpu, level)
    <3>1. CASE p = Me
      <4>1. r = s
        BY <1>2, <1>8, <3>1
      <4>2. pending' = pending \o With("getsItem", i)
        BY <1>3, <1>8, <3>1 DEF Send
      <4>3. ~ (Len(carried[Me]) + 1 > MaxCarry)
        BY <1>3, <1>5, <3>1, MirrorAssumption
      <4>4. Tracks(view, pending \o With("getsItem", i), playersIn[r], connected, npcsIn[r],
                   Without(itemsIn[r], i), Push(carried[Me], i), installed, cpu, level)
        BY <1>3, <1>8, <4>1, <4>3, TracksGets DEF TracksRoom
      <4> QED BY <2>2, <2>3, <3>1, <4>1, <4>2, <4>4
    <3>2. CASE p # Me /\ r = s
      <4>1. pending' = pending \o By("otherGetsItem", p, i)
        BY <1>3, <1>8, <2>1, <3>2 DEF Send, ToRoom
      <4>2. Tracks(view, pending \o By("otherGetsItem", p, i), playersIn[r], connected, npcsIn[r],
                   Without(itemsIn[r], i), carried[Me], installed, cpu, level)
        BY <1>1, <1>2, <1>3, <1>8, <3>2, TracksOtherGets DEF TracksRoom
      <4> QED BY <2>2, <2>3, <3>2, <4>1, <4>2
    <3>3. CASE p # Me /\ r # s
      <4>1. pending' = pending
        BY <1>3, <1>8, <2>1, <3>3, Nothing DEF Send, ToRoom
      <4> QED BY <1>8, <2>2, <2>3, <3>3, <4>1 DEF TracksRoom
    <3> QED BY <3>1, <3>2, <3>3
  <2> QED BY <1>1, <2>4 DEF TracksRoom
<1>9. Me \notin connected => pending' = pending
  BY <1>3 DEF Send
<1>10. PlayersHere' /\ Idle' /\ InStep'
  BY <1>1, <1>8, <1>9, Stays
<1> QED BY <1>6, <1>7, <1>10 DEF MirrorInv

LEMMA NWCDropItemKeeps ==
  ASSUME MirrorInv, NEW p \in Players, NEW i \in Items, NWCDropItem(p, i)
  PROVE  MirrorInv'
<1>1. /\ UNCHANGED <<playersIn, npcsIn, installed, cpu, level>>
      /\ UNCHANGED <<connected, misnamed, view>> /\ p \in connected
  BY DEF NWCDropItem, mine, sessions
<1>2. PICK s \in Rooms : s = RoomOf(p) /\ p \in ToSet(playersIn[s])
  BY <1>1, RoomFacts DEF MirrorInv
<1>3. Apart(itemsIn, carried, installed)
  BY DEF MirrorInv, ItemsHere
<1>4. itemsIn[s] \in Seq(Items) /\ carried[p] \in Seq(Items) /\ Distinct(itemsIn[s])
      /\ Distinct(carried[p])
  BY <1>3 DEF Apart
<1>5. PICK X, K : /\ Makes(itemsIn[s], X, K)
                  /\ AddItemToRoom(Room(itemsIn[s], <<>>), i) = Room(Push(K, i), <<>> \o X)
  <2>1. PICK I : I = itemsIn[s]
    OBVIOUS
  <2>2. I \in Seq(Items) /\ Distinct(I)
    BY <1>4, <2>1
  <2>3. PICK T : T = <<>>
    OBVIOUS
  <2>4. Listing(T)
    BY <2>3, Listings
  <2>5. PICK X, K : Makes(I, X, K) /\ AddItemToRoom(Room(I, T), i) = Room(Push(K, i), T \o X)
    BY ONLY <2>2, <2>4, AddsItem
  <2> QED BY <2>1, <2>3, <2>5
<1> DEFINE M == IF p = Me THEN With("dropsItem", i) ELSE By("otherDropsItem", p, i)
<1>6. <<>> \o X = X /\ Listing(X) /\ Listing(M)
  BY <1>5, Nothing, Listings DEF Makes, With, By
<1>7. /\ i \in ToSet(carried[p])
      /\ carried' = [carried EXCEPT ![p] = Without(@, i)]
      /\ itemsIn' = [itemsIn EXCEPT ![s] = Push(K, i)]
      /\ Send(ToRoom(playersIn[s], X \o M))
  <2>1. AddItemToRoom([items |-> itemsIn[s], told |-> <<>>], i) = Room(Push(K, i), X)
    BY <1>5, <1>6 DEF Room
  <2>2. Room(Push(K, i), X).items = Push(K, i) /\ Room(Push(K, i), X).told = X
    BY DEF Room
  <2> HIDE DEF M
  <2> QED BY <1>2, <2>1, <2>2 DEF NWCDropItem, M
<1> HIDE DEF M
<1>8. K \in Seq(Items) /\ Distinct(K) /\ ToSet(K) \subseteq ToSet(itemsIn[s]) /\ Leads(itemsIn[s], X, K)
  BY <1>5 DEF Makes
<1>9. ItemsHere'
  <2> DEFINE J == Without(carried[p], i)
             G == Push(K, i)
  <2>1. J \in Seq(Items) /\ ToSet(J) = ToSet(carried[p]) \ {i} /\ Distinct(J)
    BY <1>4, WithoutIs
  <2>2. Apart(itemsIn, carried', installed)
    <3> HIDE DEF J
    <3>1. Nowhere(itemsIn, carried, installed, {}) /\ ToSet(J) \subseteq ToSet(carried[p]) \cup {}
      BY <2>1 DEF Nowhere
    <3>2. Apart(itemsIn, [carried EXCEPT ![p] = J], installed)
      BY <1>3, <2>1, <3>1, CarriedOther
    <3> QED BY <1>7, <3>2 DEF J
  <2>3. /\ carried'[p] = J /\ \A q \in Players : q # p => carried'[q] = carried[q]
    BY <1>3, <1>7 DEF Apart
  <2> HIDE DEF J
  <2>4. Nowhere(itemsIn, carried', installed, {i})
    <3>1. \A q \in Rooms : i \notin ToSet(itemsIn[q])
      BY <1>3, <1>7 DEF Apart
    <3>2. \A q \in Players : i \notin ToSet(carried'[q])
      BY <1>3, <1>7, <2>1, <2>3 DEF Apart
    <3>3. installed # i
      BY <1>3, <1>7 DEF Apart
    <3> QED BY <3>1, <3>2, <3>3 DEF Nowhere
  <2>5. i \notin ToSet(K)
    BY <1>8, <2>4 DEF Nowhere
  <2>6. G \in Seq(Items) /\ ToSet(G) = ToSet(K) \cup {i} /\ Distinct(G)
    BY <1>8, <2>5, OfPush
  <2> HIDE DEF G
  <2>7. Apart([itemsIn EXCEPT ![s] = G], carried', installed)
    BY <1>8, <2>2, <2>4, <2>6, RoomOther
  <2> QED BY <1>1, <1>7, <2>7 DEF ItemsHere, G
<1>10. NPCsHere' /\ StatsHere'
  BY <1>1 DEF MirrorInv, NPCsHere, StatsHere
<1>11. ASSUME NEW r \in Rooms, Me \in connected, Listing(pending), Me \in ToSet(playersIn[r]),
              RoomOf(Me) = r, TracksRoom(r)
       PROVE  TracksRoom(r)'
  <2>1. Me \in ToSet(playersIn[s]) <=> r = s
    BY <1>11, MyRoomOnly DEF MirrorInv
  <2>2. itemsIn'[s] = Push(K, i) /\ \A q \in Rooms : q # s => itemsIn'[q] = itemsIn[q]
    BY <1>3, <1>7 DEF Apart
  <2>3. carried'[p] = Without(carried[p], i) /\ (p # Me => carried'[Me] = carried[Me])
    BY <1>3, <1>7 DEF Apart
  <2>4. Tracks(view, pending', playersIn[r], connected, npcsIn[r], itemsIn'[r], carried'[Me],
               installed, cpu, level)
    <3>1. CASE r = s
      <4>1. pending' = (pending \o X) \o M
        <5>1. pending' = pending \o (X \o M)
          BY <1>7, <1>11, <2>1, <3>1 DEF Send, ToRoom
        <5> QED BY <1>6, <1>11, <5>1, Assoc
      <4>2. Tracks(view, pending \o X, playersIn[r], connected, npcsIn[r], K, carried[Me],
                   installed, cpu, level)
        BY <1>8, <1>11, <3>1, TracksItems DEF TracksRoom
      <4>3. CASE p = Me
        <5>1. Tracks(view, (pending \o X) \o With("dropsItem", i), playersIn[r], connected,
                     npcsIn[r], Push(K, i), Without(carried[Me], i), installed, cpu, level)
          BY <1>7, <4>2, <4>3, TracksDrops
        <5> QED BY <2>2, <2>3, <3>1, <4>1, <4>3, <5>1 DEF M
      <4>4. CASE p # Me
        <5>1. Tracks(view, (pending \o X) \o By("otherDropsItem", p, i), playersIn[r], connected,
                     npcsIn[r], Push(K, i), carried[Me], installed, cpu, level)
          BY <1>1, <1>2, <3>1, <4>2, TracksOtherDrops
        <5> QED BY <2>2, <2>3, <3>1, <4>1, <4>4, <5>1 DEF M
      <4> QED BY <4>3, <4>4
    <3>2. CASE r # s
      <4>1. pending' = pending
        BY <1>7, <1>11, <2>1, <3>2, Nothing DEF Send, ToRoom
      <4>2. p # Me
        BY <1>2, <1>11, <3>2
      <4> QED BY <1>11, <2>2, <2>3, <3>2, <4>1, <4>2 DEF TracksRoom
    <3> QED BY <3>1, <3>2
  <2> QED BY <1>1, <2>4 DEF TracksRoom
<1>12. Me \notin connected => pending' = pending
  BY <1>7 DEF Send
<1>13. PlayersHere' /\ Idle' /\ InStep'
  BY <1>1, <1>11, <1>12, Stays
<1> QED BY <1>9, <1>10, <1>13 DEF MirrorInv

\* A script only takes CPU.
LEMMA RunOnlyKeeps ==
  ASSUME MirrorInv, NEW c \in Nat, RunOnly(c)
  PROVE  MirrorInv'
<1>1. /\ UNCHANGED <<playersIn, npcsIn, itemsIn, carried, installed, level>>
      /\ UNCHANGED <<connected, misnamed, view>>
      /\ Me \in connected /\ c <= cpu /\ cpu' = cpu - c /\ Send(Ran(c))
  BY DEF RunOnly, RunScript, sessions
<1>2. cpu \in Nat /\ cpu <= MaxCPU(installed) /\ level \in Nat /\ MaxCPU(installed) \in Nat
  BY CPUFacts DEF MirrorInv, StatsHere, ItemsHere, Apart
<1>3. StatsHere'
  <2>1. cpu - c \in Nat /\ cpu - c <= MaxCPU(installed)
    BY <1>1, <1>2
  <2> QED BY <1>1, <1>2, <2>1 DEF StatsHere
<1>4. NPCsHere' /\ ItemsHere'
  BY <1>1 DEF MirrorInv, NPCsHere, ItemsHere
<1>5. ASSUME NEW r \in Rooms, TracksRoom(r) PROVE TracksRoom(r)'
  <2>1. ~ (c > cpu) /\ pending' = pending \o Ran(c)
    BY <1>1, <1>2 DEF Send
  <2>2. Tracks(view, pending \o Ran(c), playersIn[r], connected, npcsIn[r], itemsIn[r],
               carried[Me], installed, cpu - c, level)
    BY <1>5, <2>1, TracksRun DEF TracksRoom
  <2> QED BY <1>1, <2>1, <2>2 DEF TracksRoom
<1>6. PlayersHere' /\ Idle' /\ InStep'
  BY <1>1, <1>5, Stays
<1> QED BY <1>3, <1>4, <1>6 DEF MirrorInv

LEMMA StatUpdateKeeps ==
  ASSUME MirrorInv, NEW c \in Nat, StatUpdate(c)
  PROVE  MirrorInv'
<1>1. /\ UNCHANGED <<playersIn, npcsIn, itemsIn, carried, installed, level>>
      /\ UNCHANGED <<connected, misnamed, view>>
      /\ Me \in connected /\ c <= MaxCPU(installed) /\ cpu' = c
      /\ Send(<<[kind |-> "stats", cpu |-> c, max |-> MaxCPU(installed)]>>)
  BY DEF StatUpdate, world, sessions
<1>2. level \in Nat /\ MaxCPU(installed) \in Nat
  BY CPUFacts DEF MirrorInv, StatsHere, ItemsHere, Apart
<1>3. StatsHere'
  BY <1>1, <1>2 DEF StatsHere
<1>4. NPCsHere' /\ ItemsHere'
  BY <1>1 DEF MirrorInv, NPCsHere, ItemsHere
<1>5. ASSUME NEW r \in Rooms, TracksRoom(r) PROVE TracksRoom(r)'
  <2> DEFINE A == <<[kind |-> "stats", cpu |-> c, max |-> MaxCPU(installed)]>>
  <2>1. ~ (c > MaxCPU(installed)) /\ pending' = pending \o A
    BY <1>1, <1>2 DEF Send
  <2>2. Tracks(view, pending \o A, playersIn[r], connected, npcsIn[r], itemsIn[r],
               carried[Me], installed, c, level)
    BY <1>5, <2>1, TracksStats DEF TracksRoom
  <2> HIDE DEF A
  <2> QED BY <1>1, <2>1, <2>2 DEF TracksRoom
<1>6. PlayersHere' /\ Idle' /\ InStep'
  BY <1>1, <1>5, Stays
<1> QED BY <1>3, <1>4, <1>6 DEF MirrorInv

\* A script deletes an item of the room.
LEMMA DoScriptDeleteKeeps ==
  ASSUME MirrorInv, NEW p \in Players, NEW c \in Nat, NEW i \in Items, DoScriptDelete(p, c, i)
  PROVE  MirrorInv'
<1>1. /\ UNCHANGED <<playersIn, npcsIn, carried, installed, level>>
      /\ UNCHANGED <<connected, misnamed, view>> /\ p \in connected
      /\ p = Me => c <= cpu /\ cpu' = cpu - c
      /\ p # Me => cpu' = cpu
  BY DEF DoScriptDelete, RunScript, mine, sessions
<1>2. PICK s \in Rooms : s = RoomOf(p) /\ p \in ToSet(playersIn[s])
  BY <1>1, RoomFacts DEF MirrorInv
<1> DEFINE A == IF p = Me THEN Ran(c) ELSE <<>>
           X == With("itemDeleted", i)
<1>3. itemsIn' = [itemsIn EXCEPT ![s] = Without(@, i)] /\ Send(A \o ToRoom(playersIn[s], X))
  BY <1>2 DEF DoScriptDelete
<1>4. Listing(A) /\ Listing(X)
  BY Listings DEF Ran, With
<1>5. cpu \in Nat /\ cpu <= MaxCPU(installed) /\ level \in Nat /\ MaxCPU(installed) \in Nat
  BY CPUFacts DEF MirrorInv, StatsHere, ItemsHere, Apart
<1>6. StatsHere'
  <2>1. c <= cpu => cpu - c \in Nat /\ cpu - c <= MaxCPU(installed)
    BY <1>5
  <2> QED BY <1>1, <1>5, <2>1 DEF StatsHere
<1>7. NPCsHere'
  BY <1>1 DEF MirrorInv, NPCsHere
<1>8. Apart(itemsIn, carried, installed)
  BY DEF MirrorInv, ItemsHere
<1>9. ItemsHere'
  <2> DEFINE J == Without(itemsIn[s], i)
  <2>1. itemsIn[s] \in Seq(Items) /\ Distinct(itemsIn[s])
    BY <1>8 DEF Apart
  <2>2. J \in Seq(Items) /\ ToSet(J) = ToSet(itemsIn[s]) \ {i} /\ Distinct(J)
    BY <2>1, WithoutIs
  <2> HIDE DEF J
  <2>3. Nowhere(itemsIn, carried, installed, {}) /\ ToSet(J) \subseteq ToSet(itemsIn[s]) \cup {}
    BY <2>2 DEF Nowhere
  <2>4. Apart([itemsIn EXCEPT ![s] = J], carried, installed)
    BY <1>8, <2>2, <2>3, RoomOther
  <2> QED BY <1>1, <1>3, <2>4 DEF ItemsHere, J
<1>10. itemsIn'[s] = Without(itemsIn[s], i) /\ \A q \in Rooms : q # s => itemsIn'[q] = itemsIn[q]
  BY <1>3, <1>8 DEF Apart
<1>11. ASSUME NEW r \in Rooms, Me \in connected, Listing(pending), Me \in ToSet(playersIn[r]),
              RoomOf(Me) = r, TracksRoom(r)
       PROVE  TracksRoom(r)'
  <2>1. Me \in ToSet(playersIn[s]) <=> r = s
    BY <1>11, MyRoomOnly DEF MirrorInv
  <2>2. Tracks(view, pending \o A, playersIn[r], connected, npcsIn[r], itemsIn[r], carried[Me],
               installed, cpu', level)
    <3>1. CASE p = Me
      <4>1. ~ (c > cpu)
        BY <1>1, <1>5, <3>1
      <4>2. Tracks(view, pending \o Ran(c), playersIn[r], connected, npcsIn[r], itemsIn[r],
                   carried[Me], installed, cpu - c, level)
        BY <1>11, <4>1, TracksRun DEF TracksRoom
      <4> QED BY <1>1, <3>1, <4>2
    <3>2. CASE p # Me
      <4>1. pending \o A = pending
        BY <1>11, <3>2, Nothing
      <4> QED BY <1>1, <1>11, <3>2, <4>1 DEF TracksRoom
    <3> QED BY <3>1, <3>2
  <2> HIDE DEF A, X
  <2>3. Tracks(view, pending', playersIn[r], connected, npcsIn[r], itemsIn'[r], carried[Me],
               installed, cpu', level)
    <3>1. CASE r = s
      <4>1. pending' = pending \o (A \o X)
        BY <1>3, <1>11, <2>1, <3>1 DEF Send, ToRoom
      <4>2. pending' = (pending \o A) \o X
        BY <1>4, <1>11, <4>1, Assoc
      <4>3. Tracks(view, (pending \o A) \o X, playersIn[r], connected, npcsIn[r],
                   Without(itemsIn[r], i), carried[Me], installed, cpu', level)
        BY <2>2, TracksDeleted DEF X
      <4> QED BY <1>10, <3>1, <4>2, <4>3
    <3>2. CASE r # s
      <4>1. pending' = pending \o A
        BY <1>3, <1>4, <1>11, <2>1, <3>2, Nothing DEF Send, ToRoom
      <4> QED BY <1>10, <2>2, <3>2, <4>1
    <3> QED BY <3>1, <3>2
  <2> QED BY <1>1, <2>3 DEF TracksRoom
<1>12. Me \notin connected => pending' = pending
  BY <1>3 DEF Send
<1>13. PlayersHere' /\ Idle' /\ InStep'
  BY <1>1, <1>11, <1>12, Stays
<1> QED BY <1>6, <1>7, <1>9, <1>13 DEF MirrorInv

Loses(C, p, i, M) == M = [C EXCEPT ![p] = Without(@, i)]

\* What is left when an item leaves a list that somebody carries.
LEMMA CarriedLoses ==
  ASSUME NEW I, NEW C, NEW S, Apart(I, C, S), NEW o \in Players, NEW j, j \in ToSet(C[o]),
         NEW M, Loses(C, o, j, M)
  PROVE  Apart(I, M, S) /\ Nowhere(I, M, S, {j}) /\ M[o] = Without(C[o], j)
<1> DEFINE J == Without(C[o], j)
<1>1. C[o] \in Seq(Items) /\ Distinct(C[o])
  BY DEF Apart
<1>2. J \in Seq(Items) /\ ToSet(J) = ToSet(C[o]) \ {j} /\ Distinct(J)
  BY <1>1, WithoutIs
<1>3. M = [C EXCEPT ![o] = J]
  BY DEF Loses
<1> HIDE DEF J
<1>4. Nowhere(I, C, S, {}) /\ ToSet(J) \subseteq ToSet(C[o]) \cup {}
  BY <1>2 DEF Nowhere
<1>5. Apart(I, M, S)
  <2>1. Apart(I, [C EXCEPT ![o] = J], S)
    BY <1>2, <1>4, CarriedOther
  <2> QED BY <1>3, <2>1
<1>6. M[o] = J /\ \A q \in Players : q # o => M[q] = C[q]
  BY <1>3 DEF Apart
<1>7. \A q \in Rooms : j \notin ToSet(I[q])
  BY DEF Apart
<1>8. \A q \in Players : j \notin ToSet(M[q])
  BY <1>2, <1>6 DEF Apart
<1>9. S # j
  BY DEF Apart
<1>10. Nowhere(I, M, S, {j})
  BY <1>7, <1>8, <1>9 DEF Nowhere
<1> QED BY <1>5, <1>6, <1>10 DEF J

LEMMA NWCEquipItemKeeps ==
  ASSUME MirrorInv, NEW i \in Items, NWCEquipItem(i)
  PROVE  MirrorInv'
<1>1. /\ UNCHANGED <<playersIn, npcsIn, itemsIn, level>>
      /\ UNCHANGED <<connected, misnamed, view>>
      /\ Me \in connected /\ i \in ToSet(carried[Me]) /\ installed = NoItem
      /\ cpu' = Limit(cpu, MaxCPU(installed'))
  BY DEF NWCEquipItem, world, sessions
<1>2. cpu \in Nat /\ cpu <= MaxCPU(installed) /\ level \in Nat /\ Needs[i] \in Nat
  BY MirrorAssumption DEF MirrorInv, StatsHere
<1>3. Me \in Players
  BY DEF Players
<1>4. Apart(itemsIn, carried, installed)
  BY DEF MirrorInv, ItemsHere
<1>5. NPCsHere'
  BY <1>1 DEF MirrorInv, NPCsHere
<1>6. CASE Needs[i] <= level
  <2>1. /\ Send(Equips("equips", i, TRUE))
        /\ carried' = [carried EXCEPT ![Me] = Without(@, i)] /\ installed' = i
    <3>1. (Needs[i] <= level) = TRUE
      BY <1>6
    <3> QED BY <3>1 DEF NWCEquipItem
  <2>2. /\ Apart(itemsIn, carried', installed) /\ Nowhere(itemsIn, carried', NoItem, {i})
        /\ carried'[Me] = Without(carried[Me], i)
    <3>1. Loses(carried, Me, i, carried')
      BY <2>1 DEF Loses
    <3>2. Apart(itemsIn, carried, NoItem) /\ Me \in Players /\ i \in ToSet(carried[Me])
      BY <1>1, <1>3, <1>4
    <3>3. /\ Apart(itemsIn, carried', NoItem) /\ Nowhere(itemsIn, carried', NoItem, {i})
          /\ carried'[Me] = Without(carried[Me], i)
      BY ONLY <3>1, <3>2, CarriedLoses
    <3> QED BY <1>1, <3>3
  <2>3. Apart(itemsIn, carried', i)
    BY <2>2, SlotOther
  <2>4. ItemsHere'
    BY <1>1, <2>1, <2>3 DEF ItemsHere
  <2>5. StatsHere'
    BY <1>1, <1>2, <2>1, CPUFacts DEF StatsHere
  <2>6. ASSUME NEW r \in Rooms, TracksRoom(r) PROVE TracksRoom(r)'
    <3>1. pending' = pending \o Equips("equips", i, TRUE)
      BY <1>1, <2>1 DEF Send
    <3>2. ~ (Needs[i] > level)
      BY <1>2, <1>6
    <3>3. Tracks(view, pending \o Equips("equips", i, TRUE), playersIn[r], connected, npcsIn[r],
                 itemsIn[r], Without(carried[Me], i), i, Limit(cpu, MaxCPU(i)), level)
      BY <1>1, <2>6, <3>2, TracksEquips DEF TracksRoom
    <3>4. cpu' = Limit(cpu, MaxCPU(i))
      BY <1>1, <2>1
    <3> QED BY <1>1, <2>1, <2>2, <3>1, <3>3, <3>4 DEF TracksRoom
  <2>7. PlayersHere' /\ Idle' /\ InStep'
    BY <1>1, <2>6, Stays
  <2> QED BY <1>5, <2>4, <2>5, <2>7 DEF MirrorInv
<1>7. CASE ~ (Needs[i] <= level)
  <2>1. Send(Equips("equips", i, FALSE)) /\ carried' = carried /\ installed' = installed
    <3>1. (Needs[i] <= level) = FALSE
      BY <1>7
    <3> QED BY <3>1 DEF NWCEquipItem
  <2>2. installed \in Items \cup {NoItem}
    BY <1>4 DEF Apart
  <2>3. cpu' = cpu
    BY <1>1, <1>2, <2>1, <2>2, CPUFacts
  <2>4. ItemsHere' /\ StatsHere'
    BY <1>1, <1>2, <1>4, <2>1, <2>3 DEF ItemsHere, StatsHere
  <2>5. ASSUME NEW r \in Rooms, TracksRoom(r) PROVE TracksRoom(r)'
    <3>1. pending' = pending \o Equips("equips", i, FALSE)
      BY <1>1, <2>1 DEF Send
    <3>2. Tracks(view, pending \o Equips("equips", i, FALSE), playersIn[r], connected, npcsIn[r],
                 itemsIn[r], carried[Me], installed, cpu, level)
      BY <1>1, <2>5, TracksNoEquip DEF TracksRoom
    <3> QED BY <1>1, <2>1, <2>3, <3>1, <3>2 DEF TracksRoom
  <2>6. PlayersHere' /\ Idle' /\ InStep'
    BY <1>1, <2>5, Stays
  <2> QED BY <1>5, <2>4, <2>6 DEF MirrorInv
<1> QED BY <1>6, <1>7

LEMMA NWCUnequipItemKeeps ==
  ASSUME MirrorInv, NWCUnequipItem
  PROVE  MirrorInv'
<1>1. /\ UNCHANGED <<playersIn, npcsIn, itemsIn, level>>
      /\ UNCHANGED <<connected, misnamed, view>>
      /\ Me \in connected /\ installed # NoItem
      /\ cpu' = Limit(cpu, MaxCPU(installed'))
  BY DEF NWCUnequipItem, world, sessions
<1>2. cpu \in Nat /\ cpu <= MaxCPU(installed) /\ level \in Nat
  BY DEF MirrorInv, StatsHere
<1>3. Me \in Players
  BY DEF Players
<1>4. Apart(itemsIn, carried, installed)
  BY DEF MirrorInv, ItemsHere
<1>5. NPCsHere'
  BY <1>1 DEF MirrorInv, NPCsHere
<1>6. CASE Len(carried[Me]) + 1 <= MaxCarry
  <2> DEFINE c == carried[Me]
             G == Push(c, installed)
  <2>1. /\ Send(Equips("unequips", installed, TRUE))
        /\ carried' = [carried EXCEPT ![Me] = G] /\ installed' = NoItem
    <3>1. (Len(carried[Me]) + 1 <= MaxCarry) = TRUE
      BY <1>6
    <3> QED BY <3>1 DEF NWCUnequipItem
  <2>2. Apart(itemsIn, carried, NoItem)
    BY <1>4, SlotEmpties
  <2>3. Nowhere(itemsIn, carried, NoItem, {installed})
    BY <1>1, <1>4 DEF Apart, Nowhere
  <2>4. installed \in Items /\ c \in Seq(Items) /\ Distinct(c) /\ installed \notin ToSet(c)
    BY <1>1, <1>3, <1>4 DEF Apart
  <2> HIDE DEF c
  <2>5. G \in Seq(Items) /\ ToSet(G) = ToSet(c) \cup {installed} /\ Distinct(G)
    BY <2>4, OfPush
  <2> HIDE DEF G
  <2>6. Apart(itemsIn, [carried EXCEPT ![Me] = G], NoItem)
    BY <1>3, <2>2, <2>3, <2>5, CarriedOther DEF c
  <2>7. ItemsHere'
    BY <1>1, <2>1, <2>6 DEF ItemsHere
  <2>8. StatsHere'
    BY <1>1, <1>2, <2>1, CPUFacts DEF StatsHere
  <2>9. carried'[Me] = G
    BY <1>3, <1>4, <2>1 DEF Apart
  <2>10. ASSUME NEW r \in Rooms, TracksRoom(r) PROVE TracksRoom(r)'
    <3>1. pending' = pending \o Equips("unequips", installed, TRUE)
      BY <1>1, <2>1 DEF Send
    <3>2. ~ (Len(carried[Me]) + 1 > MaxCarry)
      BY <1>6, <2>4, MirrorAssumption DEF c
    <3>3. Tracks(view, pending \o Equips("unequips", installed, TRUE), playersIn[r], connected,
                 npcsIn[r], itemsIn[r], Push(carried[Me], installed), NoItem, Limit(cpu, BaseCPU),
                 level)
      BY <2>10, <3>2, TracksUnequips DEF TracksRoom
    <3>4. MaxCPU(NoItem) = BaseCPU
      BY MirrorAssumption DEF MaxCPU
    <3>5. cpu' = Limit(cpu, BaseCPU)
      BY <1>1, <2>1, <3>4
    <3> QED BY <1>1, <2>1, <2>9, <3>1, <3>3, <3>5 DEF TracksRoom, G, c
  <2>11. PlayersHere' /\ Idle' /\ InStep'
    BY <1>1, <2>10, Stays
  <2> QED BY <1>5, <2>7, <2>8, <2>11 DEF MirrorInv
<1>7. CASE ~ (Len(carried[Me]) + 1 <= MaxCarry)
  <2>1. Send(Equips("unequips", installed, FALSE)) /\ carried' = carried /\ installed' = installed
    <3>1. (Len(carried[Me]) + 1 <= MaxCarry) = FALSE
      BY <1>7
    <3> QED BY <3>1 DEF NWCUnequipItem
  <2>2. installed \in Items \cup {NoItem}
    BY <1>4 DEF Apart
  <2>3. cpu' = cpu
    BY <1>1, <1>2, <2>1, <2>2, CPUFacts
  <2>4. ItemsHere' /\ StatsHere'
    BY <1>1, <1>2, <1>4, <2>1, <2>3 DEF ItemsHere, StatsHere
  <2>5. ASSUME NEW r \in Rooms, TracksRoom(r) PROVE TracksRoom(r)'
    <3>1. pending' = pending \o Equips("unequips", installed, FALSE)
      BY <1>1, <2>1 DEF Send
    <3>2. Tracks(view, pending \o Equips("unequips", installed, FALSE), playersIn[r], connected,
                 npcsIn[r], itemsIn[r], carried[Me], installed, cpu, level)
      BY <2>5, TracksNoUnequip DEF TracksRoom
    <3> QED BY <1>1, <2>1, <2>3, <3>1, <3>2 DEF TracksRoom
  <2>6. PlayersHere' /\ Idle' /\ InStep'
    BY <1>1, <2>5, Stays
  <2> QED BY <1>5, <2>4, <2>6 DEF MirrorInv
<1> QED BY <1>6, <1>7

\* A finger request takes an item from the one who asks.
LEMMA NWCPlayerFingerKeeps ==
  ASSUME MirrorInv, NEW p \in Players, NEW i \in Items, NEW x, NWCPlayerFinger(p, i, x)
  PROVE  MirrorInv'
<1>1. /\ UNCHANGED <<playersIn, npcsIn, itemsIn, installed, cpu, level>>
      /\ UNCHANGED <<connected, view>>
      /\ p \in connected /\ i \in ToSet(carried[p])
      /\ carried' = [carried EXCEPT ![p] = Without(@, i)]
      /\ misnamed' = (misnamed \/ (p = Me /\ x \notin Names(Shown)))
      /\ p = Me => Send(By("finger", x, i))
      /\ p # Me => pending' = pending
  BY DEF NWCPlayerFinger, world, mine
<1>2. Apart(itemsIn, carried, installed)
  BY DEF MirrorInv, ItemsHere
<1>3. /\ Apart(itemsIn, carried', installed) /\ carried'[p] = Without(carried[p], i)
      /\ \A q \in Players : q # p => carried'[q] = carried[q]
  <2>1. Loses(carried, p, i, carried')
    BY <1>1 DEF Loses
  <2>2. p \in Players /\ i \in ToSet(carried[p])
    BY <1>1
  <2>3. Apart(itemsIn, carried', installed) /\ carried'[p] = Without(carried[p], i)
    <3>1. /\ Apart(itemsIn, carried', installed) /\ Nowhere(itemsIn, carried', installed, {i})
          /\ carried'[p] = Without(carried[p], i)
      BY ONLY <1>2, <2>1, <2>2, CarriedLoses
    <3> QED BY <3>1
  <2>4. \A q \in Players : q # p => carried'[q] = carried[q]
    BY <1>1, <1>2 DEF Apart
  <2> QED BY <2>3, <2>4
<1>4. ItemsHere' /\ NPCsHere' /\ StatsHere'
  BY <1>1, <1>3 DEF MirrorInv, ItemsHere, NPCsHere, StatsHere
<1>5. Me \in Players
  BY DEF Players
<1>6. ASSUME NEW r \in Rooms, Me \in connected, TracksRoom(r), ~ misnamed'
      PROVE  TracksRoom(r)'
  <2>1. CASE p = Me
    <3>1. pending' = pending \o By("finger", x, i) /\ x \in Names(Shown)
      BY <1>1, <1>6, <2>1 DEF Send
    <3>2. Tracks(view, pending \o By("finger", x, i), playersIn[r], connected, npcsIn[r],
                 itemsIn[r], Without(carried[Me], i), installed, cpu, level)
      BY <1>1, <1>6, <2>1, <3>1, TracksFinger DEF TracksRoom
    <3> QED BY <1>1, <1>3, <2>1, <3>1, <3>2 DEF TracksRoom
  <2>2. CASE p # Me
    BY <1>1, <1>3, <1>5, <1>6, <2>2 DEF TracksRoom
  <2> QED BY <2>1, <2>2
<1>7. Me \notin connected => pending' = pending
  BY <1>1 DEF Send
<1>8. misnamed => misnamed'
  BY <1>1
<1>9. PlayersHere' /\ Idle' /\ InStep'
  BY <1>1, <1>6, <1>7, <1>8, Stays
<1> QED BY <1>4, <1>9 DEF MirrorInv

\* A program appears.
LEMMA SpawnNPCKeeps ==
  ASSUME MirrorInv, NEW n \in NPCs, NEW s \in Rooms, SpawnNPC(n, s)
  PROVE  MirrorInv'
<1> DEFINE A == <<[kind |-> "npcArrives", who |-> n]>>
<1>1. /\ UNCHANGED <<playersIn, itemsIn, carried, installed, cpu, level>>
      /\ UNCHANGED <<connected, misnamed, view>>
      /\ ~ Seen(n) /\ npcsIn' = [npcsIn EXCEPT ![s] = Push(@, n)]
      /\ Send(ToRoom(playersIn[s], A))
  BY DEF SpawnNPC, mine, sessions
<1>2. Once(npcsIn, NPCs) /\ ~ In(npcsIn, n)
  BY <1>1, HomeFacts DEF MirrorInv, NPCsHere
<1>3. NPCsHere'
  BY <1>1, <1>2, OnceComes DEF NPCsHere
<1>4. /\ npcsIn'[s] = Push(npcsIn[s], n) /\ n \notin ToSet(npcsIn[s])
      /\ \A q \in Rooms : q # s => npcsIn'[q] = npcsIn[q]
  BY <1>1, <1>2 DEF Once, In
<1>5. ItemsHere' /\ StatsHere'
  BY <1>1 DEF MirrorInv, ItemsHere, StatsHere
<1>6. ASSUME NEW r \in Rooms, Me \in connected, Listing(pending), Me \in ToSet(playersIn[r]),
             TracksRoom(r)
      PROVE  TracksRoom(r)'
  <2>1. Me \in ToSet(playersIn[s]) <=> r = s
    BY <1>6, MyRoomOnly DEF MirrorInv
  <2>2. CASE r = s
    <3>1. pending' = pending \o A
      BY <1>1, <1>6, <2>1, <2>2 DEF Send, ToRoom
    <3>2. Tracks(view, pending \o A, playersIn[r], connected, Push(npcsIn[r], n), itemsIn[r],
                 carried[Me], installed, cpu, level)
      BY <1>4, <1>6, <2>2, TracksNPCArrives DEF TracksRoom
    <3> HIDE DEF A
    <3> QED BY <1>1, <1>4, <2>2, <3>1, <3>2 DEF TracksRoom
  <2>3. CASE r # s
    <3>1. pending' = pending
      BY <1>1, <1>6, <2>1, <2>3, Nothing DEF Send, ToRoom
    <3> QED BY <1>1, <1>4, <1>6, <2>3, <3>1 DEF TracksRoom
  <2> QED BY <2>2, <2>3
<1>7. Me \notin connected => pending' = pending
  BY <1>1 DEF Send
<1>8. PlayersHere' /\ Idle' /\ InStep'
  BY <1>1, <1>6, <1>7, Stays
<1> QED BY <1>3, <1>5, <1>8 DEF MirrorInv

\* A program walks.
LEMMA RoamNPCKeeps ==
  ASSUME MirrorInv, NEW n \in NPCs, NEW to \in Rooms, RoamNPC(n, to)
  PROVE  MirrorInv'
<1> DEFINE A == <<[kind |-> "npcLeaves", who |-> n]>>
           B == <<[kind |-> "npcArrives", who |-> n]>>
<1>1. PICK s \in Rooms : s = HomeOf(n) /\ n \in ToSet(npcsIn[s])
  BY HomeFacts DEF MirrorInv, RoamNPC
<1>2. /\ UNCHANGED <<playersIn, itemsIn, carried, installed, cpu, level>>
      /\ UNCHANGED <<connected, misnamed, view>>
      /\ to # s /\ npcsIn' = [npcsIn EXCEPT ![s] = Without(@, n), ![to] = Push(@, n)]
      /\ Send(ToRoom(playersIn[s], A) \o ToRoom(playersIn[to], B))
  BY <1>1 DEF RoamNPC, mine, sessions
<1>3. Once(npcsIn, NPCs)
  BY DEF MirrorInv, NPCsHere
<1>4. /\ npcsIn'[s] = Without(npcsIn[s], n) /\ npcsIn'[to] = Push(npcsIn[to], n)
      /\ n \notin ToSet(npcsIn[to])
      /\ \A q \in Rooms : q # s /\ q # to => npcsIn'[q] = npcsIn[q]
  BY <1>1, <1>2, <1>3 DEF Once
<1>5. NPCsHere'
  <2> DEFINE L == [npcsIn EXCEPT ![s] = Without(@, n)]
  <2>1. Once(L, NPCs)
    BY <1>3, OnceGoes
  <2>2. npcsIn[s] \in Seq(NPCs)
    BY <1>3 DEF Once
  <2>3. ToSet(Without(npcsIn[s], n)) = ToSet(npcsIn[s]) \ {n}
    BY <2>2, WithoutIs
  <2>4. ~ In(L, n)
    BY <1>1, <1>3, <2>3 DEF Once, In
  <2>5. Once([L EXCEPT ![to] = Push(@, n)], NPCs)
    <3> HIDE DEF L
    <3> QED BY <2>1, <2>4, OnceComes
  <2>6. npcsIn' = [L EXCEPT ![to] = Push(@, n)]
    BY <1>2
  <2> HIDE DEF L
  <2> QED BY <2>5, <2>6 DEF NPCsHere
<1>6. ItemsHere' /\ StatsHere'
  BY <1>2 DEF MirrorInv, ItemsHere, StatsHere
<1>7. ASSUME NEW r \in Rooms, Me \in connected, Listing(pending), Me \in ToSet(playersIn[r]),
             TracksRoom(r)
      PROVE  TracksRoom(r)'
  <2>1. (Me \in ToSet(playersIn[s]) <=> r = s) /\ (Me \in ToSet(playersIn[to]) <=> r = to)
    BY <1>7, MyRoomOnly DEF MirrorInv
  <2>2. Listing(A) /\ Listing(B)
    BY Listings
  <2>3. CASE r = s
    <3>1. Tracks(view, pending \o A, playersIn[r], connected, Without(npcsIn[r], n), itemsIn[r],
                 carried[Me], installed, cpu, level)
      BY <1>1, <1>7, <2>3, TracksNPCLeaves DEF TracksRoom
    <3> HIDE DEF A, B
    <3>2. pending' = pending \o A
      BY <1>2, <1>7, <2>1, <2>2, <2>3, Nothing DEF Send, ToRoom
    <3> QED BY <1>2, <1>4, <2>3, <3>1, <3>2 DEF TracksRoom
  <2>4. CASE r = to
    <3>1. Tracks(view, pending \o B, playersIn[r], connected, Push(npcsIn[r], n), itemsIn[r],
                 carried[Me], installed, cpu, level)
      BY <1>4, <1>7, <2>4, TracksNPCArrives DEF TracksRoom
    <3> HIDE DEF A, B
    <3>2. pending' = pending \o B
      BY <1>2, <1>7, <2>1, <2>2, <2>4, Nothing DEF Send, ToRoom
    <3> QED BY <1>2, <1>4, <2>4, <3>1, <3>2 DEF TracksRoom
  <2>5. CASE r # s /\ r # to
    <3>1. ToRoom(playersIn[s], A) = <<>> /\ ToRoom(playersIn[to], B) = <<>>
      BY <2>1, <2>5 DEF ToRoom
    <3>2. pending' = pending
      BY <1>2, <1>7, <3>1, Nothing, Listings DEF Send
    <3> QED BY <1>2, <1>4, <1>7, <2>5, <3>2 DEF TracksRoom
  <2> QED BY <2>3, <2>4, <2>5
<1>8. Me \notin connected => pending' = pending
  BY <1>2 DEF Send
<1>9. PlayersHere' /\ Idle' /\ InStep'
  BY <1>2, <1>7, <1>8, Stays
<1> QED BY <1>5, <1>6, <1>9 DEF MirrorInv

\* A program dies, drops what it has, and may raise the level of Me.
LEMMA KillNPCKeeps ==
  ASSUME MirrorInv, NEW n \in NPCs, NEW drops \in Seq(Items), Distinct(drops), NEW gain \in Nat,
         KillNPC(n, drops, gain)
  PROVE  MirrorInv'
<1>1. PICK s \in Rooms : s = HomeOf(n) /\ n \in ToSet(npcsIn[s])
  BY HomeFacts DEF MirrorInv, KillNPC
<1>2. Apart(itemsIn, carried, installed)
  BY DEF MirrorInv, ItemsHere
<1>3. Nowhere(itemsIn, carried, installed, ToSet(drops))
  <2>1. ASSUME NEW i \in Unmade
        PROVE  /\ \A r \in Rooms : i \notin ToSet(itemsIn[r])
               /\ \A p \in Players : i \notin ToSet(carried[p])
               /\ installed # i
    BY <2>1 DEF Unmade
  <2>2. ToSet(drops) \subseteq Unmade
    BY DEF KillNPC
  <2> QED BY <2>1, <2>2 DEF Nowhere
<1>4. PICK J, T : /\ Dropped(itemsIn[s], drops) = Room(J, T)
                  /\ J \in Seq(Items) /\ Distinct(J)
                  /\ ToSet(J) \subseteq ToSet(itemsIn[s]) \cup ToSet(drops)
                  /\ Listing(T) /\ Leads(itemsIn[s], T, J)
  <2>1. PICK I : I = itemsIn[s]
    OBVIOUS
  <2>2. I \in Seq(Items) /\ Distinct(I) /\ ToSet(I) \cap ToSet(drops) = {}
    BY <1>2, <1>3, <2>1 DEF Apart, Nowhere
  <2>3. DropsTo(I, ToSet(drops), Dropped(I, drops))
    BY <2>2, DropsAll
  <2> QED BY <2>1, <2>3 DEF DropsTo
<1>5. Room(J, T).items = J /\ Room(J, T).told = T
  BY DEF Room
<1> DEFINE A == Killed(n)
           G == IF gain = 0 THEN <<>>
                ELSE <<[kind |-> "level", gain |-> gain, level |-> level + gain]>>
<1>6. /\ UNCHANGED <<playersIn, carried, installed, cpu>>
      /\ UNCHANGED <<connected, misnamed, view>>
      /\ npcsIn' = [npcsIn EXCEPT ![s] = Without(@, n)]
      /\ itemsIn' = [itemsIn EXCEPT ![s] = J] /\ level' = level + gain
      /\ gain = 0 \/ Me \in ToSet(playersIn[s])
  BY <1>1, <1>4, <1>5 DEF KillNPC, sessions
<1>7. Send(ToRoom(playersIn[s], A \o T) \o G)
  BY <1>1, <1>4, <1>5, <1>6 DEF KillNPC
<1>8. Once(npcsIn, NPCs)
  BY DEF MirrorInv, NPCsHere
<1>9. NPCsHere'
  BY <1>6, <1>8, OnceGoes DEF NPCsHere
<1>10. /\ npcsIn'[s] = Without(npcsIn[s], n) /\ itemsIn'[s] = J
       /\ \A q \in Rooms : q # s => npcsIn'[q] = npcsIn[q] /\ itemsIn'[q] = itemsIn[q]
  BY <1>2, <1>6, <1>8 DEF Once, Apart
<1>11. ItemsHere'
  <2>1. Apart([itemsIn EXCEPT ![s] = J], carried, installed)
    BY <1>2, <1>3, <1>4, RoomOther
  <2> QED BY <1>6, <2>1 DEF ItemsHere
<1>12. StatsHere'
  BY <1>6 DEF MirrorInv, StatsHere
<1>13. Listing(A) /\ Listing(G)
  BY Listings DEF Killed
<1>14. n \notin Players
  BY MirrorAssumption
<1>15. ASSUME NEW r \in Rooms, Me \in connected, Listing(pending), Me \in ToSet(playersIn[r]),
              TracksRoom(r)
       PROVE  TracksRoom(r)'
  <2>1. Me \in ToSet(playersIn[s]) <=> r = s
    BY <1>15, MyRoomOnly DEF MirrorInv
  <2>2. CASE r = s
    <3>1. n \notin ToSet(playersIn[r])
      <4>1. playersIn[r] \in Seq(Players)
        BY DEF MirrorInv, PlayersHere, Once
      <4> QED BY <1>14, <4>1 DEF ToSet
    <3>2. Tracks(view, pending \o A, playersIn[r], connected, Without(npcsIn[r], n), itemsIn[r],
                 carried[Me], installed, cpu, level)
      BY <1>1, <1>15, <2>2, <3>1, TracksNPCKilled DEF TracksRoom
    <3> HIDE DEF A
    <3>3. Tracks(view, (pending \o A) \o T, playersIn[r], connected, Without(npcsIn[r], n), J,
                 carried[Me], installed, cpu, level)
      BY <1>4, <2>2, <3>2, TracksItems
    <3>4. Tracks(view, ((pending \o A) \o T) \o G, playersIn[r], connected,
              Without(npcsIn[r], n), J,
                 carried[Me], installed, cpu, level + gain)
      <4>1. CASE gain = 0
        <5>1. level + gain = level
          BY <4>1 DEF MirrorInv, StatsHere
        <5>2. Listing((pending \o A) \o T)
          BY <1>4, <1>13, <1>15, Listings
        <5>3. G = <<>>
          BY <4>1
        <5> HIDE DEF G
        <5> QED BY <3>3, <5>1, <5>2, <5>3, Nothing
      <4>2. CASE gain # 0
        <5>1. Tracks(view, ((pending \o A) \o T)
                             \o <<[kind |-> "level", gain |-> gain, level |-> level + gain]>>,
                     playersIn[r], connected, Without(npcsIn[r], n), J,
                     carried[Me], installed, cpu, level + gain)
          BY <3>3, TracksLevel
        <5> QED BY <4>2, <5>1
      <4> QED BY <4>1, <4>2
    <3> HIDE DEF G
    <3>5. pending' = ((pending \o A) \o T) \o G
      <4>1. pending' = pending \o ((A \o T) \o G)
        BY <1>7, <1>15, <2>1, <2>2 DEF Send, ToRoom
      <4>2. Listing(A \o T)
        BY <1>4, <1>13, Listings
      <4>3. pending' = (pending \o (A \o T)) \o G
        BY <1>13, <1>15, <4>1, <4>2, Assoc
      <4>4. pending \o (A \o T) = (pending \o A) \o T
        BY <1>4, <1>13, <1>15, Assoc
      <4> QED BY <4>3, <4>4
    <3> QED BY <1>6, <1>10, <2>2, <3>4, <3>5 DEF TracksRoom
  <2>3. CASE r # s
    <3>1. gain = 0 /\ G = <<>> /\ ToRoom(playersIn[s], A \o T) = <<>>
      BY <1>6, <2>1, <2>3 DEF ToRoom
    <3> HIDE DEF G
    <3>2. pending' = pending
      BY <1>7, <1>15, <3>1, Nothing, Listings DEF Send
    <3>3. level' = level
      BY <1>6, <3>1 DEF MirrorInv, StatsHere
    <3> QED BY <1>6, <1>10, <1>15, <2>3, <3>2, <3>3 DEF TracksRoom
  <2> QED BY <2>2, <2>3
<1>16. Me \notin connected => pending' = pending
  BY <1>7 DEF Send
<1>17. PlayersHere' /\ Idle' /\ InStep'
  BY <1>6, <1>15, <1>16, Stays
<1> QED BY <1>9, <1>11, <1>12, <1>17 DEF MirrorInv

-----------------------------------------------------------------------------
(* The theorems                                                            *)

LEMMA MirrorStutters ==
  ASSUME MirrorInv, UNCHANGED mirrorVars
  PROVE  MirrorInv'
<1>1. /\ UNCHANGED <<playersIn, npcsIn, itemsIn, carried, installed, cpu, level>>
      /\ UNCHANGED <<connected, misnamed, pending, view>>
  BY DEF mirrorVars, world, mine, sessions
<1>2. PlayersHere' /\ NPCsHere' /\ ItemsHere' /\ StatsHere' /\ Idle'
  BY <1>1 DEF MirrorInv, PlayersHere, NPCsHere, ItemsHere, StatsHere, Idle
<1>3. \A r \in Rooms : TracksRoom(r) => TracksRoom(r)'
  BY <1>1 DEF TracksRoom
<1>4. InStep'
  BY <1>1, <1>3 DEF MirrorInv, InStep
<1> QED BY <1>2, <1>4 DEF MirrorInv

LEMMA MirrorNextKeeps == MirrorInv /\ [MirrorNext]_mirrorVars => MirrorInv'
<1> SUFFICES ASSUME MirrorInv, [MirrorNext]_mirrorVars PROVE MirrorInv'
  OBVIOUS
<1>1. CASE Read
  BY <1>1, ReadKeeps
<1>2. ASSUME NEW p \in Players, NWCAuth(p) PROVE MirrorInv'
  BY <1>2, NWCAuthKeeps
<1>3. ASSUME NEW p \in Players, Disconnect(p) PROVE MirrorInv'
  BY <1>3, DisconnectKeeps
<1>4. ASSUME NEW p \in Players, HandleDisconnect(p) PROVE MirrorInv'
  BY <1>4, HandleDisconnectKeeps
<1>5. ASSUME NEW p \in Players, NWCSay(p) PROVE MirrorInv'
  BY <1>5, NWCSayKeeps
<1>6. ASSUME NEW p \in Players, NEW r \in Rooms, NWCCreatePlayer(p, r) PROVE MirrorInv'
  BY <1>6, NWCCreatePlayerKeeps
<1>7. ASSUME NEW p \in Players, NEW r \in Rooms, NWCDirection(p, r) PROVE MirrorInv'
  BY <1>7, NWCDirectionKeeps
<1>8. ASSUME NEW p \in Players, NEW r \in Rooms, NWCPlayerFlee(p, r) PROVE MirrorInv'
  BY <1>8, NWCPlayerFleeKeeps
<1>9. ASSUME NEW p \in Players, NEW r \in Rooms, Kill(p, r) PROVE MirrorInv'
  BY <1>9, KillKeeps
<1>10. ASSUME NEW p \in Players, NEW i \in Items, NWCGetItem(p, i) PROVE MirrorInv'
  BY <1>10, NWCGetItemKeeps
<1>11. ASSUME NEW p \in Players, NEW i \in Items, NWCDropItem(p, i) PROVE MirrorInv'
  BY <1>11, NWCDropItemKeeps
<1>12. ASSUME NEW p \in Players, NEW i \in Items, NEW x, NWCPlayerFinger(p, i, x) PROVE MirrorInv'
  BY <1>12, NWCPlayerFingerKeeps
<1>13. ASSUME NEW p \in Players, NEW i \in Items, NEW c \in 0 .. cpu, DoScriptDelete(p, c, i)
       PROVE  MirrorInv'
  <2>1. c \in Nat
    BY DEF MirrorInv, StatsHere
  <2> QED BY <1>13, <2>1, DoScriptDeleteKeeps
<1>14. ASSUME NEW c \in 0 .. MaxCPU(installed), RunOnly(c) \/ StatUpdate(c) PROVE MirrorInv'
  <2>1. c \in Nat
    BY CPUFacts DEF MirrorInv, ItemsHere, Apart
  <2>2. CASE RunOnly(c)
    BY <2>1, <2>2, RunOnlyKeeps
  <2>3. CASE StatUpdate(c)
    BY <2>1, <2>3, StatUpdateKeeps
  <2> QED BY <1>14, <2>2, <2>3
<1>15. ASSUME NEW i \in Items, NWCEquipItem(i) PROVE MirrorInv'
  BY <1>15, NWCEquipItemKeeps
<1>16. CASE NWCUnequipItem
  BY <1>16, NWCUnequipItemKeeps
<1>17. ASSUME NEW n \in NPCs, NEW r \in Rooms, SpawnNPC(n, r) PROVE MirrorInv'
  BY <1>17, SpawnNPCKeeps
<1>18. ASSUME NEW n \in NPCs, NEW r \in Rooms, RoamNPC(n, r) PROVE MirrorInv'
  BY <1>18, RoamNPCKeeps
<1>19. ASSUME NEW n \in NPCs, NEW drops \in {<<>>} \cup {<<i>> : i \in Unmade},
               NEW gain \in {0, 1},
               KillNPC(n, drops, gain)
       PROVE  MirrorInv'
  <2>1. gain \in Nat
    OBVIOUS
  <2>2. drops \in Seq(Items) /\ Distinct(drops)
    <3>1. CASE drops = <<>>
      BY <3>1, OfEmpty
    <3>2. ASSUME NEW i \in Unmade, drops = <<i>> PROVE drops \in Seq(Items) /\ Distinct(drops)
      <4>1. i \in Items
        BY DEF Unmade
      <4> QED BY <3>2, <4>1 DEF Distinct
    <3> QED BY <3>1, <3>2
  <2> QED BY <1>19, <2>1, <2>2, KillNPCKeeps
<1>20. CASE UNCHANGED mirrorVars
  BY <1>20, MirrorStutters
<1> QED BY <1>1, <1>2, <1>3, <1>4, <1>5, <1>6, <1>7, <1>8, <1>9, <1>10, <1>11, <1>12, <1>13,
           <1>14, <1>15, <1>16, <1>17, <1>18, <1>19, <1>20 DEF MirrorNext

\* The inductive invariant holds in every reachable state: nobody is in two
\* rooms, no item in two places, and the messages on their way to the client
\* turn what it shows into what the server holds.
THEOREM MirrorInvariant == MirrorSpec => []MirrorInv
BY MirrorInitInv, MirrorNextKeeps, PTL DEF MirrorSpec

\* Whatever the others do meanwhile, the handlers of the client's g_cmdTable
\* make of the messages of the server exactly the lists the server holds.
THEOREM ClientShowsTheServer == MirrorSpec => []ShowsTheServer
<1>1. MirrorInv => ShowsTheServer
  <2> SUFFICES ASSUME MirrorInv, Me \in connected, ~ misnamed
               PROVE  LET r == RoomOf(Me)
                          Reachable(s) == Only(s, connected) IN
                      /\ Shown.inRoom
                      /\ Reachable(Shown.players) = Reachable(playersIn[r])
                      /\ ToSet(Shown.players) \subseteq ToSet(playersIn[r])
                      /\ Shown.npcs = npcsIn[r] /\ Shown.items = itemsIn[r]
                      /\ Shown.inventory = carried[Me] /\ Shown.slot = installed
                      /\ Shown.cpu = cpu /\ Shown.level = level
    BY DEF ShowsTheServer
  <2>1. PICK r : r = RoomOf(Me) /\ TracksRoom(r)
    BY MyRoom
  <2>2. PICK P, w :
          /\ Same(P, playersIn[r], connected)
          /\ Accepts(view, pending, Pic(P, npcsIn[r], itemsIn[r], carried[Me], installed, cpu,
                                        level, w))
    BY <2>1 DEF TracksRoom, Tracks
  <2>3. Shown = Pic(P, npcsIn[r], itemsIn[r], carried[Me], installed, cpu, level, w)
    BY <2>2, ShownIs
  <2>4. /\ Shown.inRoom /\ Shown.players = P /\ Shown.npcs = npcsIn[r] /\ Shown.items = itemsIn[r]
        /\ Shown.inventory = carried[Me] /\ Shown.slot = installed
        /\ Shown.cpu = cpu /\ Shown.level = level
    BY <2>3 DEF Pic, InRoom
  <2>5. Only(P, connected) = Only(playersIn[r], connected) /\ ToSet(P) \subseteq ToSet(playersIn[r])
    BY <2>2 DEF Same
  <2> QED BY <2>1, <2>4, <2>5
<1> QED BY <1>1, MirrorInvariant, PTL

\* The client of a session never comes to "OUT OF SYNC WITH SERVER".
THEOREM ClientStaysInSync == MirrorSpec => []StaysInSync
<1>1. MirrorInv => StaysInSync
  <2> SUFFICES ASSUME MirrorInv, ~ misnamed PROVE view.verdict # "lost"
    BY DEF StaysInSync
  <2>1. CASE Me \in connected
    BY <2>1 DEF MirrorInv, InStep
  <2>2. CASE Me \notin connected
    <3>1. view = NoView
      BY <2>2 DEF MirrorInv, Idle
    <3>2. NoView.verdict = "done"
      BY DEF NoView
    <3> QED BY <3>1, <3>2
  <2> QED BY <2>1, <2>2
<1> QED BY <1>1, MirrorInvariant, PTL

\* A handler of the client gives a message back only when it tells the death of
\* a player who was put in the room unannounced.
THEOREM ClientRefusesStrangersOnly == MirrorSpec => []RefusesStrangersOnly
<1>1. MirrorInv => RefusesStrangersOnly
  <2> SUFFICES ASSUME MirrorInv, pending # <<>>, ~ misnamed,
                      DoNetworkCommand(view, Head(pending)).verdict = "refused"
               PROVE  Head(pending).kind = "killed" /\ Head(pending).who \in Others
    BY DEF RefusesStrangersOnly
  <2>1. Me \in connected
    BY DEF MirrorInv, Idle
  <2>2. TracksRoom(RoomOf(Me))
    BY <2>1, MyRoom
  <2>3. PICK u : Accepts(view, pending, u)
    BY <2>2 DEF TracksRoom, Tracks
  <2>4. Fine(DoNetworkCommand(view, Head(pending)), Head(pending))
    BY <2>3, AcceptsHead
  <2> QED BY <2>4 DEF Fine
<1> QED BY <1>1, MirrorInvariant, PTL

=============================================================================
