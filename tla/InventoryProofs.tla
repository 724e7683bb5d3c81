---------------------------- MODULE InventoryProofs ----------------------------
(***************************************************************************)
(* Proofs about Inventory: types, the one place of every item, the         *)
(* counters, the maxima, and that no item is multiplied, for any number of *)
(* players, rooms, slots and items.                                        *)
(***************************************************************************)
EXTENDS Inventory, Loops, SequenceTheorems, FunctionTheorems

-----------------------------------------------------------------------------
(* Sums *)

\* f[j] is the sum of the first j elements of q.
Sums(f, q, n) ==
  /\ f \in [0..n -> Int]
  /\ f[0] = 0
  /\ \A j \in 1..n : f[j] = f[j - 1] + q[j]

LEMMA SumsExist ==
  ASSUME NEW n \in Nat, NEW q \in [1..n -> Int]
  PROVE  \E f : Sums(f, q, n) /\ SumOf(q, n) = f[n]
<1> DEFINE F == [j \in 1..n |-> [x \in Int |-> x + q[j]]]
<1>1. F \in [1..n -> [Int -> Int]]
  OBVIOUS
<1>2. \E g : IsLoop(g, n, Int, 0, F)
  <2> DEFINE X == Int
             zero == 0
  <2>1. zero \in X /\ F \in [1..n -> [X -> X]]
    BY <1>1
  <2> HIDE DEF F, X, zero
  <2>2. \E g : IsLoop(g, n, X, zero, F)
    BY <2>1, LoopExists
  <2> QED BY <2>2 DEF X, zero
<1>2a. PICK g : IsLoop(g, n, Int, 0, F)
  BY <1>2
<1>3. \A j \in 1..n : g[j] = g[j - 1] + q[j]
  <2> SUFFICES ASSUME NEW j \in 1..n PROVE g[j] = g[j - 1] + q[j]
    OBVIOUS
  <2>1. j - 1 \in 0..n /\ g[j - 1] \in Int
    BY <1>2a DEF IsLoop
  <2>2. F[j][g[j - 1]] = g[j - 1] + q[j]
    BY <2>1
  <2> QED BY <1>2a, <2>2 DEF IsLoop
<1>4. g = [j \in 0..n |-> IF j = 0 THEN 0 ELSE g[j - 1] + q[j]]
  BY <1>2a, <1>3 DEF IsLoop
<1> DEFINE f == CHOOSE h : h = [j \in 0..n |-> IF j = 0 THEN 0 ELSE h[j - 1] + q[j]]
<1>5. f = [j \in 0..n |-> IF j = 0 THEN 0 ELSE f[j - 1] + q[j]]
  BY <1>4
<1>6. SumOf(q, n) = f[n]
  BY DEF SumOf
<1> HIDE DEF f
<1>7. f[0] = 0 /\ \A j \in 1..n : f[j] = f[j - 1] + q[j]
  BY <1>5
<1>8. \A j \in 0..n : f[j] \in Int
  <2> DEFINE S == {j \in 0..n : f[j] \in Int}
  <2>1. 0 \in S
    BY <1>7
  <2>2. ASSUME NEW j \in 1..n, j - 1 \in S PROVE j \in S
    <3>1. f[j - 1] \in Int /\ q[j] \in Int /\ f[j] = f[j - 1] + q[j]
      BY <1>7, <2>2
    <3> QED BY <3>1
  <2> HIDE DEF S
  <2>3. 0..n \subseteq S
    BY ONLY n \in Nat, <2>1, <2>2, LoopInduction
  <2> QED BY <2>3 DEF S
<1>9. Sums(f, q, n)
  BY <1>5, <1>7, <1>8 DEF Sums
<1> QED BY <1>6, <1>9

\* Whatever adds up like the sum is the sum.
LEMMA SumIs ==
  ASSUME NEW n \in Nat, NEW q \in [1..n -> Int], NEW f, Sums(f, q, n)
  PROVE  SumOf(q, n) = f[n]
<1>1. PICK g : Sums(g, q, n) /\ SumOf(q, n) = g[n]
  BY SumsExist
<1> DEFINE S == {j \in 0..n : f[j] = g[j]}
<1>2. 0 \in S
  BY <1>1 DEF Sums
<1>3. \A j \in 1..n : j - 1 \in S => j \in S
  BY <1>1 DEF Sums
<1>4. 0..n \subseteq S
  <2> HIDE DEF S
  <2> QED BY <1>2, <1>3, LoopInduction
<1>5. n \in S
  BY <1>4
<1> QED BY <1>1, <1>5

LEMMA SumNat ==
  ASSUME NEW n \in Nat, NEW q \in [1..n -> Nat] PROVE SumOf(q, n) \in Nat
<1>1. PICK f : Sums(f, q, n) /\ SumOf(q, n) = f[n]
  BY SumsExist
<1> DEFINE S == {j \in 0..n : f[j] \in Nat}
<1>2. 0 \in S
  BY <1>1 DEF Sums
<1>3. \A j \in 1..n : j - 1 \in S => j \in S
  BY <1>1 DEF Sums
<1>4. 0..n \subseteq S
  <2> HIDE DEF S
  <2> QED BY <1>2, <1>3, LoopInduction
<1>5. n \in S
  BY <1>4
<1> QED BY <1>1, <1>5

LEMMA SumInt ==
  ASSUME NEW n \in Nat, NEW q \in [1..n -> Int] PROVE SumOf(q, n) \in Int
<1>1. PICK f : Sums(f, q, n) /\ SumOf(q, n) = f[n]
  BY SumsExist
<1> QED BY <1>1 DEF Sums

LEMMA SumZero ==
  ASSUME NEW n \in Nat, NEW q \in [1..n -> Int], \A j \in 1..n : q[j] = 0
  PROVE  SumOf(q, n) = 0
<1> DEFINE f == [j \in 0..n |-> 0]
<1>1. Sums(f, q, n) /\ f[n] = 0
  BY DEF Sums
<1> QED BY <1>1, SumIs

\* One more element in front.
LEMMA SumCons ==
  ASSUME NEW n \in Nat, NEW q \in [1..n -> Int], NEW t \in [1..(n + 1) -> Int],
         \A j \in 1..n : t[j + 1] = q[j]
  PROVE  SumOf(t, n + 1) = t[1] + SumOf(q, n)
<1>1. PICK f : Sums(f, q, n) /\ SumOf(q, n) = f[n]
  BY SumsExist
<1> DEFINE g == [j \in 0..(n + 1) |-> IF j = 0 THEN 0 ELSE t[1] + f[j - 1]]
<1>2. g \in [0..(n + 1) -> Int] /\ g[0] = 0
  BY <1>1 DEF Sums
<1>3. ASSUME NEW j \in 1..(n + 1) PROVE g[j] = g[j - 1] + t[j]
  <2>1. CASE j = 1
    BY <1>1, <2>1 DEF Sums
  <2>2. CASE j # 1
    <3>1. j - 1 \in 1..n /\ t[j] = q[j - 1]
      BY <2>2
    <3>2. f[j - 1] = f[j - 2] + q[j - 1] /\ f[j - 2] \in Int /\ q[j - 1] \in Int
      BY <1>1, <3>1 DEF Sums
    <3>3. g[j] = t[1] + f[j - 1] /\ g[j - 1] = t[1] + f[j - 2]
      BY <2>2
    <3> HIDE DEF g
    <3> QED BY <3>1, <3>2, <3>3
  <2> QED BY <2>1, <2>2
<1>4. g[n + 1] = t[1] + f[n]
  OBVIOUS
<1> HIDE DEF g
<1>5. Sums(g, t, n + 1)
  BY <1>2, <1>3 DEF Sums
<1> QED BY <1>1, <1>4, <1>5, SumIs

\* t is the sequence q of n elements without the one at p.
IsWithout(t, q, n, p) ==
  \A j \in 1..(n - 1) : t[j] = IF j < p THEN q[j] ELSE q[j + 1]

LEMMA SumWithout ==
  ASSUME NEW n \in Nat, NEW q \in [1..n -> Int], NEW p \in 1..n,
         NEW t \in [1..(n - 1) -> Int], IsWithout(t, q, n, p)
  PROVE  SumOf(t, n - 1) = SumOf(q, n) - q[p]
<1>0. \A j \in 1..(n - 1) : t[j] = IF j < p THEN q[j] ELSE q[j + 1]
  BY DEF IsWithout
<1>1. PICK f : Sums(f, q, n) /\ SumOf(q, n) = f[n]
  BY SumsExist
<1> DEFINE g == [j \in 0..(n - 1) |-> IF j < p THEN f[j] ELSE f[j + 1] - q[p]]
<1>2. /\ f[0] = 0 /\ q[p] \in Int
      /\ \A j \in 0..n : f[j] \in Int
      /\ \A j \in 1..n : f[j] = f[j - 1] + q[j] /\ q[j] \in Int
  BY <1>1 DEF Sums
<1>3. /\ g = [j \in 0..(n - 1) |-> g[j]]
      /\ \A j \in 0..(n - 1) : /\ j < p => g[j] = f[j]
                               /\ p <= j => g[j] = f[j + 1] - q[p]
  OBVIOUS
<1> HIDE DEF g
<1>4. \A j \in 0..(n - 1) : g[j] \in Int
  <2> SUFFICES ASSUME NEW j \in 0..(n - 1) PROVE g[j] \in Int
    OBVIOUS
  <2>1. f[j] \in Int /\ f[j + 1] \in Int /\ f[j + 1] - q[p] \in Int
    BY <1>2
  <2>2. g[j] = f[j] \/ g[j] = f[j + 1] - q[p]
    BY <1>3
  <2> QED BY <2>1, <2>2
<1>5. ASSUME NEW j \in 1..(n - 1) PROVE g[j] = g[j - 1] + t[j]
  <2>1. /\ f[j] = f[j - 1] + q[j]
        /\ f[j - 1] \in Int /\ f[j] \in Int /\ q[j] \in Int
    BY <1>2
  <2>1a. /\ f[j + 1] = f[j] + q[j + 1]
         /\ f[j + 1] \in Int /\ q[j + 1] \in Int
    <3>1. j + 1 \in 1..n /\ (j + 1) - 1 = j
      OBVIOUS
    <3> QED BY <1>2, <3>1
  <2>2. CASE j < p
    <3>1. g[j] = f[j] /\ g[j - 1] = f[j - 1] /\ t[j] = q[j]
      BY <1>0, <1>3, <2>2
    <3> QED BY <2>1, <3>1
  <2>3. CASE j = p
    <3>1. g[j] = f[j + 1] - q[j] /\ g[j - 1] = f[j - 1] /\ t[j] = q[j + 1]
      BY <1>0, <1>3, <2>3
    <3> DEFINE a == f[j - 1]
               b == f[j]
               c == f[j + 1]
               x == q[j]
               y == q[j + 1]
    <3>2. a \in Int /\ b \in Int /\ c \in Int /\ x \in Int /\ y \in Int
      BY ONLY <2>1, <2>1a
    <3>3. b = a + x /\ c = b + y
      BY ONLY <2>1, <2>1a
    <3>4. g[j] = c - x /\ g[j - 1] = a /\ t[j] = y
      BY <3>1
    <3> HIDE DEF a, b, c, x, y
    <3> QED BY ONLY <3>2, <3>3, <3>4
  <2>4. CASE j > p
    <3>1. /\ j - 1 \in 0..(n - 1) /\ p <= j - 1 /\ (j - 1) + 1 = j
          /\ t[j] = q[j + 1]
      BY <1>0, <2>4
    <3>2. g[j] = f[j + 1] - q[p] /\ g[j - 1] = f[j] - q[p]
      BY <1>3, <2>4, <3>1
    <3>3. q[p] \in Int /\ t[j] = q[j + 1]
      BY <3>1
    <3> QED BY ONLY <2>1, <2>1a, <3>2, <3>3
  <2> QED BY <2>2, <2>3, <2>4
<1>6. g[n - 1] = f[n] - q[p]
  <2>1. f[n] = f[n - 1] + q[n] /\ f[n - 1] \in Int /\ q[n] \in Int
    BY <1>2
  <2>2. CASE p = n
    <3>1. g[n - 1] = f[n - 1]
      BY <1>3, <2>2
    <3> QED BY <2>1, <2>2, <3>1
  <2>3. CASE p < n
    BY <1>3, <2>3
  <2> QED BY <2>2, <2>3
<1>7. Sums(g, t, n - 1)
  <2>1. g[0] = 0
    <3>1. g[0] = f[0]
      BY <1>3
    <3> QED BY <1>2, <3>1
  <2> QED BY <1>3, <1>4, <1>5, <2>1 DEF Sums
<1>8. SumOf(t, n - 1) = g[n - 1]
  <2>1. n - 1 \in Nat
    OBVIOUS
  <2> QED BY <1>7, <2>1, SumIs
<1> QED BY <1>1, <1>6, <1>8

\* The element at p is another.
LEMMA SumExcept ==
  ASSUME NEW n \in Nat, NEW q \in [1..n -> Int], NEW p \in 1..n, NEW v \in Int
  PROVE  SumOf([q EXCEPT ![p] = v], n) = SumOf(q, n) - q[p] + v
<1> DEFINE t == [q EXCEPT ![p] = v]
<1>1. PICK f : Sums(f, q, n) /\ SumOf(q, n) = f[n]
  BY SumsExist
<1> DEFINE g == [j \in 0..n |-> IF j < p THEN f[j] ELSE f[j] - q[p] + v]
<1>2. /\ f[0] = 0 /\ q[p] \in Int
      /\ \A j \in 0..n : f[j] \in Int
      /\ \A j \in 1..n : f[j] = f[j - 1] + q[j] /\ q[j] \in Int
  BY <1>1 DEF Sums
<1>3. /\ g = [j \in 0..n |-> g[j]]
      /\ \A j \in 0..n : /\ j < p => g[j] = f[j]
                         /\ p <= j => g[j] = f[j] - q[p] + v
  OBVIOUS
<1>4. t \in [1..n -> Int] /\ t[p] = v /\ \A j \in 1..n : j # p => t[j] = q[j]
  OBVIOUS
<1> HIDE DEF g, t
<1>5. \A j \in 0..n : g[j] \in Int
  <2> SUFFICES ASSUME NEW j \in 0..n PROVE g[j] \in Int
    OBVIOUS
  <2>1. f[j] \in Int
    BY <1>2
  <2> QED BY <1>2, <1>3, <2>1
<1>6. ASSUME NEW j \in 1..n PROVE g[j] = g[j - 1] + t[j]
  <2>1. f[j] = f[j - 1] + q[j] /\ f[j - 1] \in Int /\ f[j] \in Int /\ q[j] \in Int
    BY <1>2
  <2>2. CASE j < p
    <3>1. g[j] = f[j] /\ g[j - 1] = f[j - 1] /\ t[j] = q[j]
      BY <1>3, <1>4, <2>2
    <3> QED BY <2>1, <3>1
  <2>3. CASE j = p
    <3>1. g[j] = f[j] - q[j] + v /\ g[j - 1] = f[j - 1] /\ t[j] = v
      BY <1>3, <1>4, <2>3
    <3> QED BY <2>1, <3>1
  <2>4. CASE j > p
    <3>1. g[j] = f[j] - q[p] + v /\ g[j - 1] = f[j - 1] - q[p] + v /\ t[j] = q[j]
      BY <1>3, <1>4, <2>4
    <3> QED BY <1>2, <2>1, <3>1
  <2> QED BY <2>2, <2>3, <2>4
<1>7. Sums(g, t, n)
  <2>1. g[0] = 0
    <3>1. g[0] = f[0]
      BY <1>3
    <3> QED BY <1>2, <3>1
  <2> QED BY <1>3, <1>5, <1>6, <2>1 DEF Sums
<1>8. SumOf(t, n) = g[n]
  BY <1>4, <1>7, SumIs
<1>9. g[n] = f[n] - q[p] + v
  BY <1>3
<1> QED BY <1>1, <1>8, <1>9 DEF t

-----------------------------------------------------------------------------
(* The inductive invariant *)

\* The sizes of a list, and the modifiers of the slots, when the kinds are k.
SizesIn(inv, k) == [j \in 1..Len(inv) |-> Size[k[inv[j]]]]
ModsIn(equip, k) == [s \in Slots |-> IF equip[s] = NULL THEN 0 ELSE Mod[k[equip[s]]]]

\* The numbers of body b are those of its items when their kinds are k, and no
\* item is in it twice.
Sound(b, k) ==
  /\ b \in Holding(Items)
  /\ IsInjective(b.inv)
  /\ \A s, t \in Slots : b.equip[s] = b.equip[t] /\ b.equip[s] # NULL => s = t
  /\ \A s \in Slots : b.equip[s] \notin Range(b.inv)
  /\ \A i \in ItemsOf(b) : k[i] \in Kinds
  /\ b.count = Len(b.inv)
  /\ b.disk = SumOf(SizesIn(b.inv, k), Len(b.inv))
  /\ b.maxHP = (BaseHP + SumOf(ModsIn(b.equip, k), NumSlots)) % Wrap

\* The same of a stream.
SoundStream(st) ==
  /\ st \in Holding(Kinds)
  /\ st.count = Len(st.inv)
  /\ st.disk = SumOf([j \in 1..Len(st.inv) |-> Size[st.inv[j]]], Len(st.inv))
  /\ st.maxHP = (BaseHP + SumOf([s \in Slots |-> IF st.equip[s] = NULL THEN 0 ELSE Mod[st.equip[s]]],
                                NumSlots)) % Wrap
  /\ st.hp <= st.maxHP

\* No item is in two floors or bodies, or twice on a floor, and the items that
\* exist are those that are in one.
Placed ==
  /\ \A r \in Rooms : IsInjective(floor[r])
  /\ \A r, q \in Rooms, i \in Items :
       i \in Range(floor[r]) /\ i \in Range(floor[q]) => r = q
  /\ \A n, m \in Names, i \in Items :
       i \in ItemsOf(body[n]) /\ i \in ItemsOf(body[m]) => n = m
  /\ \A n \in Names, r \in Rooms, i \in Items :
       ~ (i \in ItemsOf(body[n]) /\ i \in Range(floor[r]))
  /\ \A i \in Items :
       kind[i] # NULL <=> \/ \E r \in Rooms : i \in Range(floor[r])
                          \/ \E n \in Names : i \in ItemsOf(body[n])

\* A player who is not in the game holds nothing, one who is has been saved.
InGame ==
  \A n \in Names :
    /\ at[n] = NULL => ItemsOf(body[n]) = {}
    /\ at[n] # NULL => SoundStream(saved[n])

\* Bodies and streams are in order.
Bodies == \A n \in Names : Sound(body[n], kind) /\ body[n].hp <= body[n].maxHP

Streams == \A n \in Names : saved[n] # NULL => SoundStream(saved[n])

Inv ==
  /\ TypeOK
  /\ Bodies
  /\ Streams
  /\ Placed
  /\ InGame

-----------------------------------------------------------------------------
(* Lists *)

LEMMA RangeIs == ASSUME NEW S, NEW s \in Seq(S)
                 PROVE  /\ Range(s) = {s[j] : j \in 1..Len(s)} /\ Range(s) \subseteq S
                        /\ DOMAIN s = 1..Len(s) /\ Len(s) \in Nat /\ s \in [1..Len(s) -> S]
BY DEF Range

\* Item i in front of a list that it is not in.
LEMMA ConsList ==
  ASSUME NEW S, NEW s \in Seq(S), NEW i \in S
  PROVE  LET t == <<i>> \o s IN
         /\ t \in Seq(S) /\ Len(t) = Len(s) + 1
         /\ t[1] = i /\ \A j \in 1..Len(s) : t[j + 1] = s[j]
         /\ Range(t) = Range(s) \cup {i}
         /\ IsInjective(s) /\ i \notin Range(s) => IsInjective(t)
<1> DEFINE t == <<i>> \o s
<1>1. t \in Seq(S) /\ Len(t) = Len(s) + 1 /\ t[1] = i /\ \A j \in 1..Len(s) : t[j + 1] = s[j]
  OBVIOUS
<1> HIDE DEF t
<1>2. \A x \in 1..Len(t) : x = 1 \/ (x - 1 \in 1..Len(s) /\ t[x] = s[x - 1])
  <2> SUFFICES ASSUME NEW x \in 1..Len(t), x # 1
               PROVE  x - 1 \in 1..Len(s) /\ t[x] = s[x - 1]
    OBVIOUS
  <2>1. x - 1 \in 1..Len(s) /\ (x - 1) + 1 = x
    BY <1>1
  <2> QED BY <1>1, <2>1
<1>3. DOMAIN s = 1..Len(s) /\ DOMAIN t = 1..Len(t) /\ Len(s) \in Nat
  BY <1>1
<1>4. Range(t) = Range(s) \cup {i}
  <2>1. ASSUME NEW x \in 1..Len(t) PROVE t[x] \in Range(s) \cup {i}
    BY <1>1, <1>2, <1>3 DEF Range
  <2>2. ASSUME NEW x \in 1..Len(s) PROVE s[x] \in Range(t)
    <3>1. x + 1 \in 1..Len(t) /\ t[x + 1] = s[x]
      BY <1>1
    <3> QED BY <1>3, <3>1 DEF Range
  <2>3. i \in Range(t)
    BY <1>1, <1>3 DEF Range
  <2> QED BY <1>3, <2>1, <2>2, <2>3 DEF Range
<1>5. ASSUME IsInjective(s), i \notin Range(s) PROVE IsInjective(t)
  <2> SUFFICES ASSUME NEW x \in 1..Len(t), NEW y \in 1..Len(t), t[x] = t[y] PROVE x = y
    BY <1>3 DEF IsInjective
  <2>1. CASE x = 1 /\ y # 1
    BY <1>1, <1>2, <1>3, <1>5, <2>1 DEF Range
  <2>2. CASE x # 1 /\ y = 1
    BY <1>1, <1>2, <1>3, <1>5, <2>2 DEF Range
  <2>3. CASE x # 1 /\ y # 1
    <3>1. /\ x - 1 \in 1..Len(s) /\ y - 1 \in 1..Len(s) /\ s[x - 1] = s[y - 1]
      BY <1>2, <2>3
    <3>2. x - 1 = y - 1
      BY <1>3, <1>5, <3>1 DEF IsInjective
    <3> QED BY <3>2
  <2> QED BY <2>1, <2>2, <2>3
<1> QED BY <1>1, <1>4, <1>5 DEF t

\* Item i out of a list that it is in once.
LEMMA UnlinkedList ==
  ASSUME NEW S, NEW s \in Seq(S), NEW i \in Range(s), IsInjective(s)
  PROVE  LET t == Unlinked(s, i) IN
         /\ t \in Seq(S) /\ Len(t) = Len(s) - 1
         /\ \E p \in 1..Len(s) : s[p] = i /\ IsWithout(t, s, Len(s), p)
         /\ Range(t) = Range(s) \ {i}
         /\ IsInjective(t)
<1> DEFINE t == Unlinked(s, i)
           n == Len(s)
           p == CHOOSE j \in DOMAIN s : s[j] = i
<1>1. DOMAIN s = 1..n /\ n \in Nat /\ s \in [1..n -> S]
  OBVIOUS
<1>2. p \in 1..n /\ s[p] = i
  BY <1>1 DEF Range
<1>3. t = [j \in 1..(n - 1) |-> IF j < p THEN s[j] ELSE s[j + 1]]
  BY DEF Unlinked
<1> HIDE DEF t, p, n
<1>4. n - 1 \in Nat
  BY <1>1, <1>2
<1>5. /\ DOMAIN t = 1..(n - 1)
      /\ \A j \in 1..(n - 1) : /\ t[j] = IF j < p THEN s[j] ELSE s[j + 1]
                               /\ j \in 1..n /\ j + 1 \in 1..n
  BY <1>1, <1>2, <1>3
<1>6. t \in [1..(n - 1) -> S]
  BY <1>1, <1>3, <1>5
<1>7. t \in Seq(S) /\ Len(t) = n - 1
  BY <1>4, <1>6
<1>8. \A j \in 1..n : j # p => \E k \in 1..(n - 1) : t[k] = s[j]
  <2> SUFFICES ASSUME NEW j \in 1..n, j # p PROVE \E k \in 1..(n - 1) : t[k] = s[j]
    OBVIOUS
  <2>1. CASE j < p
    BY <1>1, <1>2, <1>5, <2>1
  <2>2. CASE j > p
    <3>1. j - 1 \in 1..(n - 1) /\ ~ (j - 1 < p) /\ (j - 1) + 1 = j
      BY <1>1, <1>2, <2>2
    <3> QED BY <1>5, <3>1
  <2> QED BY <1>1, <1>2, <2>1, <2>2
<1>9. \A k \in 1..(n - 1) : \E j \in 1..n : j # p /\ t[k] = s[j] /\ (j = k \/ j = k + 1)
  BY <1>1, <1>2, <1>5
<1>10. Range(t) = Range(s) \ {i}
  <2>1. ASSUME NEW k \in 1..(n - 1) PROVE t[k] \in Range(s) /\ t[k] # i
    <3>1. PICK j \in 1..n : j # p /\ t[k] = s[j]
      BY <1>9
    <3> QED BY <1>1, <1>2, <3>1 DEF Range, IsInjective
  <2>2. ASSUME NEW j \in 1..n, s[j] # i PROVE s[j] \in Range(t)
    <3>1. PICK k \in 1..(n - 1) : t[k] = s[j]
      BY <1>2, <1>8, <2>2
    <3> QED BY <1>5, <3>1 DEF Range
  <2> QED BY <1>1, <1>5, <2>1, <2>2 DEF Range
<1>11. IsInjective(t)
  <2> SUFFICES ASSUME NEW x \in 1..(n - 1), NEW y \in 1..(n - 1), t[x] = t[y], x < y PROVE FALSE
    BY <1>4, <1>5 DEF IsInjective
  <2> DEFINE f(k) == IF k < p THEN k ELSE k + 1
  <2>1. /\ f(x) \in 1..n /\ f(y) \in 1..n /\ t[x] = s[f(x)] /\ t[y] = s[f(y)] /\ f(x) # f(y)
    BY <1>1, <1>2, <1>5
  <2> HIDE DEF f
  <2> QED BY <1>1, <2>1 DEF IsInjective
<1>12. IsWithout(t, s, n, p)
  BY <1>5 DEF IsWithout
<1> QED BY <1>2, <1>7, <1>10, <1>11, <1>12 DEF t, n

-----------------------------------------------------------------------------
(* The floor of a room *)

RoomState == [items : Seq(Items), gone : SUBSET Items]

RoomItems(w) == Range(w.items) \cup w.gone

\* A floor is not too long, has no item twice and none that was deleted.
GoodRoom(w) ==
  /\ w \in RoomState
  /\ Len(w.items) <= MaxItemsInRoom
  /\ IsInjective(w.items)
  /\ Range(w.items) \cap w.gone = {}

\* The last element of a list cut off.
LEMMA CutList ==
  ASSUME NEW S, NEW s \in Seq(S), Len(s) > 0, IsInjective(s)
  PROVE  LET t == SubSeq(s, 1, Len(s) - 1) IN
         /\ t \in Seq(S) /\ Len(t) = Len(s) - 1
         /\ Range(t) = Range(s) \ {s[Len(s)]}
         /\ IsInjective(t)
         /\ s[Len(s)] \in Range(s)
<1> DEFINE t == SubSeq(s, 1, Len(s) - 1)
           n == Len(s)
<1>1. DOMAIN s = 1..n /\ n \in Nat /\ n > 0
  OBVIOUS
<1>2. t \in Seq(S) /\ Len(t) = n - 1 /\ DOMAIN t = 1..(n - 1)
  <2>1. \A j \in 1..(n - 1) : s[j] \in S
    OBVIOUS
  <2>2. t \in Seq(S) /\ Len(t) = n - 1
    BY <1>1, <2>1, SubSeqProperties
  <2> QED BY <2>2
<1>3. \A j \in 1..(n - 1) : t[j] = s[j]
  OBVIOUS
<1> HIDE DEF t, n
<1>4. Range(t) = Range(s) \ {s[n]}
  <2>1. ASSUME NEW j \in 1..(n - 1) PROVE t[j] \in Range(s) \ {s[n]}
    <3>1. j \in 1..n /\ n \in 1..n /\ j # n
      BY <1>1
    <3> QED BY <1>1, <1>3, <3>1 DEF Range, IsInjective
  <2>2. ASSUME NEW j \in 1..n, s[j] # s[n] PROVE s[j] \in Range(t)
    <3>1. j \in 1..(n - 1)
      BY <1>1, <2>2
    <3> QED BY <1>2, <1>3, <3>1 DEF Range
  <2> QED BY <1>1, <1>2, <2>1, <2>2 DEF Range
<1>5. IsInjective(t)
  <2> SUFFICES ASSUME NEW x \in 1..(n - 1), NEW y \in 1..(n - 1), t[x] = t[y] PROVE x = y
    BY <1>2 DEF IsInjective
  <2>1. x \in 1..n /\ y \in 1..n /\ s[x] = s[y]
    BY <1>1, <1>3
  <2> QED BY <1>1, <2>1 DEF IsInjective
<1>6. s[n] \in Range(s)
  BY <1>1 DEF Range
<1> QED BY <1>2, <1>4, <1>5, <1>6 DEF t, n

\* An item that drops is on the floor or deleted, and so are the others.
LEMMA AddItemToRoomGood ==
  ASSUME NEW w, GoodRoom(w), NEW i \in Items, i \notin RoomItems(w)
  PROVE  /\ GoodRoom(AddItemToRoom(w, i))
         /\ RoomItems(AddItemToRoom(w, i)) = RoomItems(w) \cup {i}
         /\ w.gone \subseteq AddItemToRoom(w, i).gone
<1> DEFINE s == <<i>> \o w.items
           x == AddItemToRoom(w, i)
<1>1. /\ w.items \in Seq(Items) /\ w.gone \in SUBSET Items /\ IsInjective(w.items)
      /\ Len(w.items) <= MaxItemsInRoom /\ Len(w.items) \in Nat
      /\ i \notin Range(w.items) /\ i \notin w.gone
      /\ Range(w.items) \cap w.gone = {}
  BY DEF GoodRoom, RoomState, RoomItems
<1>2. /\ s \in Seq(Items) /\ Len(s) = Len(w.items) + 1
      /\ Range(s) = Range(w.items) \cup {i} /\ IsInjective(s)
  BY <1>1, ConsList
<1>3. x = IF Len(s) > MaxItemsInRoom
          THEN [items |-> SubSeq(s, 1, Len(s) - 1), gone |-> w.gone \cup {s[Len(s)]}]
          ELSE [items |-> s, gone |-> w.gone]
  BY DEF AddItemToRoom
<1>4. Range(s) \subseteq Items
  BY <1>2, RangeIs
<1> HIDE DEF s, x
<1>5. CASE Len(s) > MaxItemsInRoom
  <2> DEFINE t == SubSeq(s, 1, Len(s) - 1)
  <2>1. /\ t \in Seq(Items) /\ Len(t) = Len(s) - 1 /\ Range(t) = Range(s) \ {s[Len(s)]}
        /\ IsInjective(t) /\ s[Len(s)] \in Range(s)
    BY <1>1, <1>2, CutList
  <2> HIDE DEF t
  <2>2. x = [items |-> t, gone |-> w.gone \cup {s[Len(s)]}]
    BY <1>3, <1>5 DEF t
  <2>3. x.items = t /\ x.gone = w.gone \cup {s[Len(s)]}
    BY <2>2
  <2>4. x \in RoomState
    BY <1>1, <1>4, <2>1, <2>2 DEF RoomState
  <2>5. Len(t) <= MaxItemsInRoom
    BY <1>1, <1>2, <2>1, InventoryAssumption
  <2>6. Range(t) \cap (w.gone \cup {s[Len(s)]}) = {}
    BY <1>1, <1>2, <2>1
  <2>7. Range(t) \cup (w.gone \cup {s[Len(s)]}) = (Range(w.items) \cup w.gone) \cup {i}
    BY <1>2, <2>1
  <2>8. GoodRoom(x)
    BY <2>1, <2>3, <2>4, <2>5, <2>6 DEF GoodRoom
  <2> QED BY <2>3, <2>7, <2>8 DEF x, RoomItems
<1>6. CASE ~ (Len(s) > MaxItemsInRoom)
  <2>1. x = [items |-> s, gone |-> w.gone]
    BY <1>3, <1>6
  <2>2. x.items = s /\ x.gone = w.gone
    BY <2>1
  <2>3. x \in RoomState
    BY <1>1, <1>2, <2>1 DEF RoomState
  <2>4. Len(s) <= MaxItemsInRoom
    BY <1>1, <1>2, <1>6, InventoryAssumption
  <2>5. GoodRoom(x)
    BY <1>1, <1>2, <2>2, <2>3, <2>4 DEF GoodRoom
  <2> QED BY <1>2, <2>2, <2>5 DEF x, RoomItems
<1> QED BY <1>5, <1>6

-----------------------------------------------------------------------------
(* Numbers modulo Wrap *)

\* Adding to a remainder is adding to what it is the remainder of.
LEMMA ModAdd ==
  ASSUME NEW x \in Int, NEW m \in Int
  PROVE  ((x % Wrap) + m) % Wrap = (x + m) % Wrap
<1>1. Wrap \in Nat /\ Wrap > 0
  BY InventoryAssumption
<1>2. PICK k \in Int : x = Wrap * k + (x % Wrap)
  BY <1>1, DivMod
<1> DEFINE y == (x % Wrap) + m
           z == x + m
<1>3. y \in Int /\ z \in Int
  BY <1>1
<1>4. z = Wrap * k + y
  BY <1>1, <1>2
<1> HIDE DEF y, z
<1>5. PICK l \in Int : y = Wrap * l + (y % Wrap)
  BY <1>1, <1>3, DivMod
<1>6. PICK j \in Int : z = Wrap * j + (z % Wrap)
  BY <1>1, <1>3, DivMod
<1>7. y % Wrap \in 0..(Wrap - 1) /\ z % Wrap \in 0..(Wrap - 1)
  BY <1>1, <1>3
<1>8. Wrap * (k + l) + (y % Wrap) = Wrap * j + (z % Wrap)
  <2> DEFINE yr == y % Wrap
             zr == z % Wrap
  <2>1. yr \in Int /\ zr \in Int /\ y = Wrap * l + yr /\ z = Wrap * j + zr
    BY <1>1, <1>5, <1>6, <1>7
  <2> HIDE DEF yr, zr
  <2>2. Wrap * (k + l) + yr = Wrap * j + zr
    BY <1>1, <1>4, <2>1
  <2> QED BY <2>2 DEF yr, zr
<1>9. y % Wrap = z % Wrap
  <2>1. k + l \in Int
    OBVIOUS
  <2> HIDE <1>2
  <2> QED BY <1>1, <1>7, <1>8, <2>1, ModUnique
<1> QED BY <1>9 DEF y, z

-----------------------------------------------------------------------------
(* One player and its items *)

LEMMA HoldingFields ==
  ASSUME NEW S, NEW b \in Holding(S)
  PROVE  /\ b.inv \in Seq(S) /\ Len(b.inv) \in Nat
         /\ b.equip \in [Slots -> S \cup {NULL}]
         /\ b.count \in 0..MaxCarryItems /\ b.disk \in 0..MaxCarryDisk
         /\ b.maxHP \in 0..(Wrap - 1) /\ b.hp \in 0..(Wrap - 1)
BY DEF Holding

LEMMA MakeHolding ==
  ASSUME NEW S, NEW inv \in Seq(S), NEW equip \in [Slots -> S \cup {NULL}],
         NEW count \in 0..MaxCarryItems, NEW disk \in 0..MaxCarryDisk,
         NEW maxHP \in 0..(Wrap - 1), NEW hp \in 0..(Wrap - 1)
  PROVE  [inv |-> inv, equip |-> equip, count |-> count, disk |-> disk,
          maxHP |-> maxHP, hp |-> hp] \in Holding(S)
BY DEF Holding

LEMMA SoundFields ==
  ASSUME NEW b, NEW k, Sound(b, k)
  PROVE  /\ b.inv \in Seq(Items) /\ Len(b.inv) \in Nat /\ IsInjective(b.inv)
         /\ b.inv \in [1..Len(b.inv) -> Items]
         /\ b.equip \in [Slots -> Items \cup {NULL}]
         /\ b.count \in 0..MaxCarryItems /\ b.disk \in 0..MaxCarryDisk
         /\ b.maxHP \in 0..(Wrap - 1) /\ b.hp \in 0..(Wrap - 1)
         /\ NULL \notin Items
         /\ Range(b.inv) \subseteq Items
         /\ ItemsOf(b) = Range(b.inv) \cup {i \in Items : \E s \in Slots : b.equip[s] = i}
         /\ ItemsOf(b) \subseteq Items
         /\ SizesIn(b.inv, k) \in [1..Len(b.inv) -> Nat]
         /\ ModsIn(b.equip, k) \in [1..NumSlots -> Int]
<1>1. b \in Holding(Items) /\ IsInjective(b.inv)
  BY DEF Sound
<1>2. /\ b.inv \in Seq(Items) /\ Len(b.inv) \in Nat
      /\ b.equip \in [Slots -> Items \cup {NULL}]
      /\ b.count \in 0..MaxCarryItems /\ b.disk \in 0..MaxCarryDisk
      /\ b.maxHP \in 0..(Wrap - 1) /\ b.hp \in 0..(Wrap - 1)
  BY <1>1, HoldingFields
<1>3. NULL \notin Items
  BY InventoryAssumption
<1>4. /\ Range(b.inv) \subseteq Items /\ b.inv \in [1..Len(b.inv) -> Items]
      /\ Range(b.inv) = {b.inv[j] : j \in 1..Len(b.inv)}
  BY <1>2, RangeIs
<1>5. ItemsOf(b) = Range(b.inv) \cup {i \in Items : \E s \in Slots : b.equip[s] = i}
  <2>1. Range(b.equip) \ {NULL} = {i \in Items : \E s \in Slots : b.equip[s] = i}
    BY <1>2, <1>3 DEF Range
  <2> QED BY <2>1 DEF ItemsOf
<1>6. \A i \in ItemsOf(b) : k[i] \in Kinds
  BY DEF Sound
<1>7. SizesIn(b.inv, k) \in [1..Len(b.inv) -> Nat]
  <2> SUFFICES ASSUME NEW j \in 1..Len(b.inv) PROVE Size[k[b.inv[j]]] \in Nat
    BY DEF SizesIn
  <2>1. b.inv[j] \in ItemsOf(b)
    BY <1>4, <1>5
  <2> QED BY <1>6, <2>1, InventoryAssumption
<1>8. ModsIn(b.equip, k) \in [1..NumSlots -> Int]
  <2> SUFFICES ASSUME NEW s \in Slots, b.equip[s] # NULL PROVE Mod[k[b.equip[s]]] \in Int
    BY DEF ModsIn, Slots
  <2>1. b.equip[s] \in ItemsOf(b)
    BY <1>2, <1>5
  <2> QED BY <1>6, <2>1, InventoryAssumption
<1> QED BY <1>1, <1>2, <1>3, <1>4, <1>5, <1>7, <1>8

\* RemoveItemFromInventory keeps the counters right and takes nothing else.
LEMMA RemovedSound ==
  ASSUME NEW b, Sound(b, kind), NEW i \in Range(b.inv)
  PROVE  LET c == Removed(b, i) IN
         /\ Sound(c, kind)
         /\ ItemsOf(c) = ItemsOf(b) \ {i}
         /\ Range(c.inv) = Range(b.inv) \ {i}
         /\ c.equip = b.equip /\ c.maxHP = b.maxHP /\ c.hp = b.hp
<1> DEFINE c == Removed(b, i)
           n == Len(b.inv)
           t == Unlinked(b.inv, i)
           q == SizesIn(b.inv, kind)
           u == SizesIn(t, kind)
<1>1. /\ b.inv \in Seq(Items) /\ n \in Nat /\ IsInjective(b.inv)
      /\ b.inv \in [1..n -> Items]
      /\ b.equip \in [Slots -> Items \cup {NULL}]
      /\ b.count \in 0..MaxCarryItems /\ b.disk \in 0..MaxCarryDisk
      /\ b.maxHP \in 0..(Wrap - 1) /\ b.hp \in 0..(Wrap - 1)
      /\ NULL \notin Items /\ Range(b.inv) \subseteq Items
      /\ ItemsOf(b) = Range(b.inv) \cup {x \in Items : \E s \in Slots : b.equip[s] = x}
      /\ q \in [1..n -> Nat]
  BY SoundFields
<1>2. b \in Holding(Items) /\ b.count = n /\ b.disk = SumOf(q, n)
  BY DEF Sound
<1>3. /\ t \in Seq(Items) /\ Len(t) = n - 1
      /\ Range(t) = Range(b.inv) \ {i} /\ IsInjective(t)
  BY <1>1, UnlinkedList
<1>4a. PICK p \in 1..n : b.inv[p] = i /\ IsWithout(t, b.inv, n, p)
  BY <1>1, UnlinkedList
<1>4. b.inv[p] = i /\ \A j \in 1..(n - 1) : t[j] = IF j < p THEN b.inv[j] ELSE b.inv[j + 1]
  BY <1>4a DEF IsWithout
<1>5. q[p] = Size[kind[i]] /\ q[p] \in Nat
  BY <1>1, <1>4 DEF SizesIn
<1>6. u \in [1..(n - 1) -> Nat]
  <2> SUFFICES ASSUME NEW j \in 1..(n - 1) PROVE u[j] \in Nat
    BY <1>3 DEF SizesIn
  <2>1. j \in 1..n /\ j + 1 \in 1..n
    BY <1>1
  <2>2. u[j] = q[j] \/ u[j] = q[j + 1]
    BY <1>3, <1>4, <2>1 DEF SizesIn
  <2> QED BY <1>1, <2>1, <2>2
<1>7. \A j \in 1..(n - 1) : u[j] = IF j < p THEN q[j] ELSE q[j + 1]
  <2> SUFFICES ASSUME NEW j \in 1..(n - 1) PROVE u[j] = IF j < p THEN q[j] ELSE q[j + 1]
    OBVIOUS
  <2>1. j \in 1..n /\ j + 1 \in 1..n
    BY <1>1
  <2> QED BY <1>3, <1>4, <2>1 DEF SizesIn
<1>7a. IsWithout(u, q, n, p)
  BY <1>7 DEF IsWithout
<1>8. SumOf(u, n - 1) = SumOf(q, n) - q[p] /\ SumOf(u, n - 1) \in Nat
  <2>1. n - 1 \in Nat /\ n \in Nat
    BY <1>1
  <2>2. u \in [1..(n - 1) -> Int] /\ q \in [1..n -> Int]
    BY <1>1, <1>6
  <2> HIDE DEF u, q, n
  <2>3. SumOf(u, n - 1) \in Nat
    BY <1>6, <2>1, SumNat
  <2>4. SumOf(u, n - 1) = SumOf(q, n) - q[p]
    BY ONLY p \in 1..n, <2>1, <1>7a, <2>2, SumWithout, ZenonT(30)
  <2> QED BY <2>3, <2>4
<1>9. c = [inv |-> t, equip |-> b.equip, count |-> b.count - 1,
           disk |-> b.disk - Size[kind[i]], maxHP |-> b.maxHP, hp |-> b.hp]
  <2>1. b.count > 0 /\ ~ (Size[kind[i]] > b.disk)
    BY <1>1, <1>2, <1>4, <1>5, <1>8
  <2>2. b = [inv |-> b.inv, equip |-> b.equip, count |-> b.count, disk |-> b.disk,
             maxHP |-> b.maxHP, hp |-> b.hp]
    BY <1>2 DEF Holding
  <2>3. c = [b EXCEPT !.inv = t, !.count = b.count - 1, !.disk = b.disk - Size[kind[i]]]
    BY <2>1 DEF Removed
  <2> HIDE DEF t, n, q, c
  <2> QED BY <2>2, <2>3
<1> HIDE DEF t, n, q, u, c
<1>10. /\ c.inv = t /\ c.equip = b.equip /\ c.count = b.count - 1
       /\ c.disk = b.disk - Size[kind[i]] /\ c.maxHP = b.maxHP /\ c.hp = b.hp
  BY <1>9
<1>11. c.count = Len(c.inv) /\ c.disk = SumOf(SizesIn(c.inv, kind), Len(c.inv))
  BY <1>2, <1>3, <1>5, <1>8, <1>10 DEF u
<1>12. c \in Holding(Items)
  <2>1. b.count - 1 \in 0..MaxCarryItems
    BY <1>1, <1>2, <1>4, InventoryAssumption
  <2>2. b.disk - Size[kind[i]] \in 0..MaxCarryDisk
    BY <1>1, <1>2, <1>5, <1>8, InventoryAssumption
  <2> QED BY <1>1, <1>3, <1>9, <2>1, <2>2, MakeHolding
<1>13. /\ \A s, r \in Slots : b.equip[s] = b.equip[r] /\ b.equip[s] # NULL => s = r
       /\ \A s \in Slots : b.equip[s] \notin Range(b.inv)
       /\ \A x \in ItemsOf(b) : kind[x] \in Kinds
       /\ b.maxHP = (BaseHP + SumOf(ModsIn(b.equip, kind), NumSlots)) % Wrap
  BY DEF Sound
<1>14. ItemsOf(c) = ItemsOf(b) \ {i}
  <2>1. \A s \in Slots : b.equip[s] # i
    BY <1>13
  <2>2. ItemsOf(c) = Range(t) \cup (Range(b.equip) \ {NULL})
    BY <1>10 DEF ItemsOf
  <2>3. i \notin Range(b.equip)
    BY <1>1, <2>1 DEF Range
  <2> QED BY <1>3, <2>2, <2>3 DEF ItemsOf
<1>15. Sound(c, kind)
  BY <1>3, <1>10, <1>11, <1>12, <1>13, <1>14 DEF Sound
<1> QED BY <1>3, <1>10, <1>14, <1>15 DEF c

\* b is a record of the six fields.
IsBody(b) == b = [inv |-> b.inv, equip |-> b.equip, count |-> b.count, disk |-> b.disk,
                  maxHP |-> b.maxHP, hp |-> b.hp]

LEMMA HoldingIsBody == ASSUME NEW S, NEW b \in Holding(S) PROVE IsBody(b)
BY DEF Holding, IsBody

LEMMA AddedIs ==
  ASSUME NEW b, IsBody(b), NEW i
  PROVE  Added(b, i) = [inv |-> <<i>> \o b.inv, equip |-> b.equip, count |-> b.count + 1,
                        disk |-> b.disk + Size[kind[i]], maxHP |-> b.maxHP, hp |-> b.hp]
<1> DEFINE t == <<i>> \o b.inv
           c == Added(b, i)
<1>1. b = [inv |-> b.inv, equip |-> b.equip, count |-> b.count, disk |-> b.disk,
           maxHP |-> b.maxHP, hp |-> b.hp]
  BY DEF IsBody
<1>2. c = [b EXCEPT !.inv = t, !.count = b.count + 1, !.disk = b.disk + Size[kind[i]]]
  BY DEF Added
<1> HIDE DEF t, c
<1>3. c = [inv |-> t, equip |-> b.equip, count |-> b.count + 1,
           disk |-> b.disk + Size[kind[i]], maxHP |-> b.maxHP, hp |-> b.hp]
  BY <1>1, <1>2
<1> QED BY <1>3 DEF t, c

LEMMA UninstalledIs ==
  ASSUME NEW b, IsBody(b), NEW s \in Slots
  PROVE  Uninstalled(b, s) = [inv |-> b.inv, equip |-> [b.equip EXCEPT ![s] = NULL],
                              count |-> b.count, disk |-> b.disk,
                              maxHP |-> (b.maxHP - Mod[kind[b.equip[s]]]) % Wrap, hp |-> b.hp]
<1> DEFINE h == (b.maxHP - Mod[kind[b.equip[s]]]) % Wrap
           c == Uninstalled(b, s)
<1>1. b = [inv |-> b.inv, equip |-> b.equip, count |-> b.count, disk |-> b.disk,
           maxHP |-> b.maxHP, hp |-> b.hp]
  BY DEF IsBody
<1>2. c = [b EXCEPT !.equip[s] = NULL, !.maxHP = h]
  BY DEF Uninstalled
<1> HIDE DEF h, c
<1> DEFINE e == [b.equip EXCEPT ![s] = NULL]
<1>3. c = [b EXCEPT !.equip = e, !.maxHP = h]
  BY <1>1, <1>2
<1> HIDE DEF e
<1>4. c = [inv |-> b.inv, equip |-> e, count |-> b.count, disk |-> b.disk, maxHP |-> h,
           hp |-> b.hp]
  BY <1>1, <1>3
<1> QED BY <1>4 DEF h, c, e

\* So does AddItemToInventory of an item that fits.
LEMMA AddedSound ==
  ASSUME NEW b, Sound(b, kind), NEW i \in Items, i \notin ItemsOf(b), kind[i] \in Kinds,
         CanCarry(b, i)
  PROVE  LET c == Added(b, i) IN
         /\ Sound(c, kind)
         /\ ItemsOf(c) = ItemsOf(b) \cup {i}
         /\ c.equip = b.equip /\ c.maxHP = b.maxHP /\ c.hp = b.hp
<1> DEFINE c == Added(b, i)
           n == Len(b.inv)
           t == <<i>> \o b.inv
           q == SizesIn(b.inv, kind)
           u == SizesIn(t, kind)
<1>1. /\ b.inv \in Seq(Items) /\ n \in Nat /\ IsInjective(b.inv)
      /\ b.equip \in [Slots -> Items \cup {NULL}]
      /\ b.count \in 0..MaxCarryItems /\ b.disk \in 0..MaxCarryDisk
      /\ b.maxHP \in 0..(Wrap - 1) /\ b.hp \in 0..(Wrap - 1)
      /\ ItemsOf(b) = Range(b.inv) \cup {x \in Items : \E s \in Slots : b.equip[s] = x}
      /\ q \in [1..n -> Nat]
  BY SoundFields
<1>2. b \in Holding(Items) /\ b.count = n /\ b.disk = SumOf(q, n)
  BY DEF Sound
<1>3. /\ t \in Seq(Items) /\ Len(t) = n + 1 /\ t[1] = i
      /\ \A j \in 1..n : t[j + 1] = b.inv[j]
      /\ Range(t) = Range(b.inv) \cup {i} /\ IsInjective(t)
  BY <1>1, ConsList
<1>4. Size[kind[i]] \in Nat
  BY InventoryAssumption
<1>5. u \in [1..(n + 1) -> Nat] /\ u[1] = Size[kind[i]] /\ \A j \in 1..n : u[j + 1] = q[j]
  <2>1. DOMAIN u = 1..(n + 1) /\ \A j \in 1..(n + 1) : u[j] = Size[kind[t[j]]]
    BY <1>3 DEF SizesIn
  <2>2. \A j \in 1..n : q[j] = Size[kind[b.inv[j]]]
    BY DEF SizesIn
  <2>3. u[1] = Size[kind[i]]
    BY <1>1, <1>3, <2>1
  <2>4. ASSUME NEW j \in 1..n PROVE u[j + 1] = q[j]
    <3>1. j + 1 \in 1..(n + 1)
      BY <1>1
    <3> QED BY <1>3, <2>1, <2>2, <3>1
  <2>5. ASSUME NEW j \in 1..(n + 1) PROVE u[j] \in Nat
    <3>1. CASE j = 1
      BY <1>4, <2>3, <3>1
    <3>2. CASE j # 1
      <4>1. j - 1 \in 1..n /\ (j - 1) + 1 = j
        BY <1>1, <3>2
      <4>2. u[j] = q[j - 1]
        BY <2>4, <4>1
      <4> QED BY <1>1, <4>1, <4>2
    <3> QED BY <3>1, <3>2
  <2>6. u = [j \in 1..(n + 1) |-> u[j]]
    BY <1>3 DEF SizesIn
  <2> HIDE DEF u
  <2> QED BY <2>3, <2>4, <2>5, <2>6
<1>6. SumOf(u, n + 1) = SumOf(q, n) + Size[kind[i]]
  <2>0. n \in Nat /\ q \in [1..n -> Nat] /\ u \in [1..(n + 1) -> Nat]
        /\ \A j \in 1..n : u[j + 1] = q[j]
    BY <1>1, <1>5
  <2> HIDE DEF u, q, n
  <2>1. u \in [1..(n + 1) -> Int] /\ q \in [1..n -> Int]
    BY ONLY <2>0
  <2>1a. SumOf(q, n) \in Nat
    BY ONLY <2>0, SumNat
  <2>2. SumOf(u, n + 1) = u[1] + SumOf(q, n)
    BY ONLY <2>0, <2>1, SumCons, ZenonT(30)
  <2> QED BY <1>4, <1>5, <2>1a, <2>2
<1>7. c = [inv |-> t, equip |-> b.equip, count |-> b.count + 1,
           disk |-> b.disk + Size[kind[i]], maxHP |-> b.maxHP, hp |-> b.hp]
  BY <1>2, HoldingIsBody, AddedIs
<1> HIDE DEF t, n, q, u, c
<1>8. /\ c.inv = t /\ c.equip = b.equip /\ c.count = b.count + 1
      /\ c.disk = b.disk + Size[kind[i]] /\ c.maxHP = b.maxHP /\ c.hp = b.hp
  BY <1>7
<1>9. c.count = Len(c.inv) /\ c.disk = SumOf(SizesIn(c.inv, kind), Len(c.inv))
  BY <1>2, <1>3, <1>6, <1>8 DEF u
<1>10. c \in Holding(Items)
  <2>1. b.count + 1 <= MaxCarryItems /\ b.disk + Size[kind[i]] <= MaxCarryDisk
    BY DEF CanCarry
  <2>2. MaxCarryItems \in Nat /\ MaxCarryDisk \in Nat
    BY InventoryAssumption
  <2>3. b.count + 1 \in 0..MaxCarryItems
    BY <1>1, <2>1, <2>2
  <2>4. b.disk + Size[kind[i]] \in 0..MaxCarryDisk
    <3> DEFINE d == Size[kind[i]]
    <3>1. d \in Nat /\ b.disk + d <= MaxCarryDisk
      BY <1>4, <2>1
    <3> HIDE DEF d
    <3>2. b.disk + d \in 0..MaxCarryDisk
      BY <1>1, <2>2, <3>1
    <3> QED BY <3>2 DEF d
  <2> QED BY <1>1, <1>3, <1>7, <2>3, <2>4, MakeHolding
<1>11. /\ \A s, r \in Slots : b.equip[s] = b.equip[r] /\ b.equip[s] # NULL => s = r
       /\ \A s \in Slots : b.equip[s] \notin Range(b.inv)
       /\ \A x \in ItemsOf(b) : kind[x] \in Kinds
       /\ b.maxHP = (BaseHP + SumOf(ModsIn(b.equip, kind), NumSlots)) % Wrap
  BY DEF Sound
<1>12. ItemsOf(c) = ItemsOf(b) \cup {i}
  <2>1. i # NULL
    BY InventoryAssumption
  <2> QED BY <1>3, <1>8, <2>1 DEF ItemsOf
<1>13. \A s \in Slots : b.equip[s] \notin Range(t)
  BY <1>1, <1>3, <1>11
<1>14. Sound(c, kind)
  BY <1>3, <1>8, <1>9, <1>10, <1>11, <1>12, <1>13 DEF Sound
<1> QED BY <1>8, <1>12, <1>14 DEF c

\* A change of one slot, to x, that adjusts the maximum by the difference m.
Slotted(b, s, x, m) == [b EXCEPT !.equip[s] = x, !.maxHP = (b.maxHP + m) % Wrap]

Difference(b, s, x) == (IF x = NULL THEN 0 ELSE Mod[kind[x]]) - ModsIn(b.equip, kind)[s]

SlotChange(b, s, x, m) ==
  /\ Sound(b, kind) /\ s \in Slots /\ x \in Items \cup {NULL}
  /\ x # NULL => x \notin ItemsOf(b) /\ kind[x] \in Kinds
  /\ m \in Int /\ m = Difference(b, s, x)

IsSlotted(c, b, s, x) ==
  /\ Sound(c, kind)
  /\ ItemsOf(c) = (ItemsOf(b) \ {b.equip[s]}) \cup ({x} \ {NULL})
  /\ c.inv = b.inv /\ c.equip = [b.equip EXCEPT ![s] = x] /\ c.hp = b.hp

LEMMA SlotSound ==
  ASSUME NEW b, NEW s, NEW x, NEW m, SlotChange(b, s, x, m)
  PROVE  IsSlotted(Slotted(b, s, x, m), b, s, x)
<1> DEFINE e == [b.equip EXCEPT ![s] = x]
           h == (b.maxHP + m) % Wrap
           c == Slotted(b, s, x, m)
           q == ModsIn(b.equip, kind)
           v == IF x = NULL THEN 0 ELSE Mod[kind[x]]
           base == BaseHP + SumOf(q, NumSlots)
<1>0. /\ Sound(b, kind) /\ s \in Slots /\ x \in Items \cup {NULL}
      /\ x # NULL => x \notin ItemsOf(b) /\ kind[x] \in Kinds
      /\ m \in Int /\ m = Difference(b, s, x)
  BY DEF SlotChange
<1>1. /\ b.inv \in Seq(Items)
      /\ b.equip \in [Slots -> Items \cup {NULL}]
      /\ b.count \in 0..MaxCarryItems /\ b.disk \in 0..MaxCarryDisk
      /\ b.maxHP \in 0..(Wrap - 1) /\ b.hp \in 0..(Wrap - 1)
      /\ NULL \notin Items
      /\ ItemsOf(b) = Range(b.inv) \cup {y \in Items : \E r \in Slots : b.equip[r] = y}
      /\ q \in [1..NumSlots -> Int]
  BY <1>0, SoundFields
<1>2. /\ b \in Holding(Items) /\ b.maxHP = base % Wrap
      /\ \A r, w \in Slots : b.equip[r] = b.equip[w] /\ b.equip[r] # NULL => r = w
      /\ \A r \in Slots : b.equip[r] \notin Range(b.inv)
      /\ \A y \in ItemsOf(b) : kind[y] \in Kinds
      /\ IsInjective(b.inv) /\ b.count = Len(b.inv)
      /\ b.disk = SumOf(SizesIn(b.inv, kind), Len(b.inv))
  BY <1>0 DEF Sound
<1>3. /\ e \in [Slots -> Items \cup {NULL}] /\ e[s] = x
      /\ \A r \in Slots : r # s => e[r] = b.equip[r]
  BY <1>0, <1>1
<1>4. /\ NumSlots \in Nat /\ s \in 1..NumSlots /\ v \in Int /\ BaseHP \in Int
      /\ q[s] \in Int /\ m = v - q[s]
  BY <1>0, <1>1, InventoryAssumption DEF Slots, Difference
<1>5. ModsIn(e, kind) = [q EXCEPT ![s] = v]
  <2>1. \A r \in Slots : ModsIn(e, kind)[r] = [q EXCEPT ![s] = v][r]
    BY <1>0, <1>3 DEF ModsIn
  <2>2. DOMAIN q = Slots /\ DOMAIN ModsIn(e, kind) = Slots
    BY <1>0 DEF ModsIn
  <2> QED BY <1>0, <2>1, <2>2 DEF ModsIn
<1> HIDE DEF e, q, v
<1>6. SumOf(ModsIn(e, kind), NumSlots) = SumOf(q, NumSlots) - q[s] + v
  <2>1. SumOf([q EXCEPT ![s] = v], NumSlots) = SumOf(q, NumSlots) - q[s] + v
    <3>1. NumSlots \in Nat /\ q \in [1..NumSlots -> Int] /\ s \in 1..NumSlots /\ v \in Int
      BY <1>1, <1>4
    <3> QED BY ONLY <3>1, SumExcept, ZenonT(30)
  <2> QED BY <1>0, <1>5, <2>1
<1>7. SumOf(q, NumSlots) \in Int
  BY <1>0, <1>1, <1>4, SumInt
<1>8. base + m = BaseHP + SumOf(ModsIn(e, kind), NumSlots) /\ base \in Int
  BY <1>0, <1>4, <1>6, <1>7
<1>9. h = (BaseHP + SumOf(ModsIn(e, kind), NumSlots)) % Wrap
  <2> HIDE DEF base
  <2>1. h = (base + m) % Wrap
    BY <1>0, <1>2, <1>8, ModAdd
  <2> QED BY <1>0, <1>8, <2>1
<1>10. h \in 0..(Wrap - 1)
  <2>1. Wrap \in Nat /\ Wrap > 0 /\ b.maxHP + m \in Int
    BY <1>0, <1>1, InventoryAssumption
  <2> QED BY <1>0, <2>1, DivMod
<1> HIDE DEF h, base
<1>11. c = [inv |-> b.inv, equip |-> e, count |-> b.count, disk |-> b.disk,
            maxHP |-> h, hp |-> b.hp]
  <2>1. b = [inv |-> b.inv, equip |-> b.equip, count |-> b.count, disk |-> b.disk,
             maxHP |-> b.maxHP, hp |-> b.hp]
    BY <1>0, <1>2 DEF Holding
  <2>2. c = [b EXCEPT !.equip = e, !.maxHP = h]
    BY <1>0, <2>1 DEF e, h, Slotted
  <2> HIDE DEF c
  <2> QED BY <1>0, <2>1, <2>2
<1> HIDE DEF c
<1>12. /\ c.inv = b.inv /\ c.equip = e /\ c.count = b.count /\ c.disk = b.disk
       /\ c.maxHP = h /\ c.hp = b.hp
  BY <1>0, <1>11
<1>13. c \in Holding(Items)
  BY <1>0, <1>1, <1>3, <1>10, <1>11, MakeHolding
<1>14. ItemsOf(c) = (ItemsOf(b) \ {b.equip[s]}) \cup ({x} \ {NULL})
  <2>1. ItemsOf(c) = Range(b.inv) \cup {y \in Items : \E r \in Slots : e[r] = y}
    <3>1. Range(e) \ {NULL} = {y \in Items : \E r \in Slots : e[r] = y}
      BY <1>0, <1>1, <1>3 DEF Range
    <3> QED BY <1>0, <1>12, <3>1 DEF ItemsOf
  <2>2. \A y \in Items : (\E r \in Slots : e[r] = y)
                           <=> (y = x \/ (y # b.equip[s] /\ \E r \in Slots : b.equip[r] = y))
    BY <1>0, <1>1, <1>2, <1>3
  <2>3. b.equip[s] \notin Range(b.inv)
    BY <1>0, <1>2
  <2>4. Range(b.inv) \subseteq Items
    BY <1>0, <1>1, RangeIs
  <2> QED BY <1>0, <1>1, <2>1, <2>2, <2>3, <2>4
<1>15. \A r, w \in Slots : e[r] = e[w] /\ e[r] # NULL => r = w
  <2>1. \A r \in Slots : x # NULL => b.equip[r] # x
    BY <1>0, <1>1
  <2> QED BY <1>0, <1>2, <1>3, <2>1
<1>16. \A r \in Slots : e[r] \notin Range(b.inv)
  <2>1. NULL \notin Range(b.inv)
    BY <1>0, <1>1, RangeIs
  <2> QED BY <1>0, <1>1, <1>2, <1>3, <2>1
<1>17. \A y \in ItemsOf(c) : kind[y] \in Kinds
  BY <1>0, <1>2, <1>14
<1>18. Sound(c, kind)
  BY <1>0, <1>2, <1>9, <1>12, <1>13, <1>15, <1>16, <1>17 DEF Sound
<1> QED BY <1>0, <1>12, <1>14, <1>18 DEF c, e, h, IsSlotted

LEMMA InstalledSound ==
  ASSUME NEW b, Sound(b, kind), NEW s \in Slots, b.equip[s] = NULL,
         NEW i \in Items, i \notin ItemsOf(b), kind[i] \in Kinds
  PROVE  /\ Sound(Installed(b, i, s), kind)
         /\ ItemsOf(Installed(b, i, s)) = ItemsOf(b) \cup {i}
<1> DEFINE m == Mod[kind[i]]
           c == Slotted(b, s, i, m)
<1>1. i # NULL /\ m \in Int
  BY InventoryAssumption
<1>2. m = Difference(b, s, i)
  <2>1. ModsIn(b.equip, kind)[s] = 0
    BY DEF ModsIn
  <2> QED BY <1>1, <2>1 DEF Difference
<1>3. Installed(b, i, s) = c
  BY DEF Installed, Slotted
<1> HIDE DEF m
<1>4. Sound(c, kind) /\ ItemsOf(c) = (ItemsOf(b) \ {b.equip[s]}) \cup ({i} \ {NULL})
  <2>1. SlotChange(b, s, i, m)
    BY <1>1, <1>2 DEF SlotChange
  <2>2. IsSlotted(c, b, s, i)
    BY <2>1, SlotSound
  <2> QED BY <2>2 DEF IsSlotted
<1>5. NULL \notin ItemsOf(b)
  BY SoundFields
<1> HIDE DEF c
<1> QED BY <1>1, <1>3, <1>4, <1>5

LEMMA UninstalledSound ==
  ASSUME NEW b, Sound(b, kind), NEW s \in Slots, b.equip[s] # NULL
  PROVE  LET c == Uninstalled(b, s) IN
         /\ Sound(c, kind)
         /\ ItemsOf(c) = ItemsOf(b) \ {b.equip[s]}
         /\ c.inv = b.inv /\ c.equip = [b.equip EXCEPT ![s] = NULL] /\ c.hp = b.hp
         /\ c.count = b.count /\ c.disk = b.disk
<1> DEFINE m == Mod[kind[b.equip[s]]]
           d == -m
           c == Slotted(b, s, NULL, d)
<1>1. /\ b.equip \in [Slots -> Items \cup {NULL}] /\ NULL \notin Items
      /\ b.maxHP \in 0..(Wrap - 1)
      /\ ItemsOf(b) = Range(b.inv) \cup {x \in Items : \E r \in Slots : b.equip[r] = x}
      /\ b \in Holding(Items)
  BY SoundFields DEF Sound
<1>2. m \in Int
  <2>1. b.equip[s] \in ItemsOf(b)
    BY <1>1
  <2>2. kind[b.equip[s]] \in Kinds
    BY <2>1 DEF Sound
  <2> QED BY <2>2, InventoryAssumption
<1>3. d \in Int /\ d = Difference(b, s, NULL)
  <2>1. ModsIn(b.equip, kind)[s] = m
    BY DEF ModsIn
  <2> QED BY <1>2, <2>1 DEF Difference
<1>4. Uninstalled(b, s) = c
  <2>1. b.maxHP - m = b.maxHP + d
    BY <1>1, <1>2
  <2>2. Uninstalled(b, s) = [b EXCEPT !.equip[s] = NULL, !.maxHP = (b.maxHP - m) % Wrap]
    BY DEF Uninstalled
  <2> HIDE DEF m, d
  <2> QED BY <2>1, <2>2 DEF Slotted
<1> HIDE DEF m, d
<1>5. /\ Sound(c, kind)
      /\ ItemsOf(c) = (ItemsOf(b) \ {b.equip[s]}) \cup ({NULL} \ {NULL})
      /\ c.inv = b.inv /\ c.equip = [b.equip EXCEPT ![s] = NULL] /\ c.hp = b.hp
  <2>1. SlotChange(b, s, NULL, d)
    BY <1>3 DEF SlotChange
  <2>2. IsSlotted(c, b, s, NULL)
    BY <2>1, SlotSound
  <2> QED BY <2>2 DEF IsSlotted
<1>6. c.count = b.count /\ c.disk = b.disk
  BY <1>1 DEF Holding, Slotted
<1> HIDE DEF c
<1> QED BY <1>4, <1>5, <1>6

\* A stat is none of the items' business.
LEMMA StatSound ==
  ASSUME NEW b, NEW k, Sound(b, k), NEW h \in 0..(Wrap - 1)
  PROVE  LET c == [b EXCEPT !.hp = h] IN
         /\ Sound(c, k)
         /\ ItemsOf(c) = ItemsOf(b)
         /\ c.inv = b.inv /\ c.equip = b.equip /\ c.maxHP = b.maxHP /\ c.hp = h
<1> DEFINE c == [b EXCEPT !.hp = h]
<1>1. b \in Holding(Items)
  BY DEF Sound
<1>2. /\ c \in Holding(Items)
      /\ c.inv = b.inv /\ c.equip = b.equip /\ c.maxHP = b.maxHP /\ c.hp = h
      /\ c.count = b.count /\ c.disk = b.disk
  BY <1>1 DEF Holding
<1> HIDE DEF c
<1>3. ItemsOf(c) = ItemsOf(b)
  BY <1>2 DEF ItemsOf
<1>4. Sound(c, k)
  BY <1>2, <1>3 DEF Sound
<1> QED BY <1>2, <1>3, <1>4 DEF c

LEMMA ClampedSound ==
  ASSUME NEW b, NEW k, Sound(b, k)
  PROVE  /\ Sound(Clamped(b), k) /\ ItemsOf(Clamped(b)) = ItemsOf(b)
         /\ Clamped(b).hp <= Clamped(b).maxHP
<1> DEFINE h == IF b.hp > b.maxHP THEN b.maxHP ELSE b.hp
<1>1. /\ b.maxHP \in 0..(Wrap - 1) /\ b.hp \in 0..(Wrap - 1) /\ Wrap \in Nat
  BY SoundFields, InventoryAssumption
<1>2. h \in 0..(Wrap - 1) /\ h <= b.maxHP
  BY <1>1
<1>3. Clamped(b) = [b EXCEPT !.hp = h]
  BY DEF Clamped
<1> HIDE DEF h
<1> QED BY <1>2, <1>3, StatSound

\* EquipItem: the item moves from the inventory to the slot.
LEMMA EquippedSound ==
  ASSUME NEW b, Sound(b, kind), NEW i \in Range(b.inv), NEW s \in Slots, b.equip[s] = NULL
  PROVE  LET c == Clamped(Installed(Removed(b, i), i, s)) IN
         Sound(c, kind) /\ ItemsOf(c) = ItemsOf(b) /\ c.hp <= c.maxHP
<1> DEFINE d == Removed(b, i)
           e == Installed(d, i, s)
<1>1. Range(b.inv) \subseteq Items /\ Range(b.inv) \subseteq ItemsOf(b)
  BY SoundFields
<1>2. kind[i] \in Kinds
  BY <1>1 DEF Sound
<1>3. Sound(d, kind) /\ ItemsOf(d) = ItemsOf(b) \ {i} /\ d.equip = b.equip
  BY RemovedSound
<1> HIDE DEF d
<1>4. Sound(e, kind) /\ ItemsOf(e) = ItemsOf(d) \cup {i}
  BY <1>1, <1>2, <1>3, InstalledSound
<1> HIDE DEF e
<1>5. Sound(Clamped(e), kind) /\ ItemsOf(Clamped(e)) = ItemsOf(e) /\ Clamped(e).hp <= Clamped(e).maxHP
  BY <1>4, ClampedSound
<1> QED BY <1>1, <1>3, <1>4, <1>5 DEF d, e

\* UnequipItem: the item moves from the slot to the inventory.
LEMMA UnequippedSound ==
  ASSUME NEW b, Sound(b, kind), NEW s \in Slots, b.equip[s] # NULL,
         CanCarry(b, b.equip[s])
  PROVE  LET c == Clamped(Uninstalled(Added(b, b.equip[s]), s)) IN
         Sound(c, kind) /\ ItemsOf(c) = ItemsOf(b) /\ c.hp <= c.maxHP
<1> DEFINE i == b.equip[s]
           d == Uninstalled(b, s)
           e == Added(d, i)
<1>1. /\ b.equip \in [Slots -> Items \cup {NULL}] /\ NULL \notin Items
      /\ ItemsOf(b) = Range(b.inv) \cup {x \in Items : \E r \in Slots : b.equip[r] = x}
      /\ b \in Holding(Items)
  BY SoundFields DEF Sound
<1>2. i \in Items /\ i \in ItemsOf(b)
  BY <1>1
<1>3. kind[i] \in Kinds
  BY <1>2 DEF Sound
<1>4. Uninstalled(Added(b, i), s) = e
  <2> DEFINE t == <<i>> \o b.inv
             f == [b.equip EXCEPT ![s] = NULL]
             h == (b.maxHP - Mod[kind[i]]) % Wrap
             y == Added(b, i)
             z == b.disk + Size[kind[i]]
  <2>1. y = [inv |-> t, equip |-> b.equip, count |-> b.count + 1, disk |-> z,
             maxHP |-> b.maxHP, hp |-> b.hp]
    BY <1>1, HoldingIsBody, AddedIs
  <2>2. d = [inv |-> b.inv, equip |-> f, count |-> b.count, disk |-> b.disk,
             maxHP |-> h, hp |-> b.hp]
    BY <1>1, HoldingIsBody, UninstalledIs
  <2> HIDE DEF t, f, h, y, z, d
  <2>3. IsBody(y) /\ IsBody(d)
    BY <2>1, <2>2 DEF IsBody
  <2>4. /\ y.inv = t /\ y.equip = b.equip /\ y.count = b.count + 1 /\ y.disk = z
        /\ y.maxHP = b.maxHP /\ y.hp = b.hp
    BY <2>1
  <2>5. /\ d.inv = b.inv /\ d.equip = f /\ d.count = b.count /\ d.disk = b.disk
        /\ d.maxHP = h /\ d.hp = b.hp
    BY <2>2
  <2>6. e = [inv |-> t, equip |-> f, count |-> b.count + 1, disk |-> z, maxHP |-> h, hp |-> b.hp]
    <3>1. e = [inv |-> <<i>> \o d.inv, equip |-> d.equip, count |-> d.count + 1,
               disk |-> d.disk + Size[kind[i]], maxHP |-> d.maxHP, hp |-> d.hp]
      BY <2>3, AddedIs
    <3> QED BY <2>5, <3>1 DEF t, z
  <2>7. Uninstalled(y, s) = [inv |-> t, equip |-> f, count |-> b.count + 1, disk |-> z,
                             maxHP |-> h, hp |-> b.hp]
    <3>1. Uninstalled(y, s) = [inv |-> y.inv, equip |-> [y.equip EXCEPT ![s] = NULL],
                               count |-> y.count, disk |-> y.disk,
                               maxHP |-> (y.maxHP - Mod[kind[y.equip[s]]]) % Wrap, hp |-> y.hp]
      BY <2>3, UninstalledIs
    <3> QED BY <2>4, <3>1 DEF f, h
  <2> QED BY <2>6, <2>7 DEF y
<1>5. /\ Sound(d, kind) /\ ItemsOf(d) = ItemsOf(b) \ {i}
      /\ d.count = b.count /\ d.disk = b.disk
  BY UninstalledSound
<1>6. CanCarry(d, i)
  BY <1>5 DEF CanCarry
<1> HIDE DEF d
<1>7. Sound(e, kind) /\ ItemsOf(e) = ItemsOf(d) \cup {i}
  BY <1>2, <1>3, <1>5, <1>6, AddedSound
<1> HIDE DEF e
<1>8. Sound(Clamped(e), kind) /\ ItemsOf(Clamped(e)) = ItemsOf(e) /\ Clamped(e).hp <= Clamped(e).maxHP
  BY <1>7, ClampedSound
<1>9. ItemsOf(e) = ItemsOf(b)
  BY <1>2, <1>5, <1>7
<1> QED BY <1>4, <1>8, <1>9

\* The kinds of other items do not matter.
LEMMA SoundWhenKindsChange ==
  ASSUME NEW b, NEW k, NEW l, Sound(b, k), \A i \in ItemsOf(b) : l[i] = k[i]
  PROVE  Sound(b, l)
<1>1. /\ b.equip \in [Slots -> Items \cup {NULL}] /\ b.inv \in Seq(Items)
      /\ ItemsOf(b) = Range(b.inv) \cup {i \in Items : \E s \in Slots : b.equip[s] = i}
  BY SoundFields
<1>2. SizesIn(b.inv, l) = SizesIn(b.inv, k)
  <2>1. \A j \in 1..Len(b.inv) : b.inv[j] \in ItemsOf(b)
    BY <1>1, RangeIs
  <2> QED BY <2>1 DEF SizesIn
<1>3. ModsIn(b.equip, l) = ModsIn(b.equip, k)
  <2>1. \A s \in Slots : b.equip[s] # NULL => b.equip[s] \in ItemsOf(b)
    BY <1>1
  <2> QED BY <2>1 DEF ModsIn
<1> QED BY <1>2, <1>3 DEF Sound

-----------------------------------------------------------------------------
(* Streams *)

\* WritePlayerData keeps all numbers.
LEMMA StreamSound ==
  ASSUME NEW b, Sound(b, kind), b.hp <= b.maxHP
  PROVE  SoundStream(Stream(b))
<1> DEFINE inv == [j \in DOMAIN b.inv |-> kind[b.inv[j]]]
           equip == [s \in Slots |-> IF b.equip[s] = NULL THEN NULL ELSE kind[b.equip[s]]]
           st == Stream(b)
           n == Len(b.inv)
<1>1. /\ b.inv \in Seq(Items) /\ n \in Nat
      /\ b.equip \in [Slots -> Items \cup {NULL}]
      /\ b.count \in 0..MaxCarryItems /\ b.disk \in 0..MaxCarryDisk
      /\ b.maxHP \in 0..(Wrap - 1) /\ b.hp \in 0..(Wrap - 1)
      /\ ItemsOf(b) = Range(b.inv) \cup {i \in Items : \E s \in Slots : b.equip[s] = i}
  BY SoundFields
<1>2. /\ b \in Holding(Items) /\ b.count = n
      /\ b.disk = SumOf(SizesIn(b.inv, kind), n)
      /\ b.maxHP = (BaseHP + SumOf(ModsIn(b.equip, kind), NumSlots)) % Wrap
      /\ \A i \in ItemsOf(b) : kind[i] \in Kinds
  BY DEF Sound
<1>3. /\ DOMAIN b.inv = 1..n
      /\ \A j \in 1..n : b.inv[j] \in ItemsOf(b) /\ kind[b.inv[j]] \in Kinds
      /\ \A s \in Slots : b.equip[s] # NULL => kind[b.equip[s]] \in Kinds
  <2>1. \A j \in 1..n : b.inv[j] \in ItemsOf(b)
    BY <1>1, RangeIs
  <2>2. \A s \in Slots : b.equip[s] # NULL => b.equip[s] \in ItemsOf(b)
    BY <1>1
  <2> QED BY <1>1, <1>2, <2>1, <2>2
<1>4. inv \in Seq(Kinds) /\ Len(inv) = n /\ \A j \in 1..n : inv[j] = kind[b.inv[j]]
  BY <1>1, <1>3
<1>5. /\ equip \in [Slots -> Kinds \cup {NULL}]
      /\ \A s \in Slots : equip[s] = IF b.equip[s] = NULL THEN NULL ELSE kind[b.equip[s]]
  BY <1>3
<1>6. NULL \notin Kinds
  BY InventoryAssumption
<1> HIDE DEF inv, equip
<1>7. st = [inv |-> inv, equip |-> equip, count |-> b.count, disk |-> b.disk,
            maxHP |-> b.maxHP, hp |-> b.hp]
  <2>1. b = [inv |-> b.inv, equip |-> b.equip, count |-> b.count, disk |-> b.disk,
             maxHP |-> b.maxHP, hp |-> b.hp]
    BY <1>2 DEF Holding
  <2>2. st = [b EXCEPT !.inv = inv, !.equip = equip]
    BY DEF Stream, inv, equip
  <2> HIDE DEF st
  <2> QED BY <2>1, <2>2
<1> HIDE DEF st
<1>8. st \in Holding(Kinds)
  BY <1>1, <1>4, <1>5, <1>7, MakeHolding
<1>9. [j \in 1..n |-> Size[inv[j]]] = SizesIn(b.inv, kind)
  BY <1>4 DEF SizesIn
<1>10. [s \in Slots |-> IF equip[s] = NULL THEN 0 ELSE Mod[equip[s]]] = ModsIn(b.equip, kind)
  BY <1>3, <1>5, <1>6 DEF ModsIn
<1>11. /\ st.inv = inv /\ st.equip = equip /\ st.count = b.count /\ st.disk = b.disk
       /\ st.maxHP = b.maxHP /\ st.hp = b.hp
  BY <1>7
<1>12. SoundStream(st)
  BY <1>2, <1>4, <1>8, <1>9, <1>10, <1>11 DEF SoundStream
<1> QED BY <1>12 DEF st

\* A player without items is in order.
LEMMA EmptySound ==
  ASSUME NEW k
  PROVE  /\ Sound(Empty, k) /\ ItemsOf(Empty) = {} /\ Empty.hp <= Empty.maxHP
         /\ SoundStream(Empty)
<1>1. /\ MaxCarryItems \in Nat /\ MaxCarryDisk \in Nat /\ NumSlots \in Nat
      /\ Wrap \in Nat /\ BaseHP \in 0..(Wrap - 1)
  BY InventoryAssumption
<1> DEFINE inv == <<>>
           equip == [s \in Slots |-> NULL]
<1>2. Empty \in Holding(Items) /\ Empty \in Holding(Kinds)
  BY <1>1 DEF Empty, Holding
<1>3. /\ Empty.inv = inv /\ Empty.equip = equip /\ Empty.count = 0 /\ Empty.disk = 0
      /\ Empty.maxHP = BaseHP /\ Empty.hp = BaseHP
  BY DEF Empty
<1>4. Len(inv) = 0 /\ Range(inv) = {}
  BY DEF Range
<1>5. Range(equip) \subseteq {NULL}
  BY DEF Range
<1>6. ItemsOf(Empty) = {}
  BY <1>3, <1>4, <1>5 DEF ItemsOf
<1>7. SumOf(SizesIn(inv, k), 0) = 0 /\ SumOf([j \in 1..0 |-> Size[inv[j]]], 0) = 0
  <2> DEFINE zero == 0
  <2>1. \A q \in [1..zero -> Int] : SumOf(q, zero) = 0
    <3>1. zero \in Nat /\ \A j \in 1..zero : FALSE
      OBVIOUS
    <3> HIDE DEF zero
    <3> QED BY <3>1, SumZero
  <2>2. SizesIn(inv, k) \in [1..0 -> Int] /\ [j \in 1..0 |-> Size[inv[j]]] \in [1..0 -> Int]
    BY <1>4 DEF SizesIn
  <2> QED BY <2>1, <2>2
<1>8. BaseHP % Wrap = BaseHP
  BY <1>1
<1>9. /\ SumOf(ModsIn(equip, k), NumSlots) = 0
      /\ SumOf([s \in Slots |-> IF equip[s] = NULL THEN 0 ELSE Mod[equip[s]]], NumSlots) = 0
  <2> DEFINE q == [s \in 1..NumSlots |-> 0]
  <2>1. q \in [1..NumSlots -> Int] /\ \A s \in 1..NumSlots : q[s] = 0
    OBVIOUS
  <2>2. /\ ModsIn(equip, k) = q
        /\ [s \in Slots |-> IF equip[s] = NULL THEN 0 ELSE Mod[equip[s]]] = q
    BY DEF ModsIn, Slots
  <2> HIDE DEF q
  <2>3. SumOf(q, NumSlots) = 0
    BY <1>1, <2>1, SumZero
  <2> QED BY <2>2, <2>3
<1>10. /\ IsInjective(inv)
       /\ \A s, t \in Slots : equip[s] = equip[t] /\ equip[s] # NULL => s = t
       /\ \A s \in Slots : equip[s] \notin Range(inv)
  BY <1>4 DEF IsInjective
<1> HIDE DEF inv, equip
<1>11. Sound(Empty, k)
  BY <1>1, <1>2, <1>3, <1>4, <1>6, <1>7, <1>8, <1>9, <1>10 DEF Sound
<1>12. SoundStream(Empty)
  BY <1>1, <1>2, <1>3, <1>4, <1>7, <1>8, <1>9 DEF SoundStream
<1> QED BY <1>1, <1>3, <1>6, <1>11, <1>12

\* There are as many objects as places, so each place gets one of its own.
LEMMA FreshIs ==
  ASSUME NEW P, IsFiniteSet(P), HasFresh(P)
  PROVE  /\ Fresh(P) \in [P -> Items] /\ IsInjective(Fresh(P))
         /\ DOMAIN Fresh(P) = P
         /\ \A p \in P : kind[Fresh(P)[p]] = NULL
         /\ Range(Fresh(P)) \subseteq Items
         /\ \A i \in Range(Fresh(P)) : kind[i] = NULL
<1> DEFINE m == Cardinality(P)
           n == Cardinality(Free)
<1>1. IsFiniteSet(Free)
  <2>1. Free \in SUBSET Items
    BY DEF Free
  <2> QED BY <2>1, FS_Subset, InventoryAssumption
<1>2. m \in Nat /\ ExistsBijection(1..m, P) /\ n \in Nat /\ ExistsBijection(1..n, Free)
  BY <1>1, FS_CardinalityType
<1>3. m <= n
  BY DEF HasFresh
<1> HIDE DEF m, n
<1>4. ExistsInjection(P, 1..m)
  <2>1. ExistsBijection(P, 1..m)
    BY <1>2, Fun_ExistsBijSymmetric
  <2> QED BY <2>1, Fun_ExistsBij, Fun_ExistsInj DEF Bijection
<1>5. ExistsInjection(1..m, 1..n)
  <2> DEFINE f == [j \in 1..m |-> j]
  <2>1. f \in [1..m -> 1..n] /\ IsInjective(f)
    BY <1>2, <1>3 DEF IsInjective
  <2> HIDE DEF f
  <2> QED BY <2>1, Fun_ExistsInj DEF Injection
<1>6. ExistsInjection(1..n, Free)
  BY <1>2, Fun_ExistsBij, Fun_ExistsInj DEF Bijection
<1>7. ExistsInjection(P, Free)
  <2>1. ExistsInjection(P, 1..n)
    BY <1>4, <1>5, Fun_ExistsInjTransitive
  <2> QED BY <1>6, <2>1, Fun_ExistsInjTransitive
<1>8. \E f \in [P -> Free] : IsInjective(f)
  BY <1>7, Fun_ExistsInj DEF Injection
<1>9. Fresh(P) \in [P -> Free] /\ IsInjective(Fresh(P))
  BY <1>8 DEF Fresh
<1> QED BY <1>9 DEF Free, Range

\* The places of a stream, and what is in them.
LEMMA PlacesOfStream ==
  ASSUME NEW st, SoundStream(st)
  PROVE  LET P == DOMAIN KindsOf(st) IN
         /\ IsFiniteSet(P) /\ P \subseteq Nat
         /\ \A s \in Slots : /\ s \in P <=> st.equip[s] # NULL
                             /\ s \in P => KindsOf(st)[s] = st.equip[s]
         /\ \A j \in 1..Len(st.inv) : NumSlots + j \in P /\ KindsOf(st)[NumSlots + j] = st.inv[j]
         /\ \A p \in P : p \in Slots \/ \E j \in 1..Len(st.inv) : p = NumSlots + j
         /\ KindsOf(st) \in [P -> Kinds]
<1> DEFINE n == Len(st.inv)
           P == {q \in 1..(NumSlots + n) : KindAt(st, q) # NULL}
<1>1. /\ st.inv \in Seq(Kinds) /\ n \in Nat /\ st.equip \in [Slots -> Kinds \cup {NULL}]
  BY HoldingFields DEF SoundStream
<1>2. NULL \notin Kinds /\ NumSlots \in Nat
  BY InventoryAssumption
<1>3. KindsOf(st) = [p \in P |-> KindAt(st, p)] /\ DOMAIN KindsOf(st) = P
  BY DEF KindsOf
<1>4. \A s \in Slots : s \in 1..(NumSlots + n) /\ KindAt(st, s) = st.equip[s]
  BY <1>1, <1>2 DEF Slots, KindAt
<1>5. ASSUME NEW j \in 1..n
      PROVE  NumSlots + j \in 1..(NumSlots + n) /\ KindAt(st, NumSlots + j) = st.inv[j]
             /\ st.inv[j] \in Kinds
  <2>1. NumSlots + j \in 1..(NumSlots + n) /\ NumSlots + j \notin Slots
    BY <1>1, <1>2 DEF Slots
  <2>2. (NumSlots + j) - NumSlots = j
    BY <1>2
  <2> QED BY <1>1, <2>1, <2>2 DEF KindAt
<1>6. ASSUME NEW p \in 1..(NumSlots + n), p \notin Slots
      PROVE  \E j \in 1..n : p = NumSlots + j
  <2>1. p - NumSlots \in 1..n /\ p = NumSlots + (p - NumSlots)
    BY <1>1, <1>2, <1>6 DEF Slots
  <2> QED BY <2>1
<1>7. IsFiniteSet(P) /\ P \subseteq Nat
  <2>1. IsFiniteSet(1..(NumSlots + n))
    BY <1>1, <1>2, FS_Interval
  <2>2. P \in SUBSET (1..(NumSlots + n))
    OBVIOUS
  <2>3. IsFiniteSet(P)
    BY <2>1, <2>2, FS_Subset
  <2> QED BY <2>3
<1>8. \A p \in P : KindAt(st, p) \in Kinds
  <2> SUFFICES ASSUME NEW p \in 1..(NumSlots + n), KindAt(st, p) # NULL
               PROVE  KindAt(st, p) \in Kinds
    OBVIOUS
  <2>1. CASE p \in Slots
    BY <1>1, <1>4, <2>1
  <2>2. CASE p \notin Slots
    BY <1>5, <1>6, <2>2
  <2> QED BY <2>1, <2>2
<1>9. \A s \in Slots : /\ s \in P <=> st.equip[s] # NULL
                       /\ s \in P => KindsOf(st)[s] = st.equip[s]
  BY <1>3, <1>4
<1>10. \A j \in 1..n : NumSlots + j \in P /\ KindsOf(st)[NumSlots + j] = st.inv[j]
  BY <1>2, <1>3, <1>5
<1>11. \A p \in P : p \in Slots \/ \E j \in 1..n : p = NumSlots + j
  BY <1>6
<1>12. KindsOf(st) \in [P -> Kinds]
  BY <1>3, <1>8
<1> HIDE DEF P
<1> QED BY <1>3, <1>7, <1>9, <1>10, <1>11, <1>12

\* ReadPlayerData: the numbers of the stream are those of the new objects.
LEMMA LoadedSound ==
  ASSUME NEW st, SoundStream(st), NEW k, NEW fs \in [DOMAIN KindsOf(st) -> Items],
         IsInjective(fs), \A p \in DOMAIN KindsOf(st) : k[fs[p]] = KindsOf(st)[p]
  PROVE  LET c == Loaded(st, fs) IN
         Sound(c, k) /\ ItemsOf(c) = Range(fs) /\ c.hp <= c.maxHP
<1> DEFINE P == DOMAIN KindsOf(st)
           n == Len(st.inv)
           equip == [s \in Slots |-> IF st.equip[s] = NULL THEN NULL ELSE fs[s]]
           inv == [j \in DOMAIN st.inv |-> fs[NumSlots + j]]
           c == Loaded(st, fs)
<1>1. /\ st \in Holding(Kinds) /\ st.count = n
      /\ st.disk = SumOf([j \in 1..n |-> Size[st.inv[j]]], n)
      /\ st.maxHP = (BaseHP + SumOf([s \in Slots |-> IF st.equip[s] = NULL THEN 0 ELSE Mod[st.equip[s]]],
                                    NumSlots)) % Wrap
      /\ st.hp <= st.maxHP
  BY DEF SoundStream
<1>2. /\ st.inv \in Seq(Kinds) /\ n \in Nat /\ DOMAIN st.inv = 1..n
      /\ st.equip \in [Slots -> Kinds \cup {NULL}]
      /\ st.count \in 0..MaxCarryItems /\ st.disk \in 0..MaxCarryDisk
      /\ st.maxHP \in 0..(Wrap - 1) /\ st.hp \in 0..(Wrap - 1)
  BY <1>1, HoldingFields
<1>3. NULL \notin Kinds /\ NULL \notin Items /\ NumSlots \in Nat
  BY InventoryAssumption
<1>4. /\ \A s \in Slots : /\ s \in P <=> st.equip[s] # NULL
                          /\ s \in P => KindsOf(st)[s] = st.equip[s]
      /\ \A j \in 1..n : NumSlots + j \in P /\ KindsOf(st)[NumSlots + j] = st.inv[j]
      /\ \A p \in P : p \in Slots \/ \E j \in 1..n : p = NumSlots + j
      /\ KindsOf(st) \in [P -> Kinds]
  BY PlacesOfStream
<1>5. DOMAIN fs = P /\ \A p \in P : fs[p] \in Items /\ k[fs[p]] = KindsOf(st)[p] /\ k[fs[p]] \in Kinds
  BY <1>4
<1>6. \A p, q \in P : fs[p] = fs[q] => p = q
  BY DEF IsInjective
<1>7. inv \in Seq(Items) /\ Len(inv) = n /\ DOMAIN inv = 1..n
      /\ \A j \in 1..n : inv[j] = fs[NumSlots + j]
  BY <1>2, <1>4, <1>5
<1>8. /\ equip \in [Slots -> Items \cup {NULL}]
      /\ \A s \in Slots : /\ s \notin P => equip[s] = NULL
                          /\ s \in P => equip[s] = fs[s] /\ equip[s] \in Items
  BY <1>4, <1>5
<1> HIDE DEF inv, equip, P, n
<1>9. c = [inv |-> inv, equip |-> equip, count |-> st.count, disk |-> st.disk,
           maxHP |-> st.maxHP, hp |-> st.hp]
  <2>1. st = [inv |-> st.inv, equip |-> st.equip, count |-> st.count, disk |-> st.disk,
              maxHP |-> st.maxHP, hp |-> st.hp]
    BY <1>1 DEF Holding
  <2>2. c = [st EXCEPT !.equip = equip, !.inv = inv]
    BY DEF Loaded, inv, equip
  <2> HIDE DEF c
  <2> QED BY <2>1, <2>2
<1> HIDE DEF c
<1>10. /\ c.inv = inv /\ c.equip = equip /\ c.count = st.count /\ c.disk = st.disk
       /\ c.maxHP = st.maxHP /\ c.hp = st.hp
  BY <1>9
<1>11. c \in Holding(Items)
  BY <1>2, <1>7, <1>8, <1>9, MakeHolding
<1>12. SizesIn(inv, k) = [j \in 1..n |-> Size[st.inv[j]]]
  <2>1. \A j \in 1..n : k[inv[j]] = st.inv[j]
    BY <1>4, <1>5, <1>7
  <2> QED BY <1>7, <2>1 DEF SizesIn
<1>13. ModsIn(equip, k) = [s \in Slots |-> IF st.equip[s] = NULL THEN 0 ELSE Mod[st.equip[s]]]
  <2>1. \A s \in Slots : equip[s] = NULL <=> st.equip[s] = NULL
    BY <1>3, <1>4, <1>8
  <2>2. \A s \in Slots : st.equip[s] # NULL => k[equip[s]] = st.equip[s]
    BY <1>4, <1>5, <1>8
  <2> QED BY <2>1, <2>2 DEF ModsIn
<1>14. Range(inv) = {fs[NumSlots + j] : j \in 1..n}
  BY <1>7 DEF Range
<1>15. ItemsOf(c) = Range(fs)
  <2>1. Range(fs) = {fs[p] : p \in P}
    BY <1>5 DEF Range
  <2>2. Range(equip) \ {NULL} = {fs[s] : s \in Slots \cap P}
    BY <1>3, <1>8 DEF Range
  <2>3. {fs[NumSlots + j] : j \in 1..n} \cup {fs[s] : s \in Slots \cap P} = {fs[p] : p \in P}
    BY <1>4
  <2> QED BY <1>10, <1>14, <2>1, <2>2, <2>3 DEF ItemsOf
<1>16. IsInjective(inv)
  <2> SUFFICES ASSUME NEW i \in 1..n, NEW j \in 1..n, inv[i] = inv[j] PROVE i = j
    BY <1>7 DEF IsInjective
  <2>1. NumSlots + i = NumSlots + j
    BY <1>4, <1>6, <1>7
  <2> QED BY <1>3, <2>1
<1>17. \A s, t \in Slots : equip[s] = equip[t] /\ equip[s] # NULL => s = t
  BY <1>6, <1>8
<1>18. \A s \in Slots : equip[s] \notin Range(inv)
  <2> SUFFICES ASSUME NEW s \in Slots, NEW j \in 1..n, equip[s] = fs[NumSlots + j] PROVE FALSE
    BY <1>14
  <2>1. fs[NumSlots + j] # NULL /\ NumSlots + j \in P
    BY <1>3, <1>4, <1>5
  <2>2. s = NumSlots + j
    BY <1>6, <1>8, <2>1
  <2> QED BY <1>3, <2>2 DEF Slots
<1>19. \A i \in ItemsOf(c) : k[i] \in Kinds
  BY <1>5, <1>15 DEF Range
<1>20. Sound(c, k)
  BY <1>1, <1>7, <1>10, <1>11, <1>12, <1>13, <1>16, <1>17, <1>18, <1>19 DEF Sound
<1> QED BY <1>1, <1>10, <1>15, <1>20 DEF c

\* The kinds of the items after objects fs were made and D deleted.
LEMMA KindsAfterIs ==
  ASSUME NEW P, NEW fs \in [P -> Items], IsInjective(fs), NEW ks \in [P -> Kinds],
         NEW D, kind \in [Items -> Kinds \cup {NULL}]
  PROVE  LET k == KindsAfter(fs, ks, D) IN
         /\ k \in [Items -> Kinds \cup {NULL}]
         /\ \A i \in Items : i \in D => k[i] = NULL
         /\ \A p \in P : fs[p] \notin D => k[fs[p]] = ks[p]
         /\ \A i \in Items : i \notin D /\ i \notin Range(fs) => k[i] = kind[i]
<1> DEFINE k == KindsAfter(fs, ks, D)
           at_(i) == CHOOSE p \in DOMAIN fs : fs[p] = i
<1>1. \A i \in Range(fs) : at_(i) \in P /\ fs[at_(i)] = i
  BY DEF Range
<1>2. \A p \in P : fs[p] \in Range(fs) /\ at_(fs[p]) = p
  BY <1>1 DEF Range, IsInjective
<1>3. /\ k = [i \in Items |-> k[i]]
      /\ \A i \in Items : k[i] = IF i \in D THEN NULL
                                 ELSE IF i \in Range(fs) THEN ks[at_(i)] ELSE kind[i]
  BY DEF KindsAfter
<1> HIDE DEF k, at_
<1>4. \A i \in Items : k[i] \in Kinds \cup {NULL}
  BY <1>1, <1>3
<1> QED BY <1>2, <1>3, <1>4 DEF k

\* Deleting alone.
LEMMA DeletedIs ==
  ASSUME NEW D, kind \in [Items -> Kinds \cup {NULL}]
  PROVE  /\ Deleted(D) \in [Items -> Kinds \cup {NULL}]
         /\ \A i \in Items : Deleted(D)[i] = IF i \in D THEN NULL ELSE kind[i]
<1>1. Range(<<>>) = {}
  BY DEF Range
<1>2. Deleted(D) = [i \in Items |-> IF i \in D THEN NULL ELSE kind[i]]
  BY <1>1 DEF Deleted, KindsAfter
<1> QED BY <1>2

-----------------------------------------------------------------------------
(* What drops *)

\* A player and a room that have the items U between them.
DropStates(U) ==
  {x \in [body : Holding(Items), room : RoomState] :
     /\ Sound(x.body, kind) /\ GoodRoom(x.room)
     /\ ItemsOf(x.body) \cap RoomItems(x.room) = {}
     /\ ItemsOf(x.body) \cup RoomItems(x.room) = U}

LEMMA MakeDropState ==
  ASSUME NEW b, Sound(b, kind), NEW w, GoodRoom(w), ItemsOf(b) \cap RoomItems(w) = {}
  PROVE  [body |-> b, room |-> w] \in DropStates(ItemsOf(b) \cup RoomItems(w))
BY DEF DropStates, Sound, GoodRoom

LEMMA DropsInstalledIn ==
  ASSUME NEW U, NEW x \in DropStates(U), NEW s \in Slots, NEW F
  PROVE  /\ DropsInstalled(x, s, F) \in DropStates(U)
         /\ DropsInstalled(x, s, F).body.inv = x.body.inv
<1>1. CASE ~ (x.body.equip[s] # NULL /\ kind[x.body.equip[s]] \in F)
  BY <1>1 DEF DropsInstalled
<1>2. CASE x.body.equip[s] # NULL /\ kind[x.body.equip[s]] \in F
  <2> DEFINE i == x.body.equip[s]
             b == Uninstalled(x.body, s)
             w == AddItemToRoom(x.room, i)
  <2>1. /\ Sound(x.body, kind) /\ GoodRoom(x.room)
        /\ ItemsOf(x.body) \cap RoomItems(x.room) = {}
        /\ ItemsOf(x.body) \cup RoomItems(x.room) = U
    BY DEF DropStates
  <2>2. i \in Items /\ i \in ItemsOf(x.body)
    BY <1>2, <2>1, SoundFields
  <2>3. Sound(b, kind) /\ ItemsOf(b) = ItemsOf(x.body) \ {i} /\ b.inv = x.body.inv
    <3> DEFINE y == x.body
    <3>1. Sound(y, kind) /\ y.equip[s] # NULL
      BY <1>2, <2>1
    <3> HIDE DEF y
    <3>2. /\ Sound(Uninstalled(y, s), kind) /\ Uninstalled(y, s).inv = y.inv
          /\ ItemsOf(Uninstalled(y, s)) = ItemsOf(y) \ {y.equip[s]}
      BY <3>1, UninstalledSound
    <3> QED BY <3>2 DEF y
  <2>4. GoodRoom(w) /\ RoomItems(w) = RoomItems(x.room) \cup {i}
    BY <2>1, <2>2, AddItemToRoomGood
  <2>5. DropsInstalled(x, s, F) = [body |-> b, room |-> w]
    BY <1>2 DEF DropsInstalled
  <2> HIDE DEF i, b, w
  <2>6. [body |-> b, room |-> w] \in DropStates(ItemsOf(b) \cup RoomItems(w))
    BY <2>1, <2>3, <2>4, MakeDropState
  <2>7. ItemsOf(b) \cup RoomItems(w) = U
    BY <2>1, <2>2, <2>3, <2>4
  <2> QED BY <2>3, <2>5, <2>6, <2>7
<1> QED BY <1>1, <1>2

LEMMA DropsCarriedIn ==
  ASSUME NEW U, NEW x \in DropStates(U), NEW i \in Range(x.body.inv), NEW F
  PROVE  /\ DropsCarried(x, i, F) \in DropStates(U)
         /\ Range(x.body.inv) \ {i} \subseteq Range(DropsCarried(x, i, F).body.inv)
<1>1. CASE kind[i] \notin F
  BY <1>1 DEF DropsCarried
<1>2. CASE kind[i] \in F
  <2> DEFINE b == Removed(x.body, i)
             w == AddItemToRoom(x.room, i)
  <2>1. /\ Sound(x.body, kind) /\ GoodRoom(x.room)
        /\ ItemsOf(x.body) \cap RoomItems(x.room) = {}
        /\ ItemsOf(x.body) \cup RoomItems(x.room) = U
    BY DEF DropStates
  <2>2. i \in Items /\ i \in ItemsOf(x.body)
    BY <2>1, SoundFields
  <2>3. Sound(b, kind) /\ ItemsOf(b) = ItemsOf(x.body) \ {i} /\ Range(b.inv) = Range(x.body.inv) \ {i}
    BY <2>1, RemovedSound
  <2>4. GoodRoom(w) /\ RoomItems(w) = RoomItems(x.room) \cup {i}
    BY <2>1, <2>2, AddItemToRoomGood
  <2>5. DropsCarried(x, i, F) = [body |-> b, room |-> w]
    BY <1>2 DEF DropsCarried
  <2> HIDE DEF b, w
  <2>6. [body |-> b, room |-> w] \in DropStates(ItemsOf(b) \cup RoomItems(w))
    BY <2>1, <2>3, <2>4, MakeDropState
  <2>7. ItemsOf(b) \cup RoomItems(w) = U
    BY <2>1, <2>2, <2>3, <2>4
  <2> QED BY <2>3, <2>5, <2>6, <2>7
<1> QED BY <1>1, <1>2

\* The first loop of Kill and of DoExit, as Drops defines it.
InstalledLoop(n, F) ==
  CHOOSE x : x = [s \in 0..NumSlots |->
                    IF s = 0 THEN [body |-> body[n], room |-> Room(at[n])]
                             ELSE DropsInstalled(x[s - 1], s, F)]

LEMMA InstalledLoopIn ==
  ASSUME NEW n, NEW F, NEW U, [body |-> body[n], room |-> Room(at[n])] \in DropStates(U)
  PROVE  /\ InstalledLoop(n, F)[NumSlots] \in DropStates(U)
         /\ InstalledLoop(n, F)[NumSlots].body.inv = body[n].inv
<1> DEFINE x0 == [body |-> body[n], room |-> Room(at[n])]
           X == {x \in DropStates(U) : x.body.inv = body[n].inv}
           P == [s \in 1..NumSlots |-> [x \in X |-> DropsInstalled(x, s, F)]]
           l == InstalledLoop(n, F)
<1>1. NumSlots \in Nat /\ x0 \in X
  BY InventoryAssumption
<1>2. P \in [1..NumSlots -> [X -> X]]
  BY DropsInstalledIn DEF Slots
<1>3. PICK g : IsLoop(g, NumSlots, X, x0, P)
  <2> HIDE DEF X, P, x0
  <2> QED BY <1>1, <1>2, LoopExists
<1>4. \A s \in 1..NumSlots : g[s - 1] \in X /\ g[s] = DropsInstalled(g[s - 1], s, F)
  <2> SUFFICES ASSUME NEW s \in 1..NumSlots
               PROVE  g[s - 1] \in X /\ g[s] = DropsInstalled(g[s - 1], s, F)
    OBVIOUS
  <2>1. s - 1 \in 0..NumSlots
    BY <1>1
  <2>2. g[s - 1] \in X
    BY <1>3, <2>1 DEF IsLoop
  <2>3. P[s][g[s - 1]] = DropsInstalled(g[s - 1], s, F)
    BY <2>2
  <2> QED BY <1>3, <2>2, <2>3 DEF IsLoop
<1>5. g = [s \in 0..NumSlots |-> IF s = 0 THEN x0 ELSE DropsInstalled(g[s - 1], s, F)]
  BY <1>3, <1>4 DEF IsLoop
<1>6. l = [s \in 0..NumSlots |-> IF s = 0 THEN x0 ELSE DropsInstalled(l[s - 1], s, F)]
  BY <1>5 DEF InstalledLoop
<1> HIDE DEF X, l, x0
<1>7. l[0] = x0 /\ \A s \in 1..NumSlots : l[s] = DropsInstalled(l[s - 1], s, F)
  BY <1>1, <1>6
<1>8. 0..NumSlots \subseteq {s \in 0..NumSlots : l[s] = g[s]}
  <2> DEFINE S == {s \in 0..NumSlots : l[s] = g[s]}
  <2>1. 0 \in S
    BY <1>1, <1>3, <1>7 DEF IsLoop
  <2>2. \A s \in 1..NumSlots : s - 1 \in S => s \in S
    BY <1>4, <1>7
  <2> HIDE DEF S
  <2>3. 0..NumSlots \subseteq S
    BY <1>1, <2>1, <2>2, LoopInduction
  <2> QED BY <2>3 DEF S
<1>9. NumSlots \in 0..NumSlots
  BY <1>1
<1>10. l[NumSlots] \in X
  BY <1>3, <1>8, <1>9 DEF IsLoop
<1> QED BY <1>10 DEF X, l

\* The second loop: what the first pass has left of the inventory it goes
\* through is there when its turn comes.
CarriedLoop(x0, inv, F) ==
  CHOOSE y : y = [j \in 0..Len(inv) |->
                    IF j = 0 THEN x0 ELSE DropsCarried(y[j - 1], inv[j], F)]

LEMMA CarriedLoopIn ==
  ASSUME NEW F, NEW U, NEW x0 \in DropStates(U)
  PROVE  CarriedLoop(x0, x0.body.inv, F)[Len(x0.body.inv)] \in DropStates(U)
<1> DEFINE X == DropStates(U)
           inv == x0.body.inv
           m == Len(inv)
           pass(x, i) == IF i \in Range(x.body.inv) THEN DropsCarried(x, i, F) ELSE x
           P == [j \in 1..m |-> [x \in X |-> pass(x, inv[j])]]
           l == CarriedLoop(x0, inv, F)
<1>1. m \in Nat /\ Range(inv) = {inv[j] : j \in 1..m} /\ IsInjective(inv) /\ DOMAIN inv = 1..m
  <2>1. Sound(x0.body, kind)
    BY DEF DropStates
  <2>2. inv \in Seq(Items) /\ IsInjective(inv)
    BY <2>1, SoundFields
  <2> QED BY <2>2, RangeIs
<1>2. P \in [1..m -> [X -> X]]
  <2>1. \A j \in 1..m, x \in X : pass(x, inv[j]) \in X
    BY DropsCarriedIn
  <2> HIDE DEF pass, X, m, inv
  <2> QED BY <2>1
<1>3. PICK g : IsLoop(g, m, X, x0, P)
  <2>1. x0 \in X
    OBVIOUS
  <2> HIDE DEF X, P, m
  <2> QED BY <1>1, <1>2, <2>1, LoopExists
<1> HIDE DEF X, m, inv
<1>4. g[0] = x0 /\ \A j \in 1..m : g[j - 1] \in X /\ g[j] = pass(g[j - 1], inv[j])
  <2>0. g[0] = x0
    BY <1>3 DEF IsLoop
  <2> SUFFICES ASSUME NEW j \in 1..m
               PROVE  g[j - 1] \in X /\ g[j] = pass(g[j - 1], inv[j])
    BY <2>0
  <2>1. j - 1 \in 0..m
    BY <1>1
  <2>2. g[j - 1] \in X
    BY <1>3, <2>1 DEF IsLoop
  <2> HIDE DEF pass
  <2>3. P[j][g[j - 1]] = pass(g[j - 1], inv[j])
    BY <2>2
  <2> QED BY <1>3, <2>2, <2>3 DEF IsLoop
<1> DEFINE S == {j \in 0..m : \A k \in 1..m : k > j => inv[k] \in Range(g[j].body.inv)}
<1>5. 0 \in S
  BY <1>1, <1>4 DEF inv
<1>6. ASSUME NEW j \in 1..m, j - 1 \in S PROVE j \in S
  <2> SUFFICES ASSUME NEW k \in 1..m, k > j PROVE inv[k] \in Range(g[j].body.inv)
    BY <1>1
  <2>1. /\ inv[j] \in Range(g[j - 1].body.inv)
        /\ inv[k] \in Range(g[j - 1].body.inv)
    BY <1>1, <1>6
  <2>2. g[j] = DropsCarried(g[j - 1], inv[j], F)
    BY <1>4, <2>1
  <2>3. inv[k] # inv[j]
    BY <1>1 DEF IsInjective
  <2>4. Range(g[j - 1].body.inv) \ {inv[j]} \subseteq Range(g[j].body.inv)
    <3> DEFINE x == g[j - 1]
               i == inv[j]
    <3>1. x \in DropStates(U) /\ i \in Range(x.body.inv) /\ g[j] = DropsCarried(x, i, F)
      BY <1>4, <2>1, <2>2 DEF X
    <3> HIDE DEF x, i
    <3>2. Range(x.body.inv) \ {i} \subseteq Range(DropsCarried(x, i, F).body.inv)
      BY ONLY <3>1, DropsCarriedIn
    <3> QED BY <3>1, <3>2 DEF x, i
  <2> QED BY <2>1, <2>3, <2>4
<1>7. \A j \in 1..m : g[j] = DropsCarried(g[j - 1], inv[j], F)
  <2>1. 0..m \subseteq S
    <3> HIDE DEF S
    <3> QED BY <1>1, <1>5, <1>6, LoopInduction
  <2> SUFFICES ASSUME NEW j \in 1..m PROVE g[j] = DropsCarried(g[j - 1], inv[j], F)
    OBVIOUS
  <2>2. j - 1 \in S
    BY <1>1, <2>1
  <2>3. inv[j] \in Range(g[j - 1].body.inv)
    BY <1>1, <2>2
  <2> QED BY <1>4, <2>3
<1> HIDE DEF S, P
<1>8. g = [j \in 0..m |-> IF j = 0 THEN x0 ELSE DropsCarried(g[j - 1], inv[j], F)]
  BY <1>3, <1>4, <1>7 DEF IsLoop
<1>9. l = [j \in 0..m |-> IF j = 0 THEN x0 ELSE DropsCarried(l[j - 1], inv[j], F)]
  BY <1>8 DEF CarriedLoop, m
<1> HIDE DEF l
<1>10. l[0] = x0 /\ \A j \in 1..m : l[j] = DropsCarried(l[j - 1], inv[j], F)
  BY <1>1, <1>9
<1>11. 0..m \subseteq {j \in 0..m : l[j] = g[j]}
  <2> DEFINE T == {j \in 0..m : l[j] = g[j]}
  <2>1. 0 \in T
    BY <1>1, <1>4, <1>10
  <2>2. \A j \in 1..m : j - 1 \in T => j \in T
    BY <1>7, <1>10
  <2> HIDE DEF T
  <2>3. 0..m \subseteq T
    BY <1>1, <2>1, <2>2, LoopInduction
  <2> QED BY <2>3 DEF T
<1>12. m \in 0..m
  BY <1>1
<1>13. l[m] \in X
  BY <1>3, <1>11, <1>12 DEF IsLoop
<1> QED BY <1>13 DEF X, l, m, inv

\* What drops is on the floor or deleted, the rest stays with the player.
LEMMA DropsIn ==
  ASSUME NEW n, NEW F, NEW G, Sound(body[n], kind), GoodRoom(Room(at[n])),
         ItemsOf(body[n]) \cap RoomItems(Room(at[n])) = {}
  PROVE  Drops(n, F, G) \in DropStates(ItemsOf(body[n]) \cup RoomItems(Room(at[n])))
<1> DEFINE U == ItemsOf(body[n]) \cup RoomItems(Room(at[n]))
           x == InstalledLoop(n, F)[NumSlots]
           inv == body[n].inv
<1>1. [body |-> body[n], room |-> Room(at[n])] \in DropStates(U)
  BY MakeDropState
<1> HIDE DEF U
<1>2. x \in DropStates(U) /\ x.body.inv = inv
  BY <1>1, InstalledLoopIn
<1>3. Drops(n, F, G) = CarriedLoop(x, inv, G)[Len(inv)]
  BY DEF Drops, CarriedLoop, InstalledLoop
<1> HIDE DEF x, inv
<1>4. CarriedLoop(x, x.body.inv, G)[Len(x.body.inv)] \in DropStates(U)
  BY <1>2, CarriedLoopIn
<1> QED BY <1>2, <1>3, <1>4 DEF U

LEMMA AfterExitIn ==
  ASSUME NEW n, Sound(body[n], kind), GoodRoom(Room(at[n])),
         ItemsOf(body[n]) \cap RoomItems(Room(at[n])) = {}
  PROVE  /\ AfterExit(n) \in DropStates(ItemsOf(body[n]) \cup RoomItems(Room(at[n])))
         /\ AfterExit(n).body.hp <= AfterExit(n).body.maxHP
<1> DEFINE U == ItemsOf(body[n]) \cup RoomItems(Room(at[n]))
           x == Drops(n, DropOnExit, DropOnPK)
           b == Clamped(x.body)
<1>1. x \in DropStates(U)
  BY DropsIn
<1>2. AfterExit(n) = [x EXCEPT !.body = b]
  BY DEF AfterExit
<1> HIDE DEF U, x
<1>3. /\ Sound(x.body, kind) /\ GoodRoom(x.room)
      /\ ItemsOf(x.body) \cap RoomItems(x.room) = {}
      /\ ItemsOf(x.body) \cup RoomItems(x.room) = U
      /\ x = [body |-> x.body, room |-> x.room]
  BY <1>1 DEF DropStates
<1>4. Sound(b, kind) /\ ItemsOf(b) = ItemsOf(x.body) /\ b.hp <= b.maxHP
  BY <1>3, ClampedSound
<1> HIDE DEF b
<1>5. AfterExit(n) = [body |-> b, room |-> x.room]
  BY <1>2, <1>3
<1>6. [body |-> b, room |-> x.room] \in DropStates(U)
  BY <1>3, <1>4, MakeDropState
<1> QED BY <1>4, <1>5, <1>6 DEF U

\* All that a dying program has is on the floor or deleted.
LEMMA AllDroppedIn ==
  ASSUME NEW r, GoodRoom(Room(r)), NEW m \in Nat, NEW ds \in [1..m -> Items], IsInjective(ds),
         Range(ds) \cap RoomItems(Room(r)) = {}
  PROVE  /\ GoodRoom(AllDropped(r, ds))
         /\ RoomItems(AllDropped(r, ds)) = RoomItems(Room(r)) \cup Range(ds)
<1> DEFINE X == {w \in RoomState : GoodRoom(w)}
           w0 == Room(r)
           pass(w, i) == IF i \in RoomItems(w) THEN w ELSE AddItemToRoom(w, i)
           P == [j \in 1..m |-> [w \in X |-> pass(w, ds[j])]]
           l == CHOOSE w : w = [j \in 0..Len(ds) |->
                                  IF j = 0 THEN Room(r) ELSE AddItemToRoom(w[j - 1], ds[j])]
<1>1. /\ Len(ds) = m /\ DOMAIN ds = 1..m /\ \A j \in 1..m : ds[j] \in Items
      /\ Range(ds) = {ds[j] : j \in 1..m}
  BY DEF Range
<1>2. P \in [1..m -> [X -> X]] /\ w0 \in X
  <2>1. \A j \in 1..m, w \in X : pass(w, ds[j]) \in X
    BY <1>1, AddItemToRoomGood DEF GoodRoom
  <2>2. w0 \in X
    BY DEF GoodRoom
  <2> HIDE DEF pass, X
  <2> QED BY <2>1, <2>2
<1>3. PICK g : IsLoop(g, m, X, w0, P)
  <2> HIDE DEF X, P, w0
  <2> QED BY <1>2, LoopExists
<1>4. g[0] = w0 /\ \A j \in 1..m : g[j - 1] \in X /\ g[j] = pass(g[j - 1], ds[j])
  <2>0. g[0] = w0
    BY <1>3 DEF IsLoop
  <2> SUFFICES ASSUME NEW j \in 1..m
               PROVE  g[j - 1] \in X /\ g[j] = pass(g[j - 1], ds[j])
    BY <2>0
  <2>1. j - 1 \in 0..m
    OBVIOUS
  <2>2. g[j - 1] \in X
    BY <1>3, <2>1 DEF IsLoop
  <2> HIDE DEF pass, X
  <2>3. P[j][g[j - 1]] = pass(g[j - 1], ds[j])
    BY <2>2
  <2> QED BY <1>3, <2>2, <2>3 DEF IsLoop
<1> HIDE DEF w0
<1> DEFINE S == {j \in 0..m : RoomItems(g[j]) = RoomItems(w0) \cup {ds[k] : k \in 1..j}}
<1>5. 0 \in S
  BY <1>4
<1>6. ASSUME NEW j \in 1..m, j - 1 \in S
      PROVE  j \in S /\ g[j] = AddItemToRoom(g[j - 1], ds[j])
  <2>1. RoomItems(g[j - 1]) = RoomItems(w0) \cup {ds[k] : k \in 1..(j - 1)}
    BY <1>6
  <2>2. ds[j] \notin RoomItems(w0)
    BY <1>1 DEF w0
  <2>3. \A k \in 1..(j - 1) : ds[k] # ds[j]
    BY <1>1 DEF IsInjective
  <2>4. ds[j] \notin RoomItems(g[j - 1])
    BY <2>1, <2>2, <2>3
  <2>5. g[j] = AddItemToRoom(g[j - 1], ds[j])
    BY <1>4, <2>4
  <2>6. RoomItems(g[j]) = RoomItems(g[j - 1]) \cup {ds[j]}
    BY <1>1, <1>4, <2>4, <2>5, AddItemToRoomGood
  <2>7. {ds[k] : k \in 1..j} = {ds[k] : k \in 1..(j - 1)} \cup {ds[j]}
    <3>1. 1..j = 1..(j - 1) \cup {j}
      OBVIOUS
    <3> QED BY <3>1
  <2> QED BY <2>1, <2>5, <2>6, <2>7
<1>7. 0..m \subseteq S
  <2> HIDE DEF S
  <2> QED BY <1>5, <1>6, LoopInduction
<1>8. \A j \in 1..m : g[j] = AddItemToRoom(g[j - 1], ds[j])
  <2> SUFFICES ASSUME NEW j \in 1..m PROVE g[j] = AddItemToRoom(g[j - 1], ds[j])
    OBVIOUS
  <2>1. j - 1 \in S
    <3>1. j - 1 \in 0..m
      OBVIOUS
    <3> HIDE DEF S
    <3> QED BY <1>7, <3>1
  <2> HIDE DEF S
  <2> QED BY <1>6, <2>1
<1>9. g = [j \in 0..m |-> IF j = 0 THEN w0 ELSE AddItemToRoom(g[j - 1], ds[j])]
  <2> HIDE DEF S
  <2> QED BY <1>3, <1>4, <1>8 DEF IsLoop
<1> HIDE DEF P
<1>10. l = [j \in 0..m |-> IF j = 0 THEN w0 ELSE AddItemToRoom(l[j - 1], ds[j])]
  BY <1>1, <1>9 DEF w0
<1>11. AllDropped(r, ds) = l[m]
  BY <1>1 DEF AllDropped
<1> HIDE DEF l
<1>12. l[0] = w0 /\ \A j \in 1..m : l[j] = AddItemToRoom(l[j - 1], ds[j])
  BY <1>10
<1>13. 0..m \subseteq {j \in 0..m : l[j] = g[j]}
  <2> DEFINE T == {j \in 0..m : l[j] = g[j]}
  <2>1. 0 \in T
    BY <1>4, <1>12
  <2> HIDE DEF S
  <2>2. \A j \in 1..m : j - 1 \in T => j \in T
    BY <1>8, <1>12
  <2> HIDE DEF T
  <2>3. 0..m \subseteq T
    BY <2>1, <2>2, LoopInduction
  <2> QED BY <2>3 DEF T
<1>14. m \in S /\ l[m] = g[m] /\ g[m] \in X
  BY <1>3, <1>7, <1>13 DEF IsLoop
<1> QED BY <1>1, <1>11, <1>14 DEF w0

-----------------------------------------------------------------------------
(* The world in one step *)

\* The items that a step with room r and the players M may use.
Here(r, M) ==
  {i \in Items : kind[i] = NULL \/ i \in Range(floor[r]) \/ \E m \in M : i \in ItemsOf(body[m])}

\* The step gives room r the floor w and changes the bodies of M, at most one
\* player, and moves the items of Here only.
Moves(r, M, w) ==
  /\ kind' \in [Items -> Kinds \cup {NULL}]
  /\ w \in Seq(Items) /\ Len(w) <= MaxItemsInRoom /\ IsInjective(w)
  /\ floor' = [floor EXCEPT ![r] = w]
  /\ body' \in [Names -> Holding(Items)]
  /\ \A m, l \in M : m = l
  /\ \A n \in Names \ M : body'[n] = body[n]
  /\ \A m \in M : /\ Sound(body'[m], kind') /\ body'[m].hp <= body'[m].maxHP
                  /\ ItemsOf(body'[m]) \cap Range(w) = {}
                  /\ ItemsOf(body'[m]) \subseteq Here(r, M)
  /\ Range(w) \subseteq Here(r, M)
  /\ \A i \in Items \ Here(r, M) : kind'[i] = kind[i]
  /\ \A i \in Here(r, M) :
       kind'[i] # NULL <=> i \in Range(w) \/ \E m \in M : i \in ItemsOf(body'[m])

LEMMA MovesPlaced ==
  ASSUME Inv, NEW r \in Rooms, NEW M \in SUBSET Names, NEW w, Moves(r, M, w)
  PROVE  Bodies' /\ Placed'
<1>1. /\ floor \in [Rooms -> Seq(Items)]
      /\ floor' = [floor EXCEPT ![r] = w] /\ floor'[r] = w
      /\ \A q \in Rooms : q # r => floor'[q] = floor[q]
  BY DEF Moves, Inv, TypeOK
<1>2. /\ w \in Seq(Items) /\ IsInjective(w)
      /\ \A m, l \in M : m = l
      /\ \A n \in Names \ M : body'[n] = body[n]
      /\ \A m \in M : /\ Sound(body'[m], kind') /\ body'[m].hp <= body'[m].maxHP
                      /\ ItemsOf(body'[m]) \cap Range(w) = {}
                      /\ ItemsOf(body'[m]) \subseteq Here(r, M)
      /\ Range(w) \subseteq Here(r, M)
      /\ \A i \in Items \ Here(r, M) : kind'[i] = kind[i]
      /\ \A i \in Here(r, M) :
           kind'[i] # NULL <=> i \in Range(w) \/ \E m \in M : i \in ItemsOf(body'[m])
  BY DEF Moves
<1>3. /\ \A q \in Rooms : IsInjective(floor[q])
      /\ \A p, q \in Rooms, i \in Items :
           i \in Range(floor[p]) /\ i \in Range(floor[q]) => p = q
      /\ \A n, m \in Names, i \in Items :
           i \in ItemsOf(body[n]) /\ i \in ItemsOf(body[m]) => n = m
      /\ \A n \in Names, q \in Rooms, i \in Items :
           ~ (i \in ItemsOf(body[n]) /\ i \in Range(floor[q]))
      /\ \A i \in Items :
           kind[i] # NULL <=> \/ \E q \in Rooms : i \in Range(floor[q])
                              \/ \E n \in Names : i \in ItemsOf(body[n])
  BY DEF Inv, Placed
<1>4. \A n \in Names : /\ Sound(body[n], kind) /\ body[n].hp <= body[n].maxHP
                       /\ ItemsOf(body[n]) \subseteq Items
  BY SoundFields DEF Inv, Bodies
<1>5. \A i \in Items : i \in Here(r, M) <=> \/ kind[i] = NULL \/ i \in Range(floor[r])
                                            \/ \E m \in M : i \in ItemsOf(body[m])
  BY DEF Here
<1>6. \A n \in Names \ M : \A i \in ItemsOf(body[n]) : i \notin Here(r, M)
  BY <1>3, <1>4, <1>5
<1>7. \A q \in Rooms \ {r}, i \in Items : i \in Range(floor[q]) => i \notin Here(r, M)
  BY <1>3, <1>5
<1>8. Bodies'
  <2> SUFFICES ASSUME NEW n \in Names
               PROVE  Sound(body'[n], kind') /\ body'[n].hp <= body'[n].maxHP
    BY DEF Bodies
  <2>1. CASE n \in M
    BY <1>2, <2>1
  <2>2. CASE n \notin M
    <3>1. \A i \in ItemsOf(body[n]) : kind'[i] = kind[i]
      BY <1>2, <1>4, <1>6, <2>2
    <3>2. Sound(body[n], kind')
      BY <1>4, <3>1, SoundWhenKindsChange
    <3> QED BY <1>2, <1>4, <2>2, <3>2
  <2> QED BY <2>1, <2>2
<1>9. \A n \in Names \ M : ItemsOf(body'[n]) = ItemsOf(body[n])
  BY <1>2
<1>10. \A q \in Rooms : IsInjective(floor'[q])
  BY <1>1, <1>2, <1>3
<1>11. \A p, q \in Rooms, i \in Items :
         i \in Range(floor'[p]) /\ i \in Range(floor'[q]) => p = q
  <2> SUFFICES ASSUME NEW p \in Rooms, NEW q \in Rooms, NEW i \in Items,
                      i \in Range(floor'[p]), i \in Range(floor'[q]), p # q
               PROVE  FALSE
    OBVIOUS
  <2>1. CASE p = r
    BY <1>1, <1>2, <1>7, <2>1
  <2>2. CASE q = r
    BY <1>1, <1>2, <1>7, <2>2
  <2>3. CASE p # r /\ q # r
    BY <1>1, <1>3, <2>3
  <2> QED BY <2>1, <2>2, <2>3
<1>12. \A n, m \in Names, i \in Items :
         i \in ItemsOf(body'[n]) /\ i \in ItemsOf(body'[m]) => n = m
  <2> SUFFICES ASSUME NEW n \in Names, NEW m \in Names, NEW i \in Items,
                      i \in ItemsOf(body'[n]), i \in ItemsOf(body'[m]), n # m
               PROVE  FALSE
    OBVIOUS
  <2>1. CASE n \in M /\ m \notin M
    BY <1>2, <1>6, <1>9, <2>1
  <2>2. CASE n \notin M /\ m \in M
    BY <1>2, <1>6, <1>9, <2>2
  <2>3. CASE n \notin M /\ m \notin M
    BY <1>3, <1>9, <2>3
  <2>4. CASE n \in M /\ m \in M
    BY <1>2, <2>4
  <2> QED BY <2>1, <2>2, <2>3, <2>4
<1>13. \A n \in Names, q \in Rooms, i \in Items :
         ~ (i \in ItemsOf(body'[n]) /\ i \in Range(floor'[q]))
  <2> SUFFICES ASSUME NEW n \in Names, NEW q \in Rooms, NEW i \in Items,
                      i \in ItemsOf(body'[n]), i \in Range(floor'[q])
               PROVE  FALSE
    OBVIOUS
  <2>1. CASE n \in M /\ q = r
    BY <1>1, <1>2, <2>1
  <2>2. CASE n \in M /\ q # r
    BY <1>1, <1>2, <1>7, <2>2
  <2>3. CASE n \notin M /\ q = r
    BY <1>1, <1>2, <1>6, <1>9, <2>3
  <2>4. CASE n \notin M /\ q # r
    BY <1>1, <1>3, <1>9, <2>4
  <2> QED BY <2>1, <2>2, <2>3, <2>4
<1>14. ASSUME NEW i \in Items
       PROVE  kind'[i] # NULL <=> \/ \E q \in Rooms : i \in Range(floor'[q])
                                  \/ \E n \in Names : i \in ItemsOf(body'[n])
  <2>1. CASE i \in Here(r, M)
    <3>1. kind'[i] # NULL <=> i \in Range(w) \/ \E m \in M : i \in ItemsOf(body'[m])
      BY <1>2, <2>1
    <3>2. \A q \in Rooms \ {r} : i \notin Range(floor'[q])
      BY <1>1, <1>7, <2>1
    <3>3. \A n \in Names \ M : i \notin ItemsOf(body'[n])
      BY <1>6, <1>9, <2>1
    <3> QED BY <1>1, <3>1, <3>2, <3>3
  <2>2. CASE i \notin Here(r, M)
    <3>1. kind'[i] # NULL /\ i \notin Range(floor[r]) /\ \A m \in M : i \notin ItemsOf(body[m])
      BY <1>2, <1>5, <2>2
    <3>2. CASE \E q \in Rooms : i \in Range(floor[q])
      BY <1>1, <3>1, <3>2
    <3>3. CASE \E n \in Names : i \in ItemsOf(body[n])
      BY <1>9, <3>1, <3>3
    <3>4. kind[i] # NULL
      BY <1>5, <2>2
    <3> QED BY <1>3, <3>1, <3>2, <3>3, <3>4
  <2> QED BY <2>1, <2>2
<1>15. Placed'
  BY <1>10, <1>11, <1>12, <1>13, <1>14 DEF Placed
<1> QED BY <1>8, <1>15

\* What is left to show of a step: where players are and what was saved.
LEMMA MovesInv ==
  ASSUME Inv, NEW r \in Rooms, NEW M \in SUBSET Names, NEW w, Moves(r, M, w),
         at' \in [Names -> Rooms \cup {NULL}],
         saved' \in [Names -> Holding(Kinds) \cup {NULL}], Streams', InGame'
  PROVE  Inv'
<1>1. Bodies' /\ Placed'
  BY MovesPlaced
<1>2. TypeOK'
  <2>1. /\ kind' \in [Items -> Kinds \cup {NULL}]
        /\ floor' \in [Rooms -> Seq(Items)]
        /\ \A q \in Rooms : Len(floor'[q]) <= MaxItemsInRoom
        /\ body' \in [Names -> Holding(Items)]
    BY DEF Moves, Inv, TypeOK
  <2> QED BY <2>1 DEF TypeOK
<1> QED BY <1>1, <1>2 DEF Inv

LEMMA InvFacts ==
  ASSUME Inv
  PROVE  /\ kind \in [Items -> Kinds \cup {NULL}]
         /\ floor \in [Rooms -> Seq(Items)]
         /\ at \in [Names -> Rooms \cup {NULL}]
         /\ body \in [Names -> Holding(Items)]
         /\ saved \in [Names -> Holding(Kinds) \cup {NULL}]
         /\ \A n \in Names : Sound(body[n], kind) /\ body[n].hp <= body[n].maxHP
         /\ \A n \in Names : saved[n] # NULL => SoundStream(saved[n])
         /\ \A n \in Names : at[n] = NULL => ItemsOf(body[n]) = {}
         /\ \A n \in Names : at[n] # NULL => SoundStream(saved[n])
         /\ NULL \notin Items /\ NULL \notin Rooms /\ NULL \notin Kinds
BY InventoryAssumption DEF Inv, TypeOK, Bodies, Streams, InGame

LEMMA RoomIn ==
  ASSUME Inv, NEW r \in Rooms
  PROVE  /\ GoodRoom(Room(r)) /\ RoomItems(Room(r)) = Range(floor[r])
         /\ Room(r).items = floor[r] /\ Room(r).gone = {}
         /\ Range(floor[r]) \subseteq Items
         /\ \A i \in Range(floor[r]) : kind[i] \in Kinds
         /\ \A n \in Names : ItemsOf(body[n]) \cap Range(floor[r]) = {}
<1>1. /\ floor[r] \in Seq(Items) /\ Len(floor[r]) <= MaxItemsInRoom /\ IsInjective(floor[r])
      /\ kind \in [Items -> Kinds \cup {NULL}]
  BY DEF Inv, TypeOK, Placed
<1>2. Range(floor[r]) \subseteq Items
  BY <1>1, RangeIs
<1>3. Room(r).items = floor[r] /\ Room(r).gone = {} /\ Room(r) \in RoomState
  BY <1>1 DEF Room, RoomState
<1>4. GoodRoom(Room(r)) /\ RoomItems(Room(r)) = Range(floor[r])
  BY <1>1, <1>3 DEF GoodRoom, RoomItems
<1>5. \A i \in Range(floor[r]) : kind[i] \in Kinds
  BY <1>1, <1>2 DEF Inv, Placed
<1>6. \A n \in Names : ItemsOf(body[n]) \cap Range(floor[r]) = {}
  BY <1>2 DEF Inv, Placed
<1> QED BY <1>2, <1>3, <1>4, <1>5, <1>6

LEMMA BodyIn ==
  ASSUME Inv, NEW n \in Names
  PROVE  /\ Sound(body[n], kind) /\ body[n].hp <= body[n].maxHP
         /\ ItemsOf(body[n]) \subseteq Items
         /\ Range(body[n].inv) \subseteq ItemsOf(body[n])
         /\ \A i \in ItemsOf(body[n]) : kind[i] \in Kinds
<1>1. Sound(body[n], kind) /\ body[n].hp <= body[n].maxHP
  BY InvFacts
<1>2. /\ ItemsOf(body[n]) \subseteq Items
      /\ Range(body[n].inv) \subseteq ItemsOf(body[n])
  BY <1>1, SoundFields
<1>3. \A i \in ItemsOf(body[n]) : kind[i] \in Kinds
  BY <1>1 DEF Sound
<1> QED BY <1>1, <1>2, <1>3

\* A step that moves the items of player n and of room r between them and
\* deletes the others.
LEMMA DropsMove ==
  ASSUME Inv, NEW n \in Names, NEW r \in Rooms,
         NEW x \in DropStates(ItemsOf(body[n]) \cup Range(floor[r])),
         x.body.hp <= x.body.maxHP,
         body' = [body EXCEPT ![n] = x.body],
         floor' = [floor EXCEPT ![r] = x.room.items],
         kind' = Deleted(x.room.gone)
  PROVE  Moves(r, {n}, x.room.items)
<1> DEFINE w == x.room.items
           D == x.room.gone
           b == x.body
<1>1. /\ Sound(b, kind) /\ GoodRoom(x.room)
      /\ ItemsOf(b) \cap RoomItems(x.room) = {}
      /\ ItemsOf(b) \cup RoomItems(x.room) = ItemsOf(body[n]) \cup Range(floor[r])
  BY DEF DropStates
<1>2. /\ w \in Seq(Items) /\ Len(w) <= MaxItemsInRoom /\ IsInjective(w) /\ D \subseteq Items
      /\ Range(w) \cap D = {} /\ RoomItems(x.room) = Range(w) \cup D
      /\ Range(w) \subseteq Items
  BY <1>1, RangeIs DEF GoodRoom, RoomState, RoomItems
<1>3. /\ kind' \in [Items -> Kinds \cup {NULL}]
      /\ \A i \in Items : kind'[i] = IF i \in D THEN NULL ELSE kind[i]
  <2>1. kind \in [Items -> Kinds \cup {NULL}]
    BY InvFacts
  <2>2. kind' = Deleted(D)
    OBVIOUS
  <2> HIDE DEF D
  <2> QED BY <2>1, <2>2, DeletedIs
<1>4. /\ body' \in [Names -> Holding(Items)] /\ body'[n] = b
      /\ \A m \in Names : m # n => body'[m] = body[m]
  BY <1>1, InvFacts DEF Sound
<1>5. ItemsOf(b) \subseteq Items
  BY <1>1, SoundFields
<1>6. /\ \A i \in Range(floor[r]) : kind[i] \in Kinds
      /\ \A i \in ItemsOf(body[n]) : kind[i] \in Kinds
      /\ NULL \notin Kinds
  BY RoomIn, BodyIn, InvFacts
<1> HIDE DEF w, D, b
<1>7. \A i \in Items : i \in Here(r, {n}) <=>
        kind[i] = NULL \/ i \in Range(floor[r]) \/ i \in ItemsOf(body[n])
  BY DEF Here
<1>8. Sound(b, kind')
  <2>1. \A i \in ItemsOf(b) : kind'[i] = kind[i]
    BY <1>1, <1>2, <1>3, <1>5
  <2> QED BY <1>1, <2>1, SoundWhenKindsChange
<1>9. /\ ItemsOf(b) \subseteq Here(r, {n}) /\ Range(w) \subseteq Here(r, {n})
      /\ D \subseteq Here(r, {n})
  BY <1>1, <1>2, <1>5, <1>7
<1>10. \A i \in Here(r, {n}) : kind'[i] # NULL <=> i \in Range(w) \/ i \in ItemsOf(b)
  <2> SUFFICES ASSUME NEW i \in Items, i \in Here(r, {n})
               PROVE  kind'[i] # NULL <=> i \in Range(w) \/ i \in ItemsOf(b)
    BY DEF Here
  <2>1. CASE kind[i] = NULL
    BY <1>1, <1>2, <1>3, <1>6, <2>1
  <2>2. CASE kind[i] # NULL
    <3>1. i \in ItemsOf(b) \/ i \in Range(w) \/ i \in D
      BY <1>1, <1>2, <1>7, <2>2
    <3> QED BY <1>1, <1>2, <1>3, <2>2, <3>1
  <2> QED BY <2>1, <2>2
<1>11. \A i \in Items \ Here(r, {n}) : kind'[i] = kind[i]
  BY <1>3, <1>9
<1>12. ItemsOf(b) \cap Range(w) = {}
  BY <1>1, <1>2
<1>13. b.hp <= b.maxHP /\ floor' = [floor EXCEPT ![r] = w]
  BY DEF b, w
<1>14. Moves(r, {n}, w)
  <2>1. \A m \in {n} : m = n
    OBVIOUS
  <2>2. \A m \in Names \ {n} : body'[m] = body[m]
    BY <1>4
  <2> QED BY <1>2, <1>3, <1>4, <1>8, <1>9, <1>10, <1>11, <1>12, <1>13, <2>1, <2>2 DEF Moves
<1> QED BY <1>14 DEF w

\* The same by a player in the game, who is then saved and goes to room q.
LEMMA SavesInv ==
  ASSUME Inv, NEW n \in Names, at[n] # NULL, NEW r \in Rooms, NEW q \in Rooms,
         NEW x \in DropStates(ItemsOf(body[n]) \cup Range(floor[r])),
         x.body.hp <= x.body.maxHP,
         body' = [body EXCEPT ![n] = x.body],
         floor' = [floor EXCEPT ![r] = x.room.items],
         kind' = Deleted(x.room.gone),
         saved' = [saved EXCEPT ![n] = Stream(x.body)],
         at' = [at EXCEPT ![n] = q]
  PROVE  Inv'
<1>1. Moves(r, {n}, x.room.items)
  BY DropsMove
<1>2. at' \in [Names -> Rooms \cup {NULL}]
  BY InvFacts
<1>3. Sound(x.body, kind)
  BY DEF DropStates
<1>4. SoundStream(Stream(x.body))
  BY <1>3, StreamSound
<1>5. /\ saved' \in [Names -> Holding(Kinds) \cup {NULL}] /\ saved'[n] = Stream(x.body)
      /\ \A m \in Names : m # n => saved'[m] = saved[m]
  BY <1>4, InvFacts DEF SoundStream
<1>6. Streams'
  BY <1>4, <1>5, InvFacts DEF Streams
<1>7. InGame'
  <2>1. \A m \in Names : m # n => /\ at'[m] = at[m] /\ body'[m] = body[m]
                                  /\ saved'[m] = saved[m]
    BY <1>5, InvFacts
  <2>2. at'[n] = q /\ q # NULL
    BY InvFacts
  <2> QED BY <1>4, <1>5, <2>1, <2>2, InvFacts DEF InGame
<1> QED BY <1>1, <1>2, <1>5, <1>6, <1>7, MovesInv

LEMMA NoneDeleted == ASSUME Inv PROVE Deleted({}) = kind
<1>1. kind \in [Items -> Kinds \cup {NULL}]
  BY InvFacts
<1>2. /\ Deleted({}) \in [Items -> Kinds \cup {NULL}]
      /\ \A i \in Items : Deleted({})[i] = kind[i]
  BY <1>1, DeletedIs
<1> QED BY <1>1, <1>2

-----------------------------------------------------------------------------
(* Commands *)

LEMMA InRoom ==
  ASSUME Inv, NEW n \in Names, at[n] # NULL
  PROVE  at[n] \in Rooms /\ at = [at EXCEPT ![n] = at[n]]
BY InvFacts

LEMMA GetItemInv ==
  ASSUME Inv, NEW n \in Names, NEW i \in Items, NWCGetItem(n, i) PROVE Inv'
<1> DEFINE r == at[n]
           b == Added(body[n], i)
           w == [items |-> Unlinked(floor[r], i), gone |-> {}]
           x == [body |-> b, room |-> w]
<1>1. /\ at[n] # NULL /\ i \in Range(floor[r]) /\ CanCarry(body[n], i)
      /\ body' = [body EXCEPT ![n] = b] /\ saved' = [saved EXCEPT ![n] = Stream(b)]
      /\ floor' = [floor EXCEPT ![r] = Unlinked(floor[r], i)]
      /\ kind' = kind /\ at' = at
  BY DEF NWCGetItem, Saves
<1>2. r \in Rooms /\ at = [at EXCEPT ![n] = r]
  BY <1>1, InRoom
<1>3. /\ Sound(body[n], kind) /\ body[n].hp <= body[n].maxHP
      /\ GoodRoom(Room(r)) /\ Room(r).items = floor[r] /\ Room(r).gone = {}
      /\ kind[i] \in Kinds
      /\ ItemsOf(body[n]) \cap Range(floor[r]) = {}
  BY <1>1, <1>2, BodyIn, RoomIn
<1> HIDE DEF r
<1>4. Sound(b, kind) /\ ItemsOf(b) = ItemsOf(body[n]) \cup {i} /\ b.hp <= b.maxHP
  <2>1. i \notin ItemsOf(body[n])
    BY <1>1, <1>3
  <2> QED BY <1>1, <1>3, <2>1, AddedSound
<1>5. GoodRoom(w) /\ RoomItems(w) = Range(floor[r]) \ {i}
  <2> DEFINE t == Unlinked(floor[r], i)
  <2>1. floor[r] \in Seq(Items) /\ Len(floor[r]) <= MaxItemsInRoom /\ IsInjective(floor[r])
    BY <1>3 DEF GoodRoom, RoomState
  <2>2. /\ t \in Seq(Items) /\ Len(t) = Len(floor[r]) - 1
        /\ Range(t) = Range(floor[r]) \ {i} /\ IsInjective(t)
    BY <1>1, <2>1, UnlinkedList
  <2>3. w.items = t /\ w.gone = {} /\ w = [items |-> t, gone |-> {}]
    OBVIOUS
  <2> HIDE DEF t, w
  <2>4. MaxItemsInRoom \in Nat /\ Len(floor[r]) \in Nat
    BY <2>1, InventoryAssumption
  <2>5. Len(t) <= MaxItemsInRoom
    BY <2>1, <2>2, <2>4
  <2>6. w \in RoomState
    BY <2>2, <2>3 DEF RoomState
  <2> QED BY <2>2, <2>3, <2>5, <2>6 DEF GoodRoom, RoomItems
<1>6. x \in DropStates(ItemsOf(body[n]) \cup Range(floor[r]))
  <2> HIDE DEF b, w
  <2>1. ItemsOf(b) \cap RoomItems(w) = {}
    BY <1>3, <1>4, <1>5
  <2>2. ItemsOf(b) \cup RoomItems(w) = ItemsOf(body[n]) \cup Range(floor[r])
    BY <1>1, <1>4, <1>5
  <2>3. x \in DropStates(ItemsOf(b) \cup RoomItems(w))
    BY <1>4, <1>5, <2>1, MakeDropState
  <2> QED BY <2>2, <2>3
<1>7. x.body = b /\ x.room.items = Unlinked(floor[r], i) /\ x.room.gone = {}
  OBVIOUS
<1>8. kind' = Deleted(x.room.gone)
  BY <1>1, <1>7, NoneDeleted
<1> HIDE DEF b, w, x
<1> QED BY <1>1, <1>2, <1>4, <1>6, <1>7, <1>8, SavesInv

LEMMA DropItemInv ==
  ASSUME Inv, NEW n \in Names, NEW i \in Items, NWCDropItem(n, i) PROVE Inv'
<1> DEFINE r == at[n]
           b == Removed(body[n], i)
           w == AddItemToRoom(Room(r), i)
           x == [body |-> b, room |-> w]
<1>1. /\ at[n] # NULL /\ i \in Range(body[n].inv)
      /\ body' = [body EXCEPT ![n] = b] /\ saved' = [saved EXCEPT ![n] = Stream(b)]
      /\ floor' = [floor EXCEPT ![r] = w.items]
      /\ kind' = Deleted(w.gone) /\ at' = at
  BY DEF NWCDropItem, Saves, FloorIs
<1>2. r \in Rooms /\ at = [at EXCEPT ![n] = r]
  BY <1>1, InRoom
<1>3. /\ Sound(body[n], kind) /\ body[n].hp <= body[n].maxHP
      /\ Range(body[n].inv) \subseteq ItemsOf(body[n])
      /\ GoodRoom(Room(r)) /\ RoomItems(Room(r)) = Range(floor[r])
      /\ ItemsOf(body[n]) \cap Range(floor[r]) = {}
  BY <1>1, <1>2, BodyIn, RoomIn
<1> HIDE DEF r
<1>4. Sound(b, kind) /\ ItemsOf(b) = ItemsOf(body[n]) \ {i} /\ b.hp <= b.maxHP
  BY <1>1, <1>3, RemovedSound
<1>5. GoodRoom(w) /\ RoomItems(w) = Range(floor[r]) \cup {i}
  <2>1. i \notin RoomItems(Room(r))
    BY <1>1, <1>3
  <2> QED BY <1>3, <2>1, AddItemToRoomGood
<1> HIDE DEF b, w
<1>6. x \in DropStates(ItemsOf(body[n]) \cup Range(floor[r]))
  <2>1. ItemsOf(b) \cap RoomItems(w) = {}
    BY <1>3, <1>4, <1>5
  <2>2. ItemsOf(b) \cup RoomItems(w) = ItemsOf(body[n]) \cup Range(floor[r])
    BY <1>1, <1>3, <1>4, <1>5
  <2>3. x \in DropStates(ItemsOf(b) \cup RoomItems(w))
    BY <1>4, <1>5, <2>1, MakeDropState
  <2> QED BY <2>2, <2>3
<1>7. x.body = b /\ x.room = w
  OBVIOUS
<1> HIDE DEF x
<1> QED BY <1>1, <1>2, <1>4, <1>6, <1>7, SavesInv

\* A command that changes the player and leaves the room alone.
LEMMA OwnItemsInv ==
  ASSUME Inv, NEW n \in Names, NEW b, Sound(b, kind), b.hp <= b.maxHP,
         ItemsOf(b) = ItemsOf(body[n]), Saves(n, b), UNCHANGED <<kind, floor, at>>
  PROVE  Inv'
<1> DEFINE r == at[n]
           w == Room(r)
           x == [body |-> b, room |-> w]
<1>1. /\ at[n] # NULL
      /\ body' = [body EXCEPT ![n] = b] /\ saved' = [saved EXCEPT ![n] = Stream(b)]
      /\ floor' = floor /\ kind' = kind /\ at' = at
  BY DEF Saves
<1>2. r \in Rooms /\ at = [at EXCEPT ![n] = r]
  BY <1>1, InRoom
<1>3. /\ GoodRoom(w) /\ RoomItems(w) = Range(floor[r])
      /\ w.items = floor[r] /\ w.gone = {}
      /\ ItemsOf(body[n]) \cap Range(floor[r]) = {}
  BY <1>2, RoomIn
<1> HIDE DEF r, w
<1>4. x \in DropStates(ItemsOf(body[n]) \cup Range(floor[r]))
  <2>1. x \in DropStates(ItemsOf(b) \cup RoomItems(w))
    BY <1>3, MakeDropState
  <2> QED BY <1>3, <2>1
<1>5. x.body = b /\ x.room = w
  OBVIOUS
<1> HIDE DEF x
<1>6. kind' = Deleted(x.room.gone) /\ floor' = [floor EXCEPT ![r] = x.room.items]
  BY <1>1, <1>2, <1>3, <1>5, NoneDeleted, InvFacts
<1>7. /\ body' = [body EXCEPT ![n] = x.body] /\ saved' = [saved EXCEPT ![n] = Stream(x.body)]
      /\ at' = [at EXCEPT ![n] = r] /\ x.body.hp <= x.body.maxHP
      /\ Inv /\ n \in Names /\ at[n] # NULL /\ r \in Rooms
  BY <1>1, <1>2, <1>5
<1> QED BY ONLY <1>4, <1>6, <1>7, SavesInv

LEMMA EquipItemInv ==
  ASSUME Inv, NEW n \in Names, NEW i \in Items, NEW s \in Slots, NWCEquipItem(n, i, s)
  PROVE  Inv'
<1> DEFINE b == Clamped(Installed(Removed(body[n], i), i, s))
<1>1. /\ i \in Range(body[n].inv) /\ body[n].equip[s] = NULL
      /\ Saves(n, b) /\ UNCHANGED <<kind, floor, at>>
  BY DEF NWCEquipItem
<1>2. Sound(b, kind) /\ ItemsOf(b) = ItemsOf(body[n]) /\ b.hp <= b.maxHP
  BY <1>1, BodyIn, EquippedSound
<1> HIDE DEF b
<1> QED BY <1>1, <1>2, OwnItemsInv

LEMMA UnequipItemInv ==
  ASSUME Inv, NEW n \in Names, NEW s \in Slots, NWCUnequipItem(n, s) PROVE Inv'
<1> DEFINE b == Clamped(Uninstalled(Added(body[n], body[n].equip[s]), s))
<1>1. /\ body[n].equip[s] # NULL /\ CanCarry(body[n], body[n].equip[s])
      /\ Saves(n, b) /\ UNCHANGED <<kind, floor, at>>
  BY DEF NWCUnequipItem
<1>2. Sound(b, kind) /\ ItemsOf(b) = ItemsOf(body[n]) /\ b.hp <= b.maxHP
  BY <1>1, BodyIn, UnequippedSound
<1> HIDE DEF b
<1> QED BY <1>1, <1>2, OwnItemsInv

LEMMA FingerInv ==
  ASSUME Inv, NEW n \in Names, NEW i \in Items, NWCPlayerFinger(n, i) PROVE Inv'
<1> DEFINE r == at[n]
           b == Removed(body[n], i)
           w == [items |-> floor[r], gone |-> {i}]
           x == [body |-> b, room |-> w]
<1>1. /\ at[n] # NULL /\ i \in Range(body[n].inv)
      /\ body' = [body EXCEPT ![n] = b] /\ saved' = [saved EXCEPT ![n] = Stream(b)]
      /\ floor' = floor /\ kind' = Deleted({i}) /\ at' = at
  BY DEF NWCPlayerFinger, Saves
<1>2. r \in Rooms /\ at = [at EXCEPT ![n] = r]
  BY <1>1, InRoom
<1>3. /\ Sound(body[n], kind) /\ body[n].hp <= body[n].maxHP
      /\ Range(body[n].inv) \subseteq ItemsOf(body[n])
      /\ GoodRoom(Room(r)) /\ Room(r).items = floor[r]
      /\ ItemsOf(body[n]) \cap Range(floor[r]) = {}
  BY <1>1, <1>2, BodyIn, RoomIn
<1>4. Sound(b, kind) /\ ItemsOf(b) = ItemsOf(body[n]) \ {i} /\ b.hp <= b.maxHP
  BY <1>1, <1>3, RemovedSound
<1> HIDE DEF r, b
<1>5. GoodRoom(w) /\ RoomItems(w) = Range(floor[r]) \cup {i}
  <2>1. /\ floor[r] \in Seq(Items) /\ Len(floor[r]) <= MaxItemsInRoom
        /\ IsInjective(floor[r])
    BY <1>3 DEF GoodRoom, RoomState
  <2>2. w.items = floor[r] /\ w.gone = {i} /\ w \in RoomState
    BY <2>1 DEF RoomState
  <2>3. i \notin Range(floor[r])
    BY <1>1, <1>3
  <2> HIDE DEF w
  <2> QED BY <2>1, <2>2, <2>3 DEF GoodRoom, RoomItems
<1>6. x.body = b /\ x.room.items = floor[r] /\ x.room.gone = {i} /\ x.room = w
  OBVIOUS
<1> HIDE DEF w
<1>7. x \in DropStates(ItemsOf(body[n]) \cup Range(floor[r]))
  <2>1. ItemsOf(b) \cap RoomItems(w) = {}
    BY <1>3, <1>4, <1>5
  <2>2. ItemsOf(b) \cup RoomItems(w) = ItemsOf(body[n]) \cup Range(floor[r])
    BY <1>1, <1>3, <1>4, <1>5
  <2>3. x \in DropStates(ItemsOf(b) \cup RoomItems(w))
    BY <1>4, <1>5, <2>1, MakeDropState
  <2> QED BY <2>2, <2>3
<1> HIDE DEF x
<1>8. floor' = [floor EXCEPT ![r] = x.room.items] /\ kind' = Deleted(x.room.gone)
  BY <1>1, <1>2, <1>6, InvFacts
<1> QED BY <1>1, <1>2, <1>4, <1>6, <1>7, <1>8, SavesInv

\* A step of players in the game that saves nothing and moves nobody.
LEMMA MovesKeeps ==
  ASSUME Inv, NEW r \in Rooms, NEW M \in SUBSET Names, NEW w, Moves(r, M, w),
         \A m \in M : at[m] # NULL, at' = at, saved' = saved
  PROVE  Inv'
<1>1. /\ at' \in [Names -> Rooms \cup {NULL}]
      /\ saved' \in [Names -> Holding(Kinds) \cup {NULL}]
  BY InvFacts
<1>2. Streams'
  BY InvFacts DEF Streams
<1>3. \A m \in Names \ M : body'[m] = body[m]
  BY DEF Moves
<1>4. InGame'
  BY <1>3, InvFacts DEF InGame
<1> QED BY <1>1, <1>2, <1>4, MovesInv

LEMMA ScriptDeleteInv ==
  ASSUME Inv, NEW n \in Names, NEW i \in Items, DoScriptDelete(n, i) PROVE Inv'
<1> DEFINE r == at[n]
           t == Unlinked(floor[r], i)
           b == body[n]
           w == [items |-> t, gone |-> {i}]
           x == [body |-> b, room |-> w]
<1>1. /\ at[n] # NULL /\ i \in Range(floor[r])
      /\ floor' = [floor EXCEPT ![r] = t]
      /\ kind' = Deleted({i}) /\ at' = at /\ body' = body /\ saved' = saved
  BY DEF DoScriptDelete
<1>2. r \in Rooms
  BY <1>1, InRoom
<1>3. /\ Sound(b, kind) /\ b.hp <= b.maxHP
      /\ GoodRoom(Room(r)) /\ Room(r).items = floor[r]
      /\ ItemsOf(b) \cap Range(floor[r]) = {}
  BY <1>1, <1>2, BodyIn, RoomIn
<1>4. /\ body' = [body EXCEPT ![n] = b]
  BY <1>1, InvFacts
<1> HIDE DEF r, b
<1>5. GoodRoom(w) /\ RoomItems(w) = Range(floor[r])
  <2>1. floor[r] \in Seq(Items) /\ Len(floor[r]) <= MaxItemsInRoom /\ IsInjective(floor[r])
    BY <1>3 DEF GoodRoom, RoomState
  <2>2. /\ t \in Seq(Items) /\ Len(t) = Len(floor[r]) - 1
        /\ Range(t) = Range(floor[r]) \ {i} /\ IsInjective(t)
    BY <1>1, <2>1, UnlinkedList
  <2> HIDE DEF t
  <2>3. MaxItemsInRoom \in Nat /\ Len(floor[r]) \in Nat
    BY <2>1, InventoryAssumption
  <2>4. Len(t) <= MaxItemsInRoom
    BY <2>1, <2>2, <2>3
  <2>5. w.items = t /\ w.gone = {i} /\ w \in RoomState
    BY <2>2 DEF RoomState
  <2> HIDE DEF w
  <2> QED BY <1>1, <2>2, <2>4, <2>5 DEF GoodRoom, RoomItems
<1>6. x.body = b /\ x.room.items = t /\ x.room.gone = {i}
  OBVIOUS
<1> HIDE DEF w, t
<1>7. x \in DropStates(ItemsOf(b) \cup Range(floor[r]))
  <2>1. x \in DropStates(ItemsOf(b) \cup RoomItems(w))
    BY <1>3, <1>5, MakeDropState
  <2> QED BY <1>5, <2>1
<1> HIDE DEF x
<1>8. Moves(r, {n}, x.room.items)
  <2>1. x \in DropStates(ItemsOf(body[n]) \cup Range(floor[r])) /\ x.body.hp <= x.body.maxHP
    BY <1>3, <1>6, <1>7 DEF b
  <2>2. /\ body' = [body EXCEPT ![n] = x.body]
        /\ floor' = [floor EXCEPT ![r] = x.room.items]
        /\ kind' = Deleted(x.room.gone)
    BY <1>1, <1>4, <1>6
  <2>3. Inv /\ n \in Names /\ r \in Rooms
    BY <1>2
  <2> QED BY ONLY <2>1, <2>2, <2>3, DropsMove
<1> QED BY <1>1, <1>2, <1>8, MovesKeeps

LEMMA WalkInv == ASSUME Inv, NEW n \in Names, NEW r \in Rooms, Walk(n, r) PROVE Inv'
<1>1. /\ at[n] # NULL /\ at' = [at EXCEPT ![n] = r]
      /\ kind' = kind /\ floor' = floor /\ body' = body /\ saved' = saved
  BY DEF Walk
<1>2. TypeOK'
  BY <1>1 DEF Inv, TypeOK
<1>3. Bodies' /\ Streams' /\ Placed'
  BY <1>1 DEF Inv, Bodies, Streams, Placed
<1>4. \A m \in Names : at'[m] = NULL => at[m] = NULL
  BY <1>1, InvFacts
<1>5. \A m \in Names : at'[m] # NULL => at[m] # NULL
  BY <1>1, InvFacts
<1>6. InGame'
  BY <1>1, <1>4, <1>5 DEF Inv, InGame
<1> QED BY <1>2, <1>3, <1>6 DEF Inv

-----------------------------------------------------------------------------
(* Fights *)

LEMMA SetHPInv ==
  ASSUME Inv, NEW n \in Names, NEW b, Sound(b, kind), b.hp <= b.maxHP,
         ItemsOf(b) = ItemsOf(body[n]), SetHP(n, b)
  PROVE  Inv'
<1> DEFINE r == at[n]
           w == Room(r)
           x == [body |-> b, room |-> w]
<1>1. /\ at[n] # NULL /\ body' = [body EXCEPT ![n] = b]
      /\ floor' = floor /\ kind' = kind /\ at' = at /\ saved' = saved
  BY DEF SetHP
<1>2. r \in Rooms
  BY <1>1, InRoom
<1>3. /\ GoodRoom(w) /\ RoomItems(w) = Range(floor[r])
      /\ w.items = floor[r] /\ w.gone = {}
      /\ ItemsOf(body[n]) \cap Range(floor[r]) = {}
  BY <1>2, RoomIn
<1> HIDE DEF r, w
<1>4. x \in DropStates(ItemsOf(body[n]) \cup Range(floor[r]))
  <2>1. x \in DropStates(ItemsOf(b) \cup RoomItems(w))
    BY <1>3, MakeDropState
  <2> QED BY <1>3, <2>1
<1>5. x.body = b /\ x.room = w
  OBVIOUS
<1> HIDE DEF x
<1>6. kind' = Deleted(x.room.gone) /\ floor' = [floor EXCEPT ![r] = x.room.items]
  BY <1>1, <1>2, <1>3, <1>5, NoneDeleted, InvFacts
<1>7. /\ body' = [body EXCEPT ![n] = x.body] /\ x.body.hp <= x.body.maxHP
      /\ Inv /\ n \in Names /\ r \in Rooms
  BY <1>1, <1>2, <1>5
<1>8. Moves(r, {n}, x.room.items)
  BY ONLY <1>4, <1>6, <1>7, DropsMove
<1> QED BY <1>1, <1>2, <1>8, MovesKeeps

LEMMA StatInv ==
  ASSUME Inv, NEW n \in Names, NEW h \in 0..(Wrap - 1), h <= body[n].maxHP,
         SetHP(n, [body[n] EXCEPT !.hp = h])
  PROVE  Inv'
<1> DEFINE b == [body[n] EXCEPT !.hp = h]
<1>1. Sound(b, kind) /\ ItemsOf(b) = ItemsOf(body[n]) /\ b.hp <= b.maxHP
  BY BodyIn, StatSound
<1>2. SetHP(n, b)
  OBVIOUS
<1> HIDE DEF b
<1> QED BY <1>1, <1>2, SetHPInv

LEMMA HealInv ==
  ASSUME Inv, NEW n \in Names, NEW a \in Nat,
         SetHP(n, Clamped([body[n] EXCEPT !.hp = (body[n].hp + a) % Wrap]))
  PROVE  Inv'
<1> DEFINE h == (body[n].hp + a) % Wrap
           c == [body[n] EXCEPT !.hp = h]
           b == Clamped(c)
<1>1. Sound(body[n], kind)
  BY BodyIn
<1>2. h \in 0..(Wrap - 1)
  <2>1. body[n].hp \in 0..(Wrap - 1) /\ Wrap \in Nat /\ Wrap > 0
    BY <1>1, SoundFields, InventoryAssumption
  <2>2. body[n].hp + a \in Int
    BY <2>1
  <2> QED BY <2>1, <2>2, DivMod
<1> HIDE DEF h
<1>3. Sound(c, kind) /\ ItemsOf(c) = ItemsOf(body[n])
  BY <1>1, <1>2, StatSound
<1>4. SetHP(n, b)
  BY DEF h
<1> HIDE DEF c
<1>5. Sound(b, kind) /\ ItemsOf(b) = ItemsOf(body[n]) /\ b.hp <= b.maxHP
  BY <1>3, ClampedSound
<1> HIDE DEF b
<1> QED BY <1>4, <1>5, SetHPInv

\* The stats that fights and scripts change.
LEMMA StatsInv ==
  ASSUME Inv, NEW n \in Names, NEW a \in 1..(Wrap - 1),
         DoHackDamage(n, a) \/ DoScriptDDOS(n, a) \/ DoScriptRepair(n, a) \/ RegenPlayer(n, a)
  PROVE  Inv'
<1>1. /\ body[n].hp \in 0..(Wrap - 1) /\ body[n].maxHP \in 0..(Wrap - 1)
      /\ body[n].hp <= body[n].maxHP /\ Wrap \in Nat /\ a \in Nat
  BY BodyIn, SoundFields, InventoryAssumption
<1>2. CASE DoHackDamage(n, a)
  <2> DEFINE h == body[n].hp - a
  <2>1. a < body[n].hp /\ SetHP(n, [body[n] EXCEPT !.hp = h])
    BY <1>2 DEF DoHackDamage
  <2>2. h \in 0..(Wrap - 1) /\ h <= body[n].maxHP
    BY <1>1, <2>1
  <2> HIDE DEF h
  <2> QED BY <2>1, <2>2, StatInv
<1>3. CASE DoScriptDDOS(n, a)
  <2> DEFINE h == IF body[n].hp < a THEN 0 ELSE body[n].hp - a
  <2>1. SetHP(n, [body[n] EXCEPT !.hp = h])
    BY <1>3 DEF DoScriptDDOS
  <2>2. h \in 0..(Wrap - 1) /\ h <= body[n].maxHP
    BY <1>1
  <2> HIDE DEF h
  <2> QED BY <2>1, <2>2, StatInv
<1>4. CASE DoScriptRepair(n, a)
  BY <1>1, <1>4, HealInv DEF DoScriptRepair
<1>5. CASE RegenPlayer(n, a)
  BY <1>1, <1>5, HealInv DEF RegenPlayer
<1> QED BY <1>2, <1>3, <1>4, <1>5

LEMMA KillInv == ASSUME Inv, NEW n \in Names, NEW q \in Rooms, Kill(n, q) PROVE Inv'
<1> DEFINE x == Drops(n, DropOnPK, DropOnPK)
           r == at[n]
           h == x.body.maxHP \div 10
           b == [x.body EXCEPT !.hp = h]
           y == [body |-> b, room |-> x.room]
<1>1. /\ at[n] # NULL
      /\ body' = [body EXCEPT ![n] = b] /\ saved' = [saved EXCEPT ![n] = Stream(b)]
      /\ floor' = [floor EXCEPT ![r] = x.room.items]
      /\ kind' = Deleted(x.room.gone) /\ at' = [at EXCEPT ![n] = q]
  BY DEF Kill, Saves, FloorIs
<1>2. r \in Rooms
  BY <1>1, InRoom
<1>3. x \in DropStates(ItemsOf(body[n]) \cup Range(floor[r]))
  <2>1. /\ Sound(body[n], kind) /\ GoodRoom(Room(r)) /\ RoomItems(Room(r)) = Range(floor[r])
        /\ ItemsOf(body[n]) \cap Range(floor[r]) = {}
    BY <1>2, BodyIn, RoomIn
  <2> QED BY <2>1, DropsIn
<1> HIDE DEF x, r
<1>4. /\ Sound(x.body, kind) /\ GoodRoom(x.room)
      /\ ItemsOf(x.body) \cap RoomItems(x.room) = {}
      /\ ItemsOf(x.body) \cup RoomItems(x.room) = ItemsOf(body[n]) \cup Range(floor[r])
  BY <1>3 DEF DropStates
<1>5. h \in 0..(Wrap - 1) /\ h <= x.body.maxHP
  <2>1. x.body.maxHP \in 0..(Wrap - 1) /\ Wrap \in Nat
    BY <1>4, SoundFields, InventoryAssumption
  <2> QED BY <2>1
<1> HIDE DEF h
<1>6. Sound(b, kind) /\ ItemsOf(b) = ItemsOf(x.body) /\ b.maxHP = x.body.maxHP /\ b.hp = h
  BY <1>4, <1>5, StatSound
<1> HIDE DEF b
<1>7. y \in DropStates(ItemsOf(body[n]) \cup Range(floor[r]))
  <2>1. y \in DropStates(ItemsOf(b) \cup RoomItems(x.room))
    BY <1>4, <1>6, MakeDropState
  <2> QED BY <1>4, <1>6, <2>1
<1>8. y.body = b /\ y.room = x.room
  OBVIOUS
<1> HIDE DEF y
<1>9. /\ body' = [body EXCEPT ![n] = y.body] /\ saved' = [saved EXCEPT ![n] = Stream(y.body)]
      /\ floor' = [floor EXCEPT ![r] = y.room.items]
      /\ kind' = Deleted(y.room.gone) /\ at' = [at EXCEPT ![n] = q]
      /\ Inv /\ n \in Names /\ at[n] # NULL /\ r \in Rooms /\ q \in Rooms
      /\ y.body.hp <= y.body.maxHP
  BY <1>1, <1>2, <1>5, <1>6, <1>8
<1> QED BY ONLY <1>7, <1>9, SavesInv

\* Fresh objects on a floor, or deleted again by its cleanup.
LEMMA NPCDropsInv ==
  ASSUME Inv, NEW r \in Rooms, NEW m \in 1..MaxNPCItems, NEW ks \in [1..m -> Kinds], NPCDrops(r, ks)
  PROVE  Inv'
<1> DEFINE fs == Fresh(1..m)
           x == AllDropped(r, fs)
           w == x.items
           D == x.gone
<1>1. /\ HasFresh(1..m) /\ floor' = [floor EXCEPT ![r] = w]
      /\ kind' = KindsAfter(fs, ks, D)
      /\ at' = at /\ body' = body /\ saved' = saved
  BY DEF NPCDrops
<1>2. m \in Nat /\ IsFiniteSet(1..m)
  BY FS_Interval
<1>3. /\ fs \in [1..m -> Items] /\ IsInjective(fs) /\ Range(fs) \subseteq Items
      /\ \A p \in 1..m : kind[fs[p]] = NULL
      /\ \A i \in Range(fs) : kind[i] = NULL
  BY <1>1, <1>2, FreshIs
<1>4. /\ GoodRoom(Room(r)) /\ RoomItems(Room(r)) = Range(floor[r])
      /\ \A i \in Range(floor[r]) : kind[i] \in Kinds
      /\ NULL \notin Kinds /\ kind \in [Items -> Kinds \cup {NULL}]
      /\ Range(floor[r]) \subseteq Items
      /\ body \in [Names -> Holding(Items)]
  BY RoomIn, InvFacts
<1> HIDE DEF fs
<1>5. GoodRoom(x) /\ RoomItems(x) = Range(floor[r]) \cup Range(fs)
  <2>1. Range(fs) \cap RoomItems(Room(r)) = {}
    BY <1>3, <1>4
  <2> QED BY <1>2, <1>3, <1>4, <2>1, AllDroppedIn
<1>6. /\ w \in Seq(Items) /\ Len(w) <= MaxItemsInRoom /\ IsInjective(w) /\ D \subseteq Items
      /\ Range(w) \cap D = {} /\ Range(w) \cup D = Range(floor[r]) \cup Range(fs)
  BY <1>5 DEF GoodRoom, RoomState, RoomItems
<1> HIDE DEF x, w, D
<1>7. /\ kind' \in [Items -> Kinds \cup {NULL}]
      /\ \A i \in Items : i \in D => kind'[i] = NULL
      /\ \A p \in 1..m : fs[p] \notin D => kind'[fs[p]] = ks[p]
      /\ \A i \in Items : i \notin D /\ i \notin Range(fs) => kind'[i] = kind[i]
  BY <1>1, <1>3, <1>4, KindsAfterIs
<1>8. \A i \in Range(fs) : i \notin D => kind'[i] \in Kinds
  BY <1>3, <1>7 DEF Range
<1>9. \A i \in Items : i \in Here(r, {}) <=> kind[i] = NULL \/ i \in Range(floor[r])
  BY DEF Here
<1>10. Range(w) \subseteq Here(r, {}) /\ D \subseteq Here(r, {}) /\ Range(fs) \subseteq Here(r, {})
  BY <1>3, <1>4, <1>6, <1>9
<1>11. \A i \in Here(r, {}) : kind'[i] # NULL <=> i \in Range(w)
  <2> SUFFICES ASSUME NEW i \in Items, i \in Here(r, {}) PROVE kind'[i] # NULL <=> i \in Range(w)
    BY DEF Here
  <2>1. CASE i \in D
    BY <1>6, <1>7, <2>1
  <2>2. CASE i \notin D /\ i \in Range(fs)
    BY <1>4, <1>6, <1>8, <2>2
  <2>3. CASE i \notin D /\ i \notin Range(fs)
    <3>1. kind'[i] = kind[i]
      BY <1>7, <2>3
    <3>2. kind[i] # NULL <=> i \in Range(floor[r])
      BY <1>4, <1>9
    <3> QED BY <1>6, <2>3, <3>1, <3>2
  <2> QED BY <2>1, <2>2, <2>3
<1>12. \A i \in Items \ Here(r, {}) : kind'[i] = kind[i]
  BY <1>7, <1>10
<1>13. Moves(r, {}, w)
  BY <1>1, <1>4, <1>6, <1>7, <1>10, <1>11, <1>12 DEF Moves
<1> QED BY <1>1, <1>13, MovesKeeps

-----------------------------------------------------------------------------
(* Logins and exits *)

\* What is left of a player who exits is deleted with what the cleanup of the
\* room deletes.
LEMMA LeftBehind ==
  ASSUME NEW U, NEW x \in DropStates(U), NEW w, NEW D,
         w = x.room.items, D = ItemsOf(x.body) \cup x.room.gone
  PROVE  [body |-> Empty, room |-> [items |-> w, gone |-> D]] \in DropStates(U)
<1> DEFINE v == [items |-> w, gone |-> D]
<1>1. /\ Sound(x.body, kind) /\ GoodRoom(x.room)
      /\ ItemsOf(x.body) \cap RoomItems(x.room) = {}
      /\ ItemsOf(x.body) \cup RoomItems(x.room) = U
  BY DEF DropStates
<1>2. /\ w \in Seq(Items) /\ Len(w) <= MaxItemsInRoom /\ IsInjective(w)
      /\ x.room.gone \subseteq Items /\ Range(w) \cap x.room.gone = {}
      /\ RoomItems(x.room) = Range(w) \cup x.room.gone
  BY <1>1 DEF GoodRoom, RoomState, RoomItems
<1>3. ItemsOf(x.body) \subseteq Items
  BY <1>1, SoundFields
<1>4. v.items = w /\ v.gone = D /\ v \in RoomState
  BY <1>2, <1>3 DEF RoomState
<1> HIDE DEF v
<1>5. GoodRoom(v) /\ RoomItems(v) = U
  <2>1. Range(w) \cap D = {} /\ Range(w) \cup D = U
    BY <1>1, <1>2
  <2> QED BY <1>2, <1>4, <2>1 DEF GoodRoom, RoomItems
<1>6. Sound(Empty, kind) /\ ItemsOf(Empty) = {}
  BY EmptySound
<1>7. [body |-> Empty, room |-> v] \in DropStates(ItemsOf(Empty) \cup RoomItems(v))
  BY <1>5, <1>6, MakeDropState
<1>8. ItemsOf(Empty) \cup RoomItems(v) = U
  BY <1>5, <1>6
<1> QED BY <1>7, <1>8 DEF v

LEMMA AfterExitOf ==
  ASSUME Inv, NEW n \in Names, at[n] # NULL
  PROVE  LET x == AfterExit(n) IN
         /\ x \in DropStates(ItemsOf(body[n]) \cup Range(floor[at[n]]))
         /\ SoundStream(Stream(x.body))
         /\ at[n] \in Rooms
<1>1. at[n] \in Rooms
  BY InRoom
<1>2. /\ Sound(body[n], kind) /\ GoodRoom(Room(at[n]))
      /\ RoomItems(Room(at[n])) = Range(floor[at[n]])
      /\ ItemsOf(body[n]) \cap Range(floor[at[n]]) = {}
  BY <1>1, BodyIn, RoomIn
<1> DEFINE x == AfterExit(n)
<1>3. x \in DropStates(ItemsOf(body[n]) \cup Range(floor[at[n]])) /\ x.body.hp <= x.body.maxHP
  BY <1>2, AfterExitIn
<1> HIDE DEF x
<1>4. Sound(x.body, kind)
  BY <1>3 DEF DropStates
<1> QED BY <1>1, <1>3, <1>4, StreamSound DEF x

LEMMA DoExitInv == ASSUME Inv, NEW n \in Names, DoExit(n) PROVE Inv'
<1> DEFINE x == AfterExit(n)
           r == at[n]
           w == x.room.items
           D == ItemsOf(x.body) \cup x.room.gone
           y == [body |-> Empty, room |-> [items |-> w, gone |-> D]]
<1>1. /\ at[n] # NULL
      /\ body' = [body EXCEPT ![n] = Empty] /\ saved' = [saved EXCEPT ![n] = Stream(x.body)]
      /\ floor' = [floor EXCEPT ![r] = w]
      /\ kind' = Deleted(D) /\ at' = [at EXCEPT ![n] = NULL]
  BY DEF DoExit, FloorIs
<1>2. /\ x \in DropStates(ItemsOf(body[n]) \cup Range(floor[r]))
      /\ SoundStream(Stream(x.body)) /\ r \in Rooms
  BY <1>1, AfterExitOf
<1> HIDE DEF x, r
<1>3. y \in DropStates(ItemsOf(body[n]) \cup Range(floor[r]))
  BY <1>2, LeftBehind
<1>4. y.body = Empty /\ y.room.items = w /\ y.room.gone = D
  OBVIOUS
<1> HIDE DEF y, w, D
<1>5. Empty.hp <= Empty.maxHP /\ ItemsOf(Empty) = {}
  BY EmptySound
<1>6. Moves(r, {n}, y.room.items)
  <2>1. /\ Inv /\ n \in Names /\ r \in Rooms /\ y.body.hp <= y.body.maxHP
        /\ body' = [body EXCEPT ![n] = y.body]
        /\ floor' = [floor EXCEPT ![r] = y.room.items] /\ kind' = Deleted(y.room.gone)
    BY <1>1, <1>2, <1>4, <1>5
  <2> QED BY ONLY <1>3, <2>1, DropsMove
<1>7. /\ at' \in [Names -> Rooms \cup {NULL}] /\ at'[n] = NULL
      /\ saved' \in [Names -> Holding(Kinds) \cup {NULL}] /\ saved'[n] = Stream(x.body)
      /\ body'[n] = Empty
      /\ \A m \in Names : m # n => at'[m] = at[m] /\ saved'[m] = saved[m] /\ body'[m] = body[m]
  BY <1>1, <1>2, InvFacts DEF SoundStream
<1>8. Streams'
  BY <1>2, <1>7, InvFacts DEF Streams
<1>9. InGame'
  BY <1>2, <1>5, <1>7, InvFacts DEF InGame
<1> QED BY <1>2, <1>6, <1>7, <1>8, <1>9, MovesInv

\* A player is made of fresh objects, while the items of y are deleted or on
\* the floor; none is left on the player it replaces.
LEMMA LoadMoves ==
  ASSUME Inv, NEW n \in Names, NEW r \in Rooms, NEW st, SoundStream(st),
         NEW P, P = DOMAIN KindsOf(st), HasFresh(P),
         NEW fs, fs = Fresh(P),
         NEW y \in DropStates(ItemsOf(body[n]) \cup Range(floor[r])), ItemsOf(y.body) = {},
         body' = [body EXCEPT ![n] = Loaded(st, fs)],
         floor' = [floor EXCEPT ![r] = y.room.items],
         kind' = KindsAfter(fs, KindsOf(st), y.room.gone)
  PROVE  Moves(r, {n}, y.room.items)
<1> DEFINE w == y.room.items
           D == y.room.gone
           ks == KindsOf(st)
           b == Loaded(st, fs)
<1>1. IsFiniteSet(P) /\ ks \in [P -> Kinds]
  BY PlacesOfStream
<1>2. /\ fs \in [P -> Items] /\ IsInjective(fs) /\ Range(fs) \subseteq Items
      /\ \A p \in P : kind[fs[p]] = NULL
      /\ \A i \in Range(fs) : kind[i] = NULL
  BY <1>1, FreshIs
<1>3. /\ w \in Seq(Items) /\ Len(w) <= MaxItemsInRoom /\ IsInjective(w) /\ D \subseteq Items
      /\ Range(w) \cap D = {} /\ Range(w) \cup D = ItemsOf(body[n]) \cup Range(floor[r])
      /\ Range(w) \subseteq Items
  <2>1. GoodRoom(y.room) /\ RoomItems(y.room) = ItemsOf(body[n]) \cup Range(floor[r])
    BY DEF DropStates
  <2> QED BY <2>1, RangeIs DEF GoodRoom, RoomState, RoomItems
<1>4. /\ \A i \in Range(floor[r]) : kind[i] \in Kinds
      /\ \A i \in ItemsOf(body[n]) : kind[i] \in Kinds
      /\ NULL \notin Kinds /\ kind \in [Items -> Kinds \cup {NULL}]
      /\ body \in [Names -> Holding(Items)]
  BY RoomIn, BodyIn, InvFacts
<1>5. Range(fs) \cap (Range(w) \cup D) = {}
  BY <1>2, <1>3, <1>4
<1> HIDE DEF w, D, ks
<1>6. /\ kind' \in [Items -> Kinds \cup {NULL}]
      /\ \A i \in Items : i \in D => kind'[i] = NULL
      /\ \A p \in P : fs[p] \notin D => kind'[fs[p]] = ks[p]
      /\ \A i \in Items : i \notin D /\ i \notin Range(fs) => kind'[i] = kind[i]
  <2>1. kind' = KindsAfter(fs, ks, D)
    BY DEF D, ks
  <2> QED BY <1>1, <1>2, <1>4, <2>1, KindsAfterIs
<1>7. \A p \in P : fs[p] \in Range(fs) /\ kind'[fs[p]] = ks[p]
  BY <1>2, <1>5, <1>6 DEF Range
<1>8. Sound(b, kind') /\ ItemsOf(b) = Range(fs) /\ b.hp <= b.maxHP
  <2>1. SoundStream(st) /\ fs \in [DOMAIN KindsOf(st) -> Items] /\ IsInjective(fs)
    BY <1>2
  <2>2. \A p \in DOMAIN KindsOf(st) : kind'[fs[p]] = KindsOf(st)[p]
    BY <1>7 DEF ks
  <2> QED BY ONLY <2>1, <2>2, LoadedSound
<1> HIDE DEF b
<1>9. /\ body' = [body EXCEPT ![n] = b] /\ floor' = [floor EXCEPT ![r] = w]
  BY DEF b, w
<1>10. /\ body' \in [Names -> Holding(Items)] /\ body'[n] = b
       /\ \A m \in Names \ {n} : body'[m] = body[m]
  BY <1>4, <1>8, <1>9 DEF Sound
<1>11. \A i \in Items : i \in Here(r, {n}) <=>
         kind[i] = NULL \/ i \in Range(floor[r]) \/ i \in ItemsOf(body[n])
  BY DEF Here
<1>12. /\ Range(fs) \subseteq Here(r, {n}) /\ Range(w) \subseteq Here(r, {n})
       /\ D \subseteq Here(r, {n})
  BY <1>2, <1>3, <1>11
<1>13. \A i \in Here(r, {n}) : kind'[i] # NULL <=> i \in Range(w) \/ i \in Range(fs)
  <2> SUFFICES ASSUME NEW i \in Items, i \in Here(r, {n})
               PROVE  kind'[i] # NULL <=> i \in Range(w) \/ i \in Range(fs)
    BY DEF Here
  <2>1. CASE i \in D
    BY <1>3, <1>5, <1>6, <2>1
  <2>2. CASE i \in Range(fs)
    BY <1>1, <1>2, <1>4, <1>7, <2>2 DEF Range
  <2>3. CASE i \notin D /\ i \notin Range(fs)
    <3>1. kind'[i] = kind[i]
      BY <1>6, <2>3
    <3>2. kind[i] # NULL <=> i \in Range(floor[r]) \/ i \in ItemsOf(body[n])
      BY <1>4, <1>11
    <3> QED BY <1>3, <2>3, <3>1, <3>2
  <2> QED BY <2>1, <2>2, <2>3
<1>14. \A i \in Items \ Here(r, {n}) : kind'[i] = kind[i]
  BY <1>6, <1>12
<1>15. Moves(r, {n}, w)
  <2>1. \A m \in {n} : m = n
    OBVIOUS
  <2>2. ItemsOf(b) \cap Range(w) = {}
    BY <1>5, <1>8
  <2>3. \A i \in Here(r, {n}) :
          kind'[i] # NULL <=> i \in Range(w) \/ \E m \in {n} : i \in ItemsOf(body'[m])
    BY ONLY <1>8, <1>10, <1>13
  <2>4. \A m \in {n} : /\ Sound(body'[m], kind') /\ body'[m].hp <= body'[m].maxHP
                       /\ ItemsOf(body'[m]) \cap Range(w) = {}
                       /\ ItemsOf(body'[m]) \subseteq Here(r, {n})
    BY ONLY <1>8, <1>10, <1>12, <2>2
  <2>5. floor' = [floor EXCEPT ![r] = w] /\ Range(w) \subseteq Here(r, {n})
    BY <1>9, <1>12
  <2> QED BY ONLY <1>3, <1>6, <1>10, <1>14, <2>1, <2>3, <2>4, <2>5 DEF Moves
<1> QED BY <1>15 DEF w

LEMMA AuthInv == ASSUME Inv, NEW n \in Names, NWCAuth(n) PROVE Inv'
<1> DEFINE st == IF saved[n] = NULL THEN Empty ELSE saved[n]
           P == DOMAIN KindsOf(st)
           fs == Fresh(P)
           r == InitialRoom
           y == [body |-> Empty, room |-> Room(r)]
<1>1. /\ at[n] = NULL /\ HasFresh(P)
      /\ kind' = KindsAfter(fs, KindsOf(st), {})
      /\ body' = [body EXCEPT ![n] = Loaded(st, fs)]
      /\ saved' = [saved EXCEPT ![n] = st]
      /\ at' = [at EXCEPT ![n] = r] /\ floor' = floor
  BY DEF NWCAuth
<1>2. r \in Rooms
  BY InventoryAssumption
<1>3. SoundStream(st)
  BY EmptySound, InvFacts
<1>4. /\ GoodRoom(Room(r)) /\ RoomItems(Room(r)) = Range(floor[r])
      /\ Room(r).items = floor[r] /\ Room(r).gone = {}
      /\ Sound(Empty, kind) /\ ItemsOf(Empty) = {} /\ ItemsOf(body[n]) = {}
  BY <1>1, <1>2, RoomIn, EmptySound, InvFacts
<1> HIDE DEF st, r
<1>5. y \in DropStates(ItemsOf(body[n]) \cup Range(floor[r])) /\ y.room = Room(r) /\ y.body = Empty
  <2> DEFINE w == Room(r)
  <2>1. /\ Sound(Empty, kind) /\ GoodRoom(w) /\ ItemsOf(Empty) \cap RoomItems(w) = {}
        /\ ItemsOf(Empty) \cup RoomItems(w) = ItemsOf(body[n]) \cup Range(floor[r])
    BY <1>4
  <2> HIDE DEF w
  <2>2. [body |-> Empty, room |-> w] \in DropStates(ItemsOf(Empty) \cup RoomItems(w))
    BY <2>1, MakeDropState
  <2> QED BY <2>1, <2>2 DEF w
<1> HIDE DEF y, P, fs
<1>6. Moves(r, {n}, y.room.items)
  <2>1. /\ Inv /\ n \in Names /\ r \in Rooms /\ SoundStream(st)
        /\ P = DOMAIN KindsOf(st) /\ HasFresh(P) /\ fs = Fresh(P)
        /\ ItemsOf(y.body) = {}
    BY <1>1, <1>2, <1>3, <1>4, <1>5 DEF P, fs
  <2>2. /\ body' = [body EXCEPT ![n] = Loaded(st, fs)]
        /\ floor' = [floor EXCEPT ![r] = y.room.items]
        /\ kind' = KindsAfter(fs, KindsOf(st), y.room.gone)
    BY <1>1, <1>2, <1>4, <1>5, InvFacts
  <2> QED BY ONLY <1>5, <2>1, <2>2, LoadMoves
<1>7. /\ at' \in [Names -> Rooms \cup {NULL}] /\ at'[n] # NULL
      /\ saved' \in [Names -> Holding(Kinds) \cup {NULL}] /\ saved'[n] = st
      /\ \A m \in Names : m # n => at'[m] = at[m] /\ saved'[m] = saved[m] /\ body'[m] = body[m]
  BY <1>1, <1>2, <1>3, InvFacts DEF SoundStream
<1>8. Streams'
  BY <1>3, <1>7, InvFacts DEF Streams
<1>9. InGame'
  BY <1>3, <1>7, InvFacts DEF InGame
<1> QED BY <1>2, <1>6, <1>7, <1>8, <1>9, MovesInv

LEMMA AuthReplacesInv == ASSUME Inv, NEW n \in Names, NWCAuthReplaces(n) PROVE Inv'
<1> DEFINE st == saved[n]
           P == DOMAIN KindsOf(st)
           fs == Fresh(P)
           x == AfterExit(n)
           r == at[n]
           w == x.room.items
           D == ItemsOf(x.body) \cup x.room.gone
           y == [body |-> Empty, room |-> [items |-> w, gone |-> D]]
<1>1. /\ at[n] # NULL /\ HasFresh(P)
      /\ floor' = [floor EXCEPT ![r] = w]
      /\ kind' = KindsAfter(fs, KindsOf(st), D)
      /\ body' = [body EXCEPT ![n] = Loaded(st, fs)]
      /\ saved' = [saved EXCEPT ![n] = Stream(x.body)]
      /\ at' = [at EXCEPT ![n] = InitialRoom]
  BY DEF NWCAuthReplaces, FloorIs
<1>2. /\ x \in DropStates(ItemsOf(body[n]) \cup Range(floor[r]))
      /\ SoundStream(Stream(x.body)) /\ r \in Rooms
  BY <1>1, AfterExitOf
<1>3. SoundStream(st)
  BY <1>1, InvFacts
<1> HIDE DEF x, r, st
<1>4. y \in DropStates(ItemsOf(body[n]) \cup Range(floor[r]))
  BY <1>2, LeftBehind
<1>5. y.body = Empty /\ y.room.items = w /\ y.room.gone = D /\ ItemsOf(Empty) = {}
  BY EmptySound
<1> HIDE DEF y, P, fs, w, D
<1>6. Moves(r, {n}, y.room.items)
  <2>1. /\ Inv /\ n \in Names /\ r \in Rooms /\ SoundStream(st)
        /\ P = DOMAIN KindsOf(st) /\ HasFresh(P) /\ fs = Fresh(P)
        /\ ItemsOf(y.body) = {}
    BY <1>1, <1>2, <1>3, <1>5 DEF P, fs
  <2>2. /\ body' = [body EXCEPT ![n] = Loaded(st, fs)]
        /\ floor' = [floor EXCEPT ![r] = y.room.items]
        /\ kind' = KindsAfter(fs, KindsOf(st), y.room.gone)
    BY <1>1, <1>5
  <2> QED BY ONLY <1>4, <2>1, <2>2, LoadMoves
<1>7. /\ at' \in [Names -> Rooms \cup {NULL}] /\ at'[n] # NULL
      /\ saved' \in [Names -> Holding(Kinds) \cup {NULL}] /\ saved'[n] = Stream(x.body)
      /\ \A m \in Names : m # n => at'[m] = at[m] /\ saved'[m] = saved[m] /\ body'[m] = body[m]
  BY <1>1, <1>2, InvFacts, InventoryAssumption DEF SoundStream
<1>8. Streams'
  BY <1>2, <1>7, InvFacts DEF Streams
<1>9. InGame'
  BY <1>2, <1>7, InvFacts DEF InGame
<1> QED BY <1>2, <1>6, <1>7, <1>8, <1>9, MovesInv

-----------------------------------------------------------------------------
(* The theorems *)

LEMMA InitInv == Init => Inv
<1> SUFFICES ASSUME Init PROVE Inv
  OBVIOUS
<1>1. /\ kind = [i \in Items |-> NULL] /\ floor = [r \in Rooms |-> <<>>]
      /\ at = [n \in Names |-> NULL] /\ body = [n \in Names |-> Empty]
      /\ saved = [n \in Names |-> NULL]
  BY DEF Init
<1>2. Sound(Empty, kind) /\ ItemsOf(Empty) = {} /\ Empty.hp <= Empty.maxHP
  BY EmptySound
<1>3. Range(<<>>) = {} /\ IsInjective(<<>>)
  BY DEF Range, IsInjective
<1>4. TypeOK
  <2>1. Empty \in Holding(Items)
    BY <1>2 DEF Sound
  <2>2. \A r \in Rooms : Len(floor[r]) <= MaxItemsInRoom
    BY <1>1, InventoryAssumption
  <2> QED BY <1>1, <2>1, <2>2 DEF TypeOK
<1>5. Bodies
  BY <1>1, <1>2 DEF Bodies
<1>6. Streams
  BY <1>1 DEF Streams
<1>7. Placed
  BY <1>1, <1>2, <1>3 DEF Placed
<1>8. InGame
  BY <1>1, <1>2 DEF InGame
<1> QED BY <1>4, <1>5, <1>6, <1>7, <1>8 DEF Inv

LEMMA NextInv == Inv /\ [Next]_vars => Inv'
<1> SUFFICES ASSUME Inv, [Next]_vars PROVE Inv'
  OBVIOUS
<1>1. CASE Session
  BY <1>1, AuthInv, AuthReplacesInv, DoExitInv DEF Session
<1>2. CASE Command
  BY <1>2, GetItemInv, DropItemInv, EquipItemInv, FingerInv, ScriptDeleteInv, UnequipItemInv,
     WalkInv DEF Command
<1>3. CASE Fight
  BY <1>3, KillInv, StatsInv, NPCDropsInv DEF Fight
<1>4. CASE UNCHANGED vars
  BY <1>4 DEF vars, Inv, TypeOK, Bodies, Streams, Placed, InGame
<1> QED BY <1>1, <1>2, <1>3, <1>4 DEF Next

LEMMA SpecInv == Spec => []Inv
BY InitInv, NextInv, PTL DEF Spec

\* Every body, floor and stream has the form that the code gives it; a floor is
\* never longer than the cleanup allows.
THEOREM TypesAreRight == Spec => []TypeOK
<1>1. Inv => TypeOK
  BY DEF Inv
<1> QED BY <1>1, SpecInv, PTL

\* An item is on one floor, in one inventory or in one slot as long as it
\* exists, and nowhere after it was deleted.
THEOREM OnePlaceForEachItem == Spec => []ItemInOnePlace
<1>1. Inv => ItemInOnePlace
  <2> SUFFICES ASSUME Inv, NEW i \in Items
               PROVE  IF kind[i] = NULL THEN PlacesOf(i) = {}
                      ELSE \E p \in PlacesOf(i) : PlacesOf(i) = {p}
    BY DEF ItemInOnePlace
  <2>1. /\ \A r \in Rooms : /\ floor[r] \in Seq(Items) /\ Len(floor[r]) <= MaxItemsInRoom
                            /\ IsInjective(floor[r])
        /\ \A r, q \in Rooms : i \in Range(floor[r]) /\ i \in Range(floor[q]) => r = q
        /\ \A n, m \in Names : i \in ItemsOf(body[n]) /\ i \in ItemsOf(body[m]) => n = m
        /\ \A n \in Names, r \in Rooms : ~ (i \in ItemsOf(body[n]) /\ i \in Range(floor[r]))
        /\ kind[i] # NULL <=> \/ \E r \in Rooms : i \in Range(floor[r])
                              \/ \E n \in Names : i \in ItemsOf(body[n])
    BY DEF Inv, TypeOK, Placed
  <2>2. \A n \in Names :
          /\ body[n].inv \in Seq(Items) /\ Len(body[n].inv) <= MaxCarryItems
          /\ IsInjective(body[n].inv)
          /\ ItemsOf(body[n]) = Range(body[n].inv) \cup {x \in Items : \E s \in Slots : body[n].equip[s] = x}
          /\ \A s, t \in Slots : body[n].equip[s] = i /\ body[n].equip[t] = i => s = t
          /\ \A s \in Slots : body[n].equip[s] = i => i \notin Range(body[n].inv)
    <3> SUFFICES ASSUME NEW n \in Names
                 PROVE  /\ body[n].inv \in Seq(Items) /\ Len(body[n].inv) <= MaxCarryItems
                        /\ IsInjective(body[n].inv)
                        /\ ItemsOf(body[n]) = Range(body[n].inv)
                             \cup {x \in Items : \E s \in Slots : body[n].equip[s] = x}
                        /\ \A s, t \in Slots : body[n].equip[s] = i /\ body[n].equip[t] = i => s = t
                        /\ \A s \in Slots : body[n].equip[s] = i => i \notin Range(body[n].inv)
      OBVIOUS
    <3> DEFINE b == body[n]
    <3>1. Sound(b, kind)
      BY BodyIn
    <3> HIDE DEF b
    <3>2. /\ b.inv \in Seq(Items) /\ IsInjective(b.inv) /\ NULL \notin Items
          /\ b.count \in 0..MaxCarryItems
          /\ ItemsOf(b) = Range(b.inv) \cup {x \in Items : \E s \in Slots : b.equip[s] = x}
      BY <3>1, SoundFields
    <3>3. /\ b.count = Len(b.inv)
          /\ \A s, t \in Slots : b.equip[s] = b.equip[t] /\ b.equip[s] # NULL => s = t
          /\ \A s \in Slots : b.equip[s] \notin Range(b.inv)
      BY <3>1 DEF Sound
    <3>4. Len(b.inv) <= MaxCarryItems
      BY <3>2, <3>3, InventoryAssumption
    <3> QED BY <3>2, <3>3, <3>4 DEF b
  <2>3. \A p \in PlacesOf(i) :
          \/ \E r \in Rooms, j \in 1..MaxItemsInRoom :
               p = <<"floor", <<r, j>>>> /\ j \in 1..Len(floor[r]) /\ floor[r][j] = i
          \/ \E n \in Names, j \in 1..MaxCarryItems :
               p = <<"bag", <<n, j>>>> /\ j \in 1..Len(body[n].inv) /\ body[n].inv[j] = i
          \/ \E n \in Names, s \in Slots : p = <<"slot", <<n, s>>>> /\ body[n].equip[s] = i
    BY <2>1, <2>2 DEF PlacesOf, OnFloor, InBag, InSlot
  <2>4. /\ \A r \in Rooms, j \in 1..MaxItemsInRoom :
             j \in 1..Len(floor[r]) /\ floor[r][j] = i => <<"floor", <<r, j>>>> \in PlacesOf(i)
        /\ \A n \in Names, j \in 1..MaxCarryItems :
             j \in 1..Len(body[n].inv) /\ body[n].inv[j] = i => <<"bag", <<n, j>>>> \in PlacesOf(i)
        /\ \A n \in Names, s \in Slots :
             body[n].equip[s] = i => <<"slot", <<n, s>>>> \in PlacesOf(i)
    BY <2>1, <2>2 DEF PlacesOf, OnFloor, InBag, InSlot
  <2>5. /\ \A r \in Rooms : \A j \in 1..Len(floor[r]) : floor[r][j] = i => i \in Range(floor[r])
        /\ \A r \in Rooms : i \in Range(floor[r]) =>
             \E j \in 1..Len(floor[r]) : floor[r][j] = i /\ j \in 1..MaxItemsInRoom
    <3>1. ASSUME NEW r \in Rooms
          PROVE  /\ \A j \in 1..Len(floor[r]) : floor[r][j] = i => i \in Range(floor[r])
                 /\ i \in Range(floor[r]) =>
                      \E j \in 1..Len(floor[r]) : floor[r][j] = i /\ j \in 1..MaxItemsInRoom
      <4> DEFINE s == floor[r]
      <4>1. s \in Seq(Items) /\ Len(s) <= MaxItemsInRoom /\ MaxItemsInRoom \in Nat
        BY <2>1, InventoryAssumption
      <4> HIDE DEF s
      <4>2. /\ DOMAIN s = 1..Len(s) /\ Len(s) \in Nat
            /\ \A j \in 1..Len(s) : j \in 1..MaxItemsInRoom
        BY <4>1
      <4>3. /\ \A j \in 1..Len(s) : s[j] = i => i \in Range(s)
            /\ i \in Range(s) => \E j \in 1..Len(s) : s[j] = i /\ j \in 1..MaxItemsInRoom
        BY <4>2 DEF Range
      <4> QED BY <4>3 DEF s
    <3> QED BY <3>1
  <2>6. /\ \A n \in Names : \A j \in 1..Len(body[n].inv) : body[n].inv[j] = i => i \in Range(body[n].inv)
        /\ \A n \in Names : i \in Range(body[n].inv) =>
             \E j \in 1..Len(body[n].inv) : body[n].inv[j] = i /\ j \in 1..MaxCarryItems
    <3>1. ASSUME NEW n \in Names
          PROVE  /\ \A j \in 1..Len(body[n].inv) : body[n].inv[j] = i => i \in Range(body[n].inv)
                 /\ i \in Range(body[n].inv) =>
                      \E j \in 1..Len(body[n].inv) : body[n].inv[j] = i /\ j \in 1..MaxCarryItems
      <4> DEFINE s == body[n].inv
      <4>1. s \in Seq(Items) /\ Len(s) <= MaxCarryItems /\ MaxCarryItems \in Nat
        BY <2>2, InventoryAssumption
      <4> HIDE DEF s
      <4>2. /\ DOMAIN s = 1..Len(s) /\ Len(s) \in Nat
            /\ \A j \in 1..Len(s) : j \in 1..MaxCarryItems
        BY <4>1
      <4>3. /\ \A j \in 1..Len(s) : s[j] = i => i \in Range(s)
            /\ i \in Range(s) => \E j \in 1..Len(s) : s[j] = i /\ j \in 1..MaxCarryItems
        BY <4>2 DEF Range
      <4> QED BY <4>3 DEF s
    <3> QED BY <3>1
  <2>7. \A n \in Names : i \in ItemsOf(body[n]) <=>
           i \in Range(body[n].inv) \/ \E s \in Slots : body[n].equip[s] = i
    BY <2>2
  <2>8. CASE kind[i] = NULL
    <3>1. PlacesOf(i) = {}
      BY <2>1, <2>3, <2>5, <2>6, <2>7, <2>8
    <3> QED BY <2>8, <3>1
  <2>9. CASE \E r \in Rooms : i \in Range(floor[r])
    <3>1. PICK r \in Rooms : i \in Range(floor[r])
      BY <2>9
    <3>2. PICK j \in 1..Len(floor[r]) : floor[r][j] = i /\ j \in 1..MaxItemsInRoom
      BY <2>5, <3>1
    <3> DEFINE p == <<"floor", <<r, j>>>>
    <3>3. p \in PlacesOf(i)
      BY <2>4, <3>2
    <3>4. ASSUME NEW q \in PlacesOf(i) PROVE q = p
      <4>1. \A n \in Names : i \notin ItemsOf(body[n])
        BY <2>1, <3>1
      <4>2. PICK r2 \in Rooms, j2 \in 1..MaxItemsInRoom :
              q = <<"floor", <<r2, j2>>>> /\ j2 \in 1..Len(floor[r2]) /\ floor[r2][j2] = i
        BY <2>3, <2>6, <2>7, <4>1
      <4>3. r2 = r
        BY <2>1, <2>5, <3>1, <4>2
      <4>4. j2 = j
        BY <2>1, <3>2, <4>2, <4>3 DEF IsInjective
      <4> QED BY <4>2, <4>3, <4>4
    <3>5. kind[i] # NULL
      BY <2>1, <2>9
    <3> HIDE DEF p
    <3> QED BY <3>3, <3>4, <3>5
  <2>10. CASE \E n \in Names : i \in Range(body[n].inv)
    <3>1. PICK n \in Names : i \in Range(body[n].inv)
      BY <2>10
    <3>2. PICK j \in 1..Len(body[n].inv) : body[n].inv[j] = i /\ j \in 1..MaxCarryItems
      BY <2>6, <3>1
    <3> DEFINE p == <<"bag", <<n, j>>>>
    <3>3. p \in PlacesOf(i)
      BY <2>4, <3>2
    <3>4. i \in ItemsOf(body[n])
      BY <2>7, <3>1
    <3>5. ASSUME NEW q \in PlacesOf(i) PROVE q = p
      <4>1. \A r \in Rooms : i \notin Range(floor[r])
        BY <2>1, <3>4
      <4>2. \A m \in Names, s \in Slots : body[m].equip[s] # i
        BY <2>1, <2>2, <2>7, <3>1, <3>4
      <4>3. PICK m \in Names, j2 \in 1..MaxCarryItems :
              q = <<"bag", <<m, j2>>>> /\ j2 \in 1..Len(body[m].inv) /\ body[m].inv[j2] = i
        BY <2>3, <2>5, <4>1, <4>2
      <4>4. m = n
        BY <2>1, <2>6, <2>7, <3>4, <4>3
      <4>5. j2 = j
        BY <2>2, <3>2, <4>3, <4>4 DEF IsInjective
      <4> QED BY <4>3, <4>4, <4>5
    <3>6. kind[i] # NULL
      BY <2>1, <3>4
    <3> HIDE DEF p
    <3> QED BY <3>3, <3>5, <3>6
  <2>11. CASE \E n \in Names, s \in Slots : body[n].equip[s] = i
    <3>1. PICK n \in Names, s \in Slots : body[n].equip[s] = i
      BY <2>11
    <3> DEFINE p == <<"slot", <<n, s>>>>
    <3>2. p \in PlacesOf(i)
      BY <2>4, <3>1
    <3>3. i \in ItemsOf(body[n])
      BY <2>7, <3>1
    <3>4. ASSUME NEW q \in PlacesOf(i) PROVE q = p
      <4>1. \A r \in Rooms : i \notin Range(floor[r])
        BY <2>1, <3>3
      <4>2. \A m \in Names : i \notin Range(body[m].inv)
        BY <2>1, <2>2, <2>7, <3>1, <3>3
      <4>3. PICK m \in Names, t \in Slots : q = <<"slot", <<m, t>>>> /\ body[m].equip[t] = i
        BY <2>3, <2>5, <2>6, <4>1, <4>2
      <4>4. m = n
        BY <2>1, <2>7, <3>3, <4>3
      <4>5. t = s
        BY <2>2, <3>1, <4>3, <4>4
      <4> QED BY <4>3, <4>4, <4>5
    <3>5. kind[i] # NULL
      BY <2>1, <3>3
    <3> HIDE DEF p
    <3> QED BY <3>2, <3>4, <3>5
  <2> QED BY <2>1, <2>7, <2>8, <2>9, <2>10, <2>11
<1> QED BY <1>1, SpecInv, PTL

\* The counters of a player are the number and the disk space of what it
\* carries, after any commands, deaths and sessions.
THEOREM CountersAreRight == Spec => []CarryAccounted
<1>1. Inv => CarryAccounted
  <2> SUFFICES ASSUME Inv, NEW n \in Names
               PROVE  /\ body[n].count = Len(body[n].inv)
                      /\ body[n].disk = SumOf(Sizes(body[n].inv), Len(body[n].inv))
    BY DEF CarryAccounted
  <2>1. Sound(body[n], kind)
    BY BodyIn
  <2>2. DOMAIN body[n].inv = 1..Len(body[n].inv)
    BY <2>1, SoundFields
  <2>3. Sizes(body[n].inv) = SizesIn(body[n].inv, kind)
    BY <2>2 DEF Sizes, SizesIn
  <2> QED BY <2>1, <2>3 DEF Sound
<1> QED BY <1>1, SpecInv, PTL

\* The maximum of a player is its own plus the modifiers of what is installed,
\* modulo the width of the field, however often it wrapped around.
THEOREM MaximaAreRight == Spec => []MaxAccounted
<1>1. Inv => MaxAccounted
  <2> SUFFICES ASSUME Inv, NEW n \in Names
               PROVE  body[n].maxHP = (BaseHP + SumOf(Mods(body[n].equip), NumSlots)) % Wrap
    BY DEF MaxAccounted
  <2>1. Sound(body[n], kind)
    BY BodyIn
  <2>2. Mods(body[n].equip) = ModsIn(body[n].equip, kind)
    BY DEF Mods, ModsIn
  <2> QED BY <2>1, <2>2 DEF Sound
<1> QED BY <1>1, SpecInv, PTL

\* Nobody is above its maximum, in the game or in the login cache.
THEOREM HPStaysBounded == Spec => []HPBounded
<1>1. Inv => HPBounded
  BY DEF Inv, Bodies, Streams, SoundStream, HPBounded
<1> QED BY <1>1, SpecInv, PTL

-----------------------------------------------------------------------------
(* Counting the items of a kind *)

\* What Total counts: objects, and places in streams.
Places == Names \X (1..(NumSlots + MaxCarryItems))

Objects(k) == {i \in Items : kind[i] = k}

LEMMA TotalIs == \A k : Total(k) = Cardinality(Objects(k)) + Cardinality(InStreams(k))
                        /\ Objects(k) \in SUBSET Items /\ InStreams(k) \in SUBSET Places
BY DEF Total, Objects, InStreams, Places

LEMMA TotalIsPrimed ==
  (\A k : Total(k) = Cardinality(Objects(k)) + Cardinality(InStreams(k))
          /\ Objects(k) \in SUBSET Items /\ InStreams(k) \in SUBSET Places)'
BY TotalIs, PTL

LEMMA Counted ==
  /\ \A S \in SUBSET Items : IsFiniteSet(S) /\ Cardinality(S) \in Nat
  /\ \A S \in SUBSET Places : IsFiniteSet(S) /\ Cardinality(S) \in Nat
<1>1. IsFiniteSet(Items) /\ IsFiniteSet(Names) /\ NumSlots + MaxCarryItems \in Int
  BY InventoryAssumption
<1>2. IsFiniteSet(1..(NumSlots + MaxCarryItems))
  BY <1>1, FS_Interval
<1>3. IsFiniteSet(Places)
  BY <1>1, <1>2, FS_Product DEF Places
<1>4. ASSUME NEW S \in SUBSET Items PROVE IsFiniteSet(S) /\ Cardinality(S) \in Nat
  BY <1>1, FS_Subset, FS_CardinalityType
<1>5. ASSUME NEW S \in SUBSET Places PROVE IsFiniteSet(S) /\ Cardinality(S) \in Nat
  BY <1>3, FS_Subset, FS_CardinalityType
<1> QED BY <1>4, <1>5

LEMMA UnionCount ==
  ASSUME NEW S, NEW T, IsFiniteSet(S), IsFiniteSet(T)
  PROVE  Cardinality(S \cup T) <= Cardinality(S) + Cardinality(T)
<1>1. Cardinality(S \cup T) = Cardinality(S) + Cardinality(T) - Cardinality(S \cap T)
  BY FS_Union
<1>2. S \cap T \in SUBSET S
  OBVIOUS
<1>3. IsFiniteSet(S \cap T)
  BY <1>2, FS_Subset
<1>4. Cardinality(S) \in Nat /\ Cardinality(T) \in Nat /\ Cardinality(S \cap T) \in Nat
  BY <1>3, FS_CardinalityType
<1> QED BY <1>1, <1>4

\* The objects Q are deleted, and the places N of a stream take their kinds.
LEMMA ObjectsToStream ==
  ASSUME NEW K \in SUBSET Items, NEW S \in SUBSET Places, NEW Q \in SUBSET K,
         NEW N \in SUBSET Places, NEW f \in Injection(N, Q)
  PROVE  Cardinality(K \ Q) + Cardinality(S \cup N) <= Cardinality(K) + Cardinality(S)
<1>1. /\ IsFiniteSet(K) /\ IsFiniteSet(S) /\ IsFiniteSet(Q) /\ IsFiniteSet(N)
      /\ Cardinality(K) \in Nat /\ Cardinality(S) \in Nat /\ Cardinality(Q) \in Nat
      /\ Cardinality(N) \in Nat /\ Cardinality(K \ Q) \in Nat /\ Cardinality(S \cup N) \in Nat
  BY Counted
<1>2. Cardinality(S \cup N) <= Cardinality(S) + Cardinality(N)
  BY <1>1, UnionCount
<1>3. Cardinality(N) <= Cardinality(Q)
  BY <1>1, FS_Injection
<1>4. Cardinality(K \ Q) = Cardinality(K) - Cardinality(Q)
  <2>1. K \cap Q = Q
    OBVIOUS
  <2>2. Cardinality(K \ Q) = Cardinality(K) - Cardinality(K \cap Q)
    BY <1>1, FS_Difference
  <2> QED BY <2>1, <2>2
<1> QED BY <1>1, <1>2, <1>3, <1>4

\* Objects are made for the places N of a stream, which is read.
LEMMA StreamToObjects ==
  ASSUME NEW K \in SUBSET Items, NEW S \in SUBSET Places, NEW N \in SUBSET S,
         NEW Q \in SUBSET Items, NEW f \in Surjection(N, Q)
  PROVE  Cardinality(K \cup Q) + Cardinality(S \ N) <= Cardinality(K) + Cardinality(S)
<1>1. /\ IsFiniteSet(K) /\ IsFiniteSet(S) /\ IsFiniteSet(Q) /\ IsFiniteSet(N)
      /\ Cardinality(K) \in Nat /\ Cardinality(S) \in Nat /\ Cardinality(Q) \in Nat
      /\ Cardinality(N) \in Nat /\ Cardinality(K \cup Q) \in Nat /\ Cardinality(S \ N) \in Nat
  BY Counted
<1>2. Cardinality(K \cup Q) <= Cardinality(K) + Cardinality(Q)
  BY <1>1, UnionCount
<1>3. Cardinality(Q) <= Cardinality(N)
  BY <1>1, FS_Surjection
<1>4. Cardinality(S \ N) = Cardinality(S) - Cardinality(N)
  <2>1. S \cap N = N
    OBVIOUS
  <2>2. Cardinality(S \ N) = Cardinality(S) - Cardinality(S \cap N)
    BY <1>1, FS_Difference
  <2> QED BY <2>1, <2>2
<1> QED BY <1>1, <1>2, <1>3, <1>4

\* There are not more objects and not more places.
LEMMA NotMore ==
  ASSUME NEW K \in SUBSET Items, NEW S \in SUBSET Places, NEW L \in SUBSET K, NEW T \in SUBSET S
  PROVE  Cardinality(L) + Cardinality(T) <= Cardinality(K) + Cardinality(S)
<1>1. /\ IsFiniteSet(K) /\ IsFiniteSet(S)
      /\ Cardinality(K) \in Nat /\ Cardinality(S) \in Nat /\ Cardinality(L) \in Nat
      /\ Cardinality(T) \in Nat
  BY Counted
<1>2. Cardinality(L) <= Cardinality(K) /\ Cardinality(T) <= Cardinality(S)
  BY <1>1, FS_Subset
<1> QED BY <1>1, <1>2

NoMore == \A k \in Kinds : Total(k)' <= Total(k)

\* What a step needs that reads and writes no stream of a player who is not in the game.
Quiet ==
  /\ \A i \in Items : kind'[i] = kind[i] \/ kind'[i] = NULL
  /\ \A n \in Names : /\ at'[n] = NULL <=> at[n] = NULL
                      /\ at[n] = NULL => saved'[n] = saved[n]

LEMMA QuietNoMore == Quiet => NoMore
<1> SUFFICES ASSUME Quiet, NEW k \in Kinds PROVE Total(k)' <= Total(k)
  BY DEF NoMore
<1>1. Objects(k)' \in SUBSET Objects(k)
  BY InventoryAssumption DEF Quiet, Objects
<1>2. InStreams(k)' \in SUBSET InStreams(k)
  BY DEF Quiet, InStreams
<1>3. /\ Total(k) = Cardinality(Objects(k)) + Cardinality(InStreams(k))
      /\ Objects(k) \in SUBSET Items /\ InStreams(k) \in SUBSET Places
      /\ Total(k)' = Cardinality(Objects(k)') + Cardinality(InStreams(k)')
  BY TotalIs, TotalIsPrimed
<1> QED BY <1>1, <1>2, <1>3, NotMore

-----------------------------------------------------------------------------
(* Streams of players who leave and return *)

\* The places of kind k in the stream st of player n.
SavedPlaces(n, st, k) == {p \in {n} \X (DOMAIN KindsOf(st)) : KindsOf(st)[p[2]] = k}

\* A stream has no more places than a player may have.
LEMMA PlacesFit ==
  ASSUME NEW st, SoundStream(st), NEW n \in Names, NEW k
  PROVE  SavedPlaces(n, st, k) \in SUBSET Places
<1>1. /\ \A p \in DOMAIN KindsOf(st) : p \in Slots \/ \E j \in 1..Len(st.inv) : p = NumSlots + j
      /\ Len(st.inv) \in 0..MaxCarryItems /\ Len(st.inv) \in Nat
  BY PlacesOfStream, HoldingFields DEF SoundStream
<1>2. NumSlots \in Nat /\ MaxCarryItems \in Nat
  BY InventoryAssumption
<1>3. ASSUME NEW p \in DOMAIN KindsOf(st) PROVE p \in 1..(NumSlots + MaxCarryItems)
  <2>1. CASE p \in Slots
    BY <1>2, <2>1 DEF Slots
  <2>2. CASE \E j \in 1..Len(st.inv) : p = NumSlots + j
    BY <1>1, <1>2, <2>2
  <2> QED BY <1>1, <2>1, <2>2
<1> QED BY <1>3 DEF SavedPlaces, Places

\* WritePlayerData writes each item at one place.
LEMMA StreamPlaces ==
  ASSUME NEW b, Sound(b, kind), b.hp <= b.maxHP, NEW n, NEW k
  PROVE  Injection(SavedPlaces(n, Stream(b), k), {i \in ItemsOf(b) : kind[i] = k}) # {}
<1> DEFINE st == Stream(b)
           Q == {i \in ItemsOf(b) : kind[i] = k}
           N == SavedPlaces(n, st, k)
           f == [p \in N |-> KindAt(b, p[2])]
<1>1. /\ b.inv \in Seq(Items) /\ Len(b.inv) \in Nat /\ IsInjective(b.inv)
      /\ DOMAIN b.inv = 1..Len(b.inv)
      /\ b.equip \in [Slots -> Items \cup {NULL}]
      /\ Range(b.inv) \cup {i \in Items : \E s \in Slots : b.equip[s] = i} = ItemsOf(b)
      /\ NULL \notin Items
      /\ \A s, t \in Slots : b.equip[s] = b.equip[t] /\ b.equip[s] # NULL => s = t
      /\ \A s \in Slots : b.equip[s] \notin Range(b.inv)
  BY SoundFields DEF Sound
<1>2. /\ st.inv = [j \in DOMAIN b.inv |-> kind[b.inv[j]]]
      /\ st.equip = [s \in Slots |-> IF b.equip[s] = NULL THEN NULL ELSE kind[b.equip[s]]]
  <2>1. b \in Holding(Items)
    BY DEF Sound
  <2> QED BY <2>1 DEF Holding, Stream
<1>3. Len(st.inv) = Len(b.inv)
  BY <1>1, <1>2
<1>4. NumSlots \in Nat /\ NULL \notin Kinds
  BY InventoryAssumption
<1>5. ASSUME NEW p \in DOMAIN KindsOf(st)
      PROVE  /\ KindsOf(st)[p] = kind[KindAt(b, p)]
             /\ p \in Slots => KindAt(b, p) = b.equip[p] /\ KindAt(b, p) # NULL
             /\ p \notin Slots => p - NumSlots \in 1..Len(b.inv) /\ KindAt(b, p) = b.inv[p - NumSlots]
                                  /\ p \in Int
             /\ KindAt(b, p) \in ItemsOf(b)
  <2>1. p \in 1..(NumSlots + Len(st.inv)) /\ KindAt(st, p) # NULL /\ KindsOf(st)[p] = KindAt(st, p)
    BY DEF KindsOf
  <2>2. CASE p \in Slots
    <3>1. KindAt(st, p) = st.equip[p] /\ KindAt(b, p) = b.equip[p]
      BY <2>2 DEF KindAt
    <3> QED BY <1>1, <1>2, <2>1, <2>2, <3>1
  <2>3. CASE p \notin Slots
    <3>1. KindAt(st, p) = st.inv[p - NumSlots] /\ KindAt(b, p) = b.inv[p - NumSlots]
      BY <2>3 DEF KindAt
    <3>2. p - NumSlots \in 1..Len(b.inv)
      BY <1>1, <1>3, <1>4, <2>1, <2>3 DEF Slots
    <3>3. b.inv[p - NumSlots] \in Range(b.inv)
      BY <1>1, <3>2 DEF Range
    <3> QED BY <1>1, <1>2, <2>1, <2>3, <3>1, <3>2, <3>3
  <2> QED BY <2>2, <2>3
<1>6. ASSUME NEW p \in DOMAIN KindsOf(st), NEW q \in DOMAIN KindsOf(st), KindAt(b, p) = KindAt(b, q)
      PROVE  p = q
  <2>1. CASE p \in Slots /\ q \in Slots
    BY <1>1, <1>5, <1>6, <2>1
  <2>2. CASE p \in Slots /\ q \notin Slots
    BY <1>1, <1>5, <1>6, <2>2 DEF Range
  <2>3. CASE p \notin Slots /\ q \in Slots
    BY <1>1, <1>5, <1>6, <2>3 DEF Range
  <2>4. CASE p \notin Slots /\ q \notin Slots
    <3>1. p - NumSlots = q - NumSlots
      BY <1>1, <1>5, <1>6, <2>4 DEF IsInjective
    <3> QED BY <1>4, <1>5, <2>4, <3>1
  <2> QED BY <2>1, <2>2, <2>3, <2>4
<1>7. ASSUME NEW p \in N
      PROVE  p[1] = n /\ p[2] \in DOMAIN KindsOf(st) /\ KindsOf(st)[p[2]] = k /\ p = <<p[1], p[2]>>
  BY DEF SavedPlaces
<1> HIDE DEF st, N
<1>8. f \in [N -> Q]
  BY <1>5, <1>7
<1>9. \A p, q \in N : f[p] = f[q] => p = q
  BY <1>6, <1>7
<1> HIDE DEF f, Q
<1>10. f \in Injection(N, Q)
  BY <1>8, <1>9 DEF Injection, IsInjective
<1> QED BY <1>10 DEF N, Q, st

LEMMA ExitNoMore == ASSUME Inv, NEW n \in Names, DoExit(n) PROVE NoMore
<1> DEFINE x == AfterExit(n)
           b == x.body
           D == ItemsOf(b) \cup x.room.gone
           st == Stream(b)
<1>1. /\ at[n] # NULL /\ saved' = [saved EXCEPT ![n] = st]
      /\ kind' = Deleted(D) /\ at' = [at EXCEPT ![n] = NULL]
  BY DEF DoExit
<1>2. Sound(b, kind) /\ SoundStream(st) /\ b.hp <= b.maxHP
  <2>1. x \in DropStates(ItemsOf(body[n]) \cup Range(floor[at[n]])) /\ SoundStream(st)
    BY <1>1, AfterExitOf
  <2>2. Sound(b, kind)
    BY <2>1 DEF DropStates
  <2>3. b.hp <= b.maxHP
    <3>1. /\ at[n] \in Rooms /\ Sound(body[n], kind)
      BY <1>1, InRoom, BodyIn
    <3>2. GoodRoom(Room(at[n])) /\ ItemsOf(body[n]) \cap RoomItems(Room(at[n])) = {}
      BY <3>1, RoomIn
    <3> QED BY <3>1, <3>2, AfterExitIn
  <2> QED BY <2>1, <2>2, <2>3
<1> HIDE DEF x, b, st
<1>3. /\ ItemsOf(b) \subseteq Items
      /\ \A i \in Items : kind'[i] = IF i \in D THEN NULL ELSE kind[i]
      /\ NULL \notin Kinds
      /\ \A m \in Names : m # n => at'[m] = at[m] /\ saved'[m] = saved[m]
      /\ saved'[n] = st
  <2>1. /\ kind \in [Items -> Kinds \cup {NULL}] /\ NULL \notin Kinds
        /\ at \in [Names -> Rooms \cup {NULL}] /\ saved \in [Names -> Holding(Kinds) \cup {NULL}]
    BY InvFacts
  <2>2. ItemsOf(b) \subseteq Items
    BY <1>2, SoundFields
  <2> HIDE DEF D
  <2>3. \A i \in Items : kind'[i] = IF i \in D THEN NULL ELSE kind[i]
    BY <1>1, <2>1, DeletedIs
  <2> QED BY <1>1, <2>1, <2>2, <2>3
<1> SUFFICES ASSUME NEW k \in Kinds PROVE Total(k)' <= Total(k)
  BY DEF NoMore
<1> DEFINE Q == {i \in ItemsOf(b) : kind[i] = k}
           N == SavedPlaces(n, st, k)
           K == Objects(k)
           S == InStreams(k)
           L == Objects(k)'
           T == InStreams(k)'
<1>4. /\ Total(k) = Cardinality(K) + Cardinality(S) /\ K \in SUBSET Items /\ S \in SUBSET Places
      /\ Total(k)' = Cardinality(L) + Cardinality(T)
  BY TotalIs, TotalIsPrimed
<1>5. Q \in SUBSET K
  BY <1>3 DEF Objects
<1>6. L \in SUBSET (K \ Q)
  BY <1>3 DEF Objects
<1>7. T \in SUBSET (S \cup N)
  <2> SUFFICES ASSUME NEW p \in T, p \notin S PROVE p \in N
    OBVIOUS
  <2>1. /\ p \in Names \X (1..(NumSlots + MaxCarryItems)) /\ at'[p[1]] = NULL
        /\ saved'[p[1]] # NULL /\ p[2] \in DOMAIN KindsOf(saved'[p[1]])
        /\ KindsOf(saved'[p[1]])[p[2]] = k
    BY DEF InStreams
  <2>2. p[1] = n
    BY <1>3, <2>1 DEF InStreams
  <2> QED BY <1>3, <2>1, <2>2 DEF SavedPlaces
<1>8. N \in SUBSET Places
  BY <1>2, PlacesFit
<1>9. PICK f : f \in Injection(N, Q)
  BY <1>2, StreamPlaces DEF st
<1> HIDE DEF Q, N, K, S, L, T
<1>10. Cardinality(L) + Cardinality(T) <= Cardinality(K \ Q) + Cardinality(S \cup N)
  <2>1. K \ Q \in SUBSET Items /\ S \cup N \in SUBSET Places
    BY <1>4, <1>8
  <2> QED BY <1>6, <1>7, <2>1, NotMore
<1>11. Cardinality(K \ Q) + Cardinality(S \cup N) <= Cardinality(K) + Cardinality(S)
  BY <1>4, <1>5, <1>8, <1>9, ObjectsToStream
<1>12. /\ Cardinality(K) \in Nat /\ Cardinality(S) \in Nat /\ Cardinality(L) \in Nat
       /\ Cardinality(T) \in Nat /\ Cardinality(K \ Q) \in Nat /\ Cardinality(S \cup N) \in Nat
  <2>1. /\ K \ Q \in SUBSET Items /\ S \cup N \in SUBSET Places /\ L \in SUBSET Items /\ T \in SUBSET Places
    BY <1>4, <1>6, <1>7, <1>8
  <2> QED BY <1>4, <2>1, Counted
<1> QED BY <1>4, <1>10, <1>11, <1>12

LEMMA AuthNoMore == ASSUME Inv, NEW n \in Names, NWCAuth(n) PROVE NoMore
<1> DEFINE st == IF saved[n] = NULL THEN Empty ELSE saved[n]
           ks == KindsOf(st)
           P == DOMAIN ks
           fs == Fresh(P)
<1>1. /\ at[n] = NULL /\ HasFresh(P) /\ kind' = KindsAfter(fs, ks, {})
      /\ at' = [at EXCEPT ![n] = InitialRoom] /\ saved' = [saved EXCEPT ![n] = st]
  BY DEF NWCAuth
<1>2. SoundStream(st)
  BY EmptySound, InvFacts
<1>3. IsFiniteSet(P) /\ ks \in [P -> Kinds]
  BY <1>2, PlacesOfStream
<1>4. saved[n] = NULL => P = {}
  <2> SUFFICES ASSUME saved[n] = NULL PROVE P = {}
    OBVIOUS
  <2>1. st.equip = [s \in Slots |-> NULL] /\ Len(st.inv) = 0
    BY DEF Empty
  <2>2. /\ \A s \in Slots : s \in P <=> st.equip[s] # NULL
        /\ \A p \in P : p \in Slots \/ \E j \in 1..Len(st.inv) : p = NumSlots + j
    BY <1>2, PlacesOfStream
  <2> HIDE DEF st, P
  <2>3. \A j \in 1..Len(st.inv) : FALSE
    BY <2>1
  <2> QED BY <2>1, <2>2, <2>3
<1>5. saved[n] # NULL => st = saved[n]
  OBVIOUS
<1> HIDE DEF st, ks, P
<1>6. /\ fs \in [P -> Items] /\ IsInjective(fs) /\ DOMAIN fs = P
  BY <1>1, <1>3, FreshIs
<1> HIDE DEF fs
<1>7. /\ \A p \in P : kind'[fs[p]] = ks[p]
      /\ \A i \in Items : i \notin Range(fs) => kind'[i] = kind[i]
  <2>1. kind \in [Items -> Kinds \cup {NULL}]
    BY InvFacts
  <2> DEFINE D == {}
  <2>2. kind' = KindsAfter(fs, ks, D) /\ \A i : i \notin D
    BY <1>1
  <2> HIDE DEF D
  <2> QED BY <1>3, <1>6, <2>1, <2>2, KindsAfterIs
<1>8. /\ at'[n] = InitialRoom /\ InitialRoom # NULL
      /\ \A m \in Names : m # n => at'[m] = at[m] /\ saved'[m] = saved[m]
  BY <1>1, InvFacts, InventoryAssumption
<1> SUFFICES ASSUME NEW k \in Kinds PROVE Total(k)' <= Total(k)
  BY DEF NoMore
<1> DEFINE N == SavedPlaces(n, st, k)
           Q == {fs[p] : p \in {q \in P : ks[q] = k}}
           f == [p \in N |-> fs[p[2]]]
           K == Objects(k)
           S == InStreams(k)
           L == Objects(k)'
           T == InStreams(k)'
<1>9. /\ Total(k) = Cardinality(K) + Cardinality(S) /\ K \in SUBSET Items /\ S \in SUBSET Places
      /\ Total(k)' = Cardinality(L) + Cardinality(T)
  BY TotalIs, TotalIsPrimed
<1>10. Q \in SUBSET Items
  BY <1>6
<1>11. N \in SUBSET S
  <2> SUFFICES ASSUME NEW p \in N PROVE p \in S
    OBVIOUS
  <2>1. /\ p[1] = n /\ p[2] \in P /\ ks[p[2]] = k
    BY DEF SavedPlaces, P, ks
  <2>2. saved[n] # NULL
    BY <1>4, <2>1
  <2>3. p \in Places
    BY <1>2, PlacesFit
  <2> QED BY <1>1, <1>5, <2>1, <2>2, <2>3 DEF InStreams, Places, P, ks
<1>12. T \in SUBSET (S \ N)
  <2> SUFFICES ASSUME NEW p \in T PROVE p \in S /\ p \notin N
    OBVIOUS
  <2>1. /\ p \in Names \X (1..(NumSlots + MaxCarryItems)) /\ at'[p[1]] = NULL
        /\ saved'[p[1]] # NULL /\ p[2] \in DOMAIN KindsOf(saved'[p[1]])
        /\ KindsOf(saved'[p[1]])[p[2]] = k
    BY DEF InStreams
  <2>2. p[1] # n
    BY <1>8, <2>1
  <2> QED BY <1>8, <2>1, <2>2 DEF InStreams, SavedPlaces
<1>13. L \in SUBSET (K \cup Q)
  <2> SUFFICES ASSUME NEW i \in Items, kind'[i] = k PROVE kind[i] = k \/ i \in Q
    BY DEF Objects
  <2>1. CASE i \in Range(fs)
    <3>1. PICK p \in P : fs[p] = i
      BY <1>6, <2>1 DEF Range
    <3> QED BY <1>7, <3>1
  <2>2. CASE i \notin Range(fs)
    BY <1>7, <2>2
  <2> QED BY <2>1, <2>2
<1>14. f \in Surjection(N, Q)
  <2>1. ASSUME NEW p \in N PROVE p[2] \in P /\ ks[p[2]] = k
    BY DEF SavedPlaces, P, ks
  <2>2. ASSUME NEW q \in P, ks[q] = k PROVE <<n, q>> \in N
    BY <2>2 DEF SavedPlaces, P, ks
  <2> HIDE DEF N
  <2>3. f \in [N -> Q]
    BY <2>1
  <2>4. ASSUME NEW i \in Q PROVE \E p \in N : f[p] = i
    <3>1. PICK q \in P : ks[q] = k /\ fs[q] = i
      OBVIOUS
    <3>2. <<n, q>> \in N /\ f[<<n, q>>] = i
      BY <2>2, <3>1
    <3> QED BY <3>2
  <2> HIDE DEF Q, f
  <2> QED BY <2>3, <2>4 DEF Surjection
<1> HIDE DEF Q, N, K, S, L, T, f
<1>15. Cardinality(L) + Cardinality(T) <= Cardinality(K \cup Q) + Cardinality(S \ N)
  <2>1. K \cup Q \in SUBSET Items /\ S \ N \in SUBSET Places
    BY <1>9, <1>10
  <2> QED BY <1>12, <1>13, <2>1, NotMore
<1>16. Cardinality(K \cup Q) + Cardinality(S \ N) <= Cardinality(K) + Cardinality(S)
  BY <1>9, <1>10, <1>11, <1>14, StreamToObjects
<1>17. /\ Cardinality(K) \in Nat /\ Cardinality(S) \in Nat /\ Cardinality(L) \in Nat
       /\ Cardinality(T) \in Nat /\ Cardinality(K \cup Q) \in Nat /\ Cardinality(S \ N) \in Nat
  <2>1. /\ K \cup Q \in SUBSET Items /\ S \ N \in SUBSET Places /\ L \in SUBSET Items /\ T \in SUBSET Places
    BY <1>9, <1>10, <1>12, <1>13
  <2> QED BY <1>9, <2>1, Counted
<1> QED BY <1>9, <1>15, <1>16, <1>17

\* An action of one player in the game who stays there.
LEMMA StaysQuiet ==
  ASSUME Inv, NEW n \in Names, at[n] # NULL, NEW D,
         kind' = Deleted(D) \/ kind' = kind,
         at' = at \/ \E r \in Rooms : at' = [at EXCEPT ![n] = r],
         saved' = saved \/ \E st : saved' = [saved EXCEPT ![n] = st]
  PROVE  NoMore
<1>1. /\ kind \in [Items -> Kinds \cup {NULL}] /\ NULL \notin Rooms
      /\ at \in [Names -> Rooms \cup {NULL}] /\ saved \in [Names -> Holding(Kinds) \cup {NULL}]
  BY InvFacts
<1>2. \A i \in Items : kind'[i] = kind[i] \/ kind'[i] = NULL
  BY <1>1, DeletedIs
<1>3. \A m \in Names : at'[m] = NULL <=> at[m] = NULL
  BY <1>1
<1>4. \A m \in Names : at[m] = NULL => saved'[m] = saved[m]
  BY <1>1
<1> QED BY <1>2, <1>3, <1>4, QuietNoMore DEF Quiet

LEMMA CommandNoMore == ASSUME Inv, Command PROVE NoMore
<1>1. PICK n \in Names :
        \/ \E i \in Items :
             \/ NWCGetItem(n, i)
             \/ NWCDropItem(n, i)
             \/ \E s \in Slots : NWCEquipItem(n, i, s)
             \/ NWCPlayerFinger(n, i)
             \/ DoScriptDelete(n, i)
        \/ \E s \in Slots : NWCUnequipItem(n, s)
        \/ \E r \in Rooms : Walk(n, r)
  BY DEF Command
<1>2. ASSUME NEW i \in Items, NWCGetItem(n, i) PROVE NoMore
  BY <1>2, StaysQuiet DEF NWCGetItem, Saves
<1>3. ASSUME NEW i \in Items, NWCDropItem(n, i) PROVE NoMore
  BY <1>3, StaysQuiet DEF NWCDropItem, Saves
<1>4. ASSUME NEW i \in Items, NEW s \in Slots, NWCEquipItem(n, i, s) PROVE NoMore
  BY <1>4, StaysQuiet DEF NWCEquipItem, Saves
<1>5. ASSUME NEW i \in Items, NWCPlayerFinger(n, i) PROVE NoMore
  BY <1>5, StaysQuiet DEF NWCPlayerFinger, Saves
<1>6. ASSUME NEW i \in Items, DoScriptDelete(n, i) PROVE NoMore
  BY <1>6, StaysQuiet DEF DoScriptDelete
<1>7. ASSUME NEW s \in Slots, NWCUnequipItem(n, s) PROVE NoMore
  BY <1>7, StaysQuiet DEF NWCUnequipItem, Saves
<1>8. ASSUME NEW r \in Rooms, Walk(n, r) PROVE NoMore
  BY <1>8, StaysQuiet DEF Walk
<1> QED BY <1>1, <1>2, <1>3, <1>4, <1>5, <1>6, <1>7, <1>8

\* In a fight only a program that dies makes items.
LEMMA FightNoMore ==
  ASSUME Inv, Fight
  PROVE  \/ NoMore
         \/ \E r \in Rooms, m \in 1..MaxNPCItems : \E ks \in [1..m -> Kinds] : NPCDrops(r, ks)
<1>1. ASSUME NEW n \in Names, NEW r \in Rooms, Kill(n, r) PROVE NoMore
  BY <1>1, StaysQuiet DEF Kill, Saves
<1>2. ASSUME NEW n \in Names, NEW a \in 1..(Wrap - 1),
             DoHackDamage(n, a) \/ DoScriptDDOS(n, a) \/ DoScriptRepair(n, a) \/ RegenPlayer(n, a)
      PROVE  NoMore
  <2>1. at[n] # NULL /\ kind' = kind /\ at' = at /\ saved' = saved
    BY <1>2 DEF DoHackDamage, DoScriptDDOS, DoScriptRepair, RegenPlayer, SetHP
  <2> QED BY <2>1, StaysQuiet
<1> QED BY <1>1, <1>2 DEF Fight

\* Items come from programs and from logins that replace a session, and from
\* nowhere else, for any number of players, rooms, kinds and item objects.
THEOREM OnlyProgramsBringItems == Spec => ItemsConserved
<1> DEFINE made == \E r \in Rooms, m \in 1..MaxNPCItems : \E ks \in [1..m -> Kinds] : NPCDrops(r, ks)
           replaced == \E n \in Names : NWCAuthReplaces(n)
<1>1. Inv /\ [Next]_vars => NoMore \/ replaced \/ made
  <2> SUFFICES ASSUME Inv, [Next]_vars PROVE NoMore \/ replaced \/ made
    OBVIOUS
  <2>1. CASE Session
    BY <2>1, AuthNoMore, ExitNoMore DEF Session
  <2>2. CASE Command
    BY <2>2, CommandNoMore
  <2>3. CASE Fight
    BY <2>3, FightNoMore
  <2>4. CASE UNCHANGED vars
    BY <2>4, QuietNoMore DEF vars, Quiet
  <2> QED BY <2>1, <2>2, <2>3, <2>4 DEF Next
<1>2. Inv /\ [Next]_vars =>
        [\/ \A k \in Kinds : Total(k)' <= Total(k)
         \/ \E n \in Names : NWCAuthReplaces(n)
         \/ \E r \in Rooms, m \in 1..MaxNPCItems : \E ks \in [1..m -> Kinds] : NPCDrops(r, ks)]_vars
  BY <1>1 DEF NoMore
<1> QED BY <1>2, SpecInv, PTL DEF Spec, ItemsConserved

=============================================================================
