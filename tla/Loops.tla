--------------------------------- MODULE Loops ---------------------------------
(***************************************************************************)
(* Facts about natural numbers that the proofs about loops rest on: the    *)
(* induction over the passes of a loop, the existence of the function that *)
(* a recursive definition over the passes names, and remainders.           *)
(*                                                                         *)
(* They are stated with sets and functions, not with operators, so that    *)
(* every proof can use them for its own loop.  The induction comes from    *)
(* the finite sets 0..n, which the strict inclusion orders well.           *)
(***************************************************************************)
EXTENDS Integers, FiniteSets, FiniteSetTheorems, WellFoundedInduction, TLAPS

LEMMA SmallestExists ==
  ASSUME NEW T \in SUBSET Nat, T # {}
  PROVE  \E x \in T : \A y \in T : x <= y
<1> DEFINE U == {0..n : n \in T}
<1>1. IsWellFoundedOn(StrictSubsetOrdering(Nat), FiniteSubsetsOf(Nat))
  BY FS_StrictSubsetOrderingWellFounded
<1>2. U \subseteq FiniteSubsetsOf(Nat) /\ U # {}
  <2>1. ASSUME NEW n \in T PROVE IsFiniteSet(0..n) /\ 0..n \in SUBSET Nat
    BY FS_Interval
  <2>2. QED BY <2>1 DEF FiniteSubsetsOf
<1> HIDE DEF U
<1>3. PICK u \in U : \A v \in U : <<v, u>> \notin StrictSubsetOrdering(Nat)
  BY <1>1, <1>2, WFMin
<1>4. PICK x \in T : u = 0..x
  BY DEF U
<1>5. ASSUME NEW y \in T, y < x PROVE FALSE
  <2>1. 0..y \in U
    BY DEF U
  <2>2. x \in 0..x /\ x \notin 0..y
    BY <1>5
  <2>3. 0..y \in SUBSET Nat /\ 0..x \in SUBSET Nat /\ 0..y \subseteq 0..x /\ 0..y # 0..x
    BY <1>5, <2>2
  <2>4. <<0..y, 0..x>> \in StrictSubsetOrdering(Nat)
    BY <2>3 DEF StrictSubsetOrdering
  <2> QED BY <2>1, <2>4, <1>3, <1>4
<1> QED BY <1>5

\* What holds before the first pass of a loop of n passes, and after each pass
\* if before, holds all along.
LEMMA LoopInduction ==
  ASSUME NEW n \in Nat, NEW S, 0 \in S, \A j \in 1..n : j - 1 \in S => j \in S
  PROVE  0..n \subseteq S
<1> DEFINE T == {j \in 0..n : j \notin S}
<1> SUFFICES ASSUME T # {} PROVE FALSE
  OBVIOUS
<1>1. T \in SUBSET Nat
  OBVIOUS
<1>2. PICK x \in T : \A y \in T : x <= y
  BY <1>1, SmallestExists
<1>3. x \in 1..n /\ x \notin S
  BY <1>2
<1>4. x - 1 \in 0..n /\ x - 1 \notin T
  BY <1>2, <1>3
<1> QED BY <1>3, <1>4

\* g[j] is the state in X of a loop after j of its n passes: the first is x0,
\* and the j-th pass is F[j].
IsLoop(g, n, X, x0, F) ==
  /\ g \in [0..n -> X]
  /\ g[0] = x0
  /\ \A j \in 1..n : g[j] = F[j][g[j - 1]]

LEMMA LoopExists ==
  ASSUME NEW n \in Nat, NEW X, NEW x0 \in X, NEW F \in [1..n -> [X -> X]]
  PROVE  \E g : IsLoop(g, n, X, x0, F)
<1> DEFINE Upto(m, g) == IsLoop(g, m, X, x0, F)
           S == {m \in Nat : m <= n => \E g : Upto(m, g)}
<1>1. 0 \in S
  <2>1. Upto(0, [j \in 0..0 |-> x0])
    BY DEF IsLoop
  <2> HIDE DEF Upto
  <2> QED BY <2>1
<1>2. ASSUME NEW m \in 1..n, m - 1 \in S PROVE m \in S
  <2>1. PICK g : Upto(m - 1, g)
    BY <1>2
  <2> DEFINE h == [j \in 0..m |-> IF j = m THEN F[m][g[m - 1]] ELSE g[j]]
  <2>2. m - 1 \in 0..(m - 1) /\ g \in [0..(m - 1) -> X] /\ g[m - 1] \in X
    BY <2>1 DEF IsLoop
  <2>3. F[m][g[m - 1]] \in X
    BY <2>2
  <2>4. h \in [0..m -> X]
    BY <2>2, <2>3
  <2>5. h[0] = x0
    BY <2>1 DEF IsLoop
  <2>6. \A j \in 1..m : h[j] = F[j][h[j - 1]]
    <3> SUFFICES ASSUME NEW j \in 1..m PROVE h[j] = F[j][h[j - 1]]
      OBVIOUS
    <3>1. CASE j = m
      BY <3>1
    <3>2. CASE j # m
      BY <2>1, <3>2 DEF IsLoop
    <3> QED BY <3>1, <3>2
  <2> HIDE DEF h
  <2>7. Upto(m, h)
    BY <2>4, <2>5, <2>6 DEF IsLoop
  <2> HIDE DEF Upto
  <2> QED BY <2>7
<1> HIDE DEF S
<1>3. n \in S
  <2>1. \A j \in 1..n : j - 1 \in S => j \in S
    BY <1>2
  <2>2. 0..n \subseteq S
    BY <1>1, <2>1, LoopInduction
  <2> QED BY <2>2
<1> QED BY <1>3 DEF S

-----------------------------------------------------------------------------
(* Remainders *)

\* A number, its quotient and its remainder.
LEMMA DivMod ==
  ASSUME NEW w \in Nat, w > 0, NEW x \in Int
  PROVE  x % w \in 0..(w - 1) /\ \E k \in Int : x = w * k + (x % w)
<1>1. x % w \in 0..(w - 1)
  OBVIOUS
<1>2. x % w = x - w * (x \div w)
  BY Z3T(30)
<1>3. x \div w \in Int /\ w * (x \div w) \in Int
  OBVIOUS
<1>4. x = w * (x \div w) + (x % w)
  BY <1>1, <1>2, <1>3
<1> QED BY <1>1, <1>3, <1>4

\* There is one remainder.
LEMMA ModUnique ==
  ASSUME NEW w \in Nat, w > 0, NEW k \in Int, NEW l \in Int,
         NEW r \in 0..(w - 1), NEW t \in 0..(w - 1), w * k + r = w * l + t
  PROVE  r = t
<1>1. w * (k - l) = t - r
  OBVIOUS
<1>2. CASE k - l >= 1
  <2>1. w * (k - l) >= w
    BY <1>2
  <2> QED BY <1>1, <2>1
<1>3. CASE k - l <= -1
  <2>1. w * (k - l) <= -w
    BY <1>3
  <2> QED BY <1>1, <2>1
<1> QED BY <1>1, <1>2, <1>3

\* The same for natural numbers, with the quotient by name.
LEMMA DivisionIs ==
  ASSUME NEW w \in Nat, w > 0, NEW x \in Nat
  PROVE  x \div w \in Nat /\ x % w \in 0..(w - 1) /\ x = w * (x \div w) + (x % w)
<1>1. x % w \in 0..(w - 1) /\ x \div w \in Int
  OBVIOUS
<1>2. x % w = x - w * (x \div w)
  BY Z3T(30)
<1> DEFINE q == x \div w
           r == x % w
<1>3. q \in Int /\ r \in 0..(w - 1) /\ r = x - w * q
  BY <1>1, <1>2
<1> HIDE DEF q, r
<1>4. x = w * q + r
  BY <1>3
<1>5. q >= 0
  <2> SUFFICES ASSUME q <= -1 PROVE FALSE
    BY <1>3
  <2>1. w * q <= -w
    BY <1>3
  <2> QED BY <1>3, <1>4, <2>1
<1> QED BY <1>3, <1>4, <1>5 DEF q, r

LEMMA QuotientUnique ==
  ASSUME NEW w \in Nat, w > 0, NEW q \in Nat, NEW r \in 0..(w - 1)
  PROVE  (w * q + r) \div w = q /\ (w * q + r) % w = r
<1> DEFINE x == w * q + r
           p == x \div w
           t == x % w
<1>1. x \in Nat
  OBVIOUS
<1> HIDE DEF x
<1>2. p \in Nat /\ t \in 0..(w - 1) /\ x = w * p + t
  BY <1>1, DivisionIs
<1> HIDE DEF p, t
<1>3. w * p + t = w * q + r
  BY <1>2 DEF x
<1>4. t = r
  BY <1>2, <1>3, ModUnique
<1>5. w * (p - q) = 0
  BY <1>2, <1>3, <1>4
<1>6. p = q
  BY <1>2, <1>5
<1> QED BY <1>4, <1>6 DEF p, t, x

-----------------------------------------------------------------------------
(* Powers *)

\* The table of powers that a recursive definition names exists, and holds
\* positive numbers.
LEMMA PowersExist ==
  ASSUME NEW b \in Nat, b > 0, NEW n \in Nat
  PROVE  \E g : g = [k \in 0..n |-> IF k = 0 THEN 1 ELSE b * g[k - 1]]
<1> DEFINE X == Nat
           one == 1
           F == [j \in 1..n |-> [x \in Nat |-> b * x]]
<1>1. \E g : IsLoop(g, n, Nat, 1, F)
  <2>1. one \in X /\ F \in [1..n -> [X -> X]]
    OBVIOUS
  <2> HIDE DEF F, X, one
  <2>2. \E g : IsLoop(g, n, X, one, F)
    BY <2>1, LoopExists
  <2> QED BY <2>2 DEF X, one
<1>2. PICK g : IsLoop(g, n, Nat, 1, F)
  BY <1>1
<1>3. \A j \in 1..n : g[j] = b * g[j - 1]
  <2> SUFFICES ASSUME NEW j \in 1..n PROVE g[j] = b * g[j - 1]
    OBVIOUS
  <2>1. j - 1 \in 0..n /\ g[j - 1] \in Nat
    BY <1>2 DEF IsLoop
  <2>2. F[j][g[j - 1]] = b * g[j - 1]
    BY <2>1
  <2> QED BY <1>2, <2>2 DEF IsLoop
<1>4. g = [k \in 0..n |-> IF k = 0 THEN 1 ELSE b * g[k - 1]]
  BY <1>2, <1>3 DEF IsLoop
<1> QED BY <1>4

LEMMA PowersAre ==
  ASSUME NEW b \in Nat, b > 0, NEW n \in Nat,
         NEW P, P = [k \in 0..n |-> IF k = 0 THEN 1 ELSE b * P[k - 1]]
  PROVE  /\ P[0] = 1
         /\ \A k \in 1..n : P[k] = b * P[k - 1]
         /\ \A k \in 0..n : P[k] \in Nat /\ P[k] > 0
<1>1. P[0] = 1 /\ \A k \in 1..n : P[k] = b * P[k - 1]
  OBVIOUS
<1> DEFINE S == {k \in 0..n : P[k] \in Nat /\ P[k] > 0}
<1>2. 0 \in S
  BY <1>1
<1>3. ASSUME NEW k \in 1..n, k - 1 \in S PROVE k \in S
  <2>1. P[k - 1] \in Nat /\ P[k - 1] > 0 /\ P[k] = b * P[k - 1]
    BY <1>1, <1>3
  <2> DEFINE p == P[k - 1]
  <2> HIDE DEF p
  <2>2. p \in Nat /\ p > 0 => b * p \in Nat /\ b * p > 0
    OBVIOUS
  <2> QED BY <2>1, <2>2 DEF p
<1> HIDE DEF S
<1>4. 0..n \subseteq S
  BY ONLY n \in Nat, <1>2, <1>3, LoopInduction
<1> QED BY <1>1, <1>4 DEF S

=============================================================================
