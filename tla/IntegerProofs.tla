--------------------------- MODULE IntegerProofs ---------------------------
(***************************************************************************)
(* The integers of any width: that their arithmetic and their casts do     *)
(* what the run of the algorithms checks on small widths.                  *)
(***************************************************************************)
EXTENDS Algorithms, WellFoundedInduction, TLAPS

-----------------------------------------------------------------------------
(* Naturals: the least of a set, division, and recursive functions.        *)

LEMMA LeastOf ==
  ASSUME NEW T, T \subseteq Nat, T # {}
  PROVE  \E x \in T : \A m \in T : x <= m
  <1> DEFINE R == OpToRel(<, Nat)
  <1>1. IsWellFoundedOn(R, Nat)
    BY NatLessThanWellFounded
  <1>2. \A m, x \in Nat : <<m, x>> \in R <=> m < x
    BY DEF OpToRel
  <1> HIDE DEF R
  <1>3. \E x \in T : \A m \in T : <<m, x>> \notin R
    BY <1>1, WFMin
  <1>4. PICK x \in T : \A m \in T : <<m, x>> \notin R
    BY <1>3
  <1>5. ASSUME NEW m \in T PROVE x <= m
    <2>1. m \in Nat /\ x \in Nat /\ <<m, x>> \notin R
      BY <1>4
    <2>2. ~(m < x)
      BY <1>2, <2>1
    <2> QED
      BY <2>1, <2>2
  <1> QED
    BY <1>4, <1>5

(* Induction: a set that holds 0 and what follows on what it holds.        *)
LEMMA Induction ==
  ASSUME NEW T, 0 \in T, \A x \in Nat : x \in T => x + 1 \in T
  PROVE  Nat \subseteq T
  <1> SUFFICES ASSUME ~(Nat \subseteq T) PROVE FALSE
    OBVIOUS
  <1>1. PICK x \in Nat \ T : \A m \in Nat \ T : x <= m
    BY LeastOf
  <1>2. x # 0 /\ x - 1 \in Nat
    BY <1>1
  <1>3. x - 1 \in T
    BY <1>1, <1>2
  <1> QED
    BY <1>1, <1>2, <1>3

LEMMA DivMod ==
  ASSUME NEW x \in Int, NEW m \in Nat, m > 0
  PROVE  /\ x \div m \in Int /\ x % m \in Nat /\ x % m < m
         /\ x = (m * (x \div m)) + (x % m)
  OBVIOUS

LEMMA DivUnique ==
  ASSUME NEW x \in Int, NEW m \in Nat, NEW q \in Int, NEW r \in Nat, r < m,
         x = (m * q) + r
  PROVE  x \div m = q /\ x % m = r
  <1> DEFINE d == x \div m
             e == x % m
  <1>1. d \in Int /\ e \in Nat /\ e < m /\ x = (m * d) + e
    BY DivMod
  <1> HIDE DEF d, e
  <1>2. m * (d - q) = r - e
    BY <1>1
  <1>3. ~(d - q >= 1)
    <2> SUFFICES ASSUME d - q >= 1 PROVE FALSE
      OBVIOUS
    <2>1. m * (d - q) >= m
      BY <1>1
    <2> QED
      BY <1>1, <1>2, <2>1
  <1>4. ~(d - q <= -1)
    <2> SUFFICES ASSUME d - q <= -1 PROVE FALSE
      OBVIOUS
    <2>1. m * (d - q) <= -m
      BY <1>1
    <2> QED
      BY <1>1, <1>2, <2>1
  <1>5. d = q
    BY <1>1, <1>3, <1>4
  <1> QED
    BY <1>1, <1>5 DEF d, e

(* A function by recursion over 0 .. x: the value at 0, and the step.      *)
Iterates(f, D, a, step) ==
  f = [i \in D |-> IF i = 0 THEN a ELSE step[<<i, f[i - 1]>>]]

LEMMA IterationsExtend ==
  ASSUME NEW S, NEW a \in S, NEW step \in [Nat \X S -> S], NEW x \in Nat,
         NEW f \in [0 .. x -> S], Iterates(f, 0 .. x, a, step)
  PROVE  \E g \in [0 .. x + 1 -> S] : Iterates(g, 0 .. x + 1, a, step)
  <1> DEFINE g == [i \in 0 .. x + 1 |-> IF i = x + 1 THEN step[<<i, f[i - 1]>>] ELSE f[i]]
  <1>1. g \in [0 .. x + 1 -> S]
    OBVIOUS
  <1>2. ASSUME NEW i \in 0 .. x + 1
        PROVE  g[i] = IF i = 0 THEN a ELSE step[<<i, g[i - 1]>>]
    <2>1. CASE i = 0
      BY <2>1 DEF Iterates
    <2>2. CASE i = x + 1
      <3>1. g[i - 1] = f[i - 1] /\ g[i] = step[<<i, f[i - 1]>>]
        BY <2>2
      <3> QED
        BY <2>2, <3>1
    <2>3. CASE i \in 1 .. x
      <3>1. g[i] = f[i] /\ g[i - 1] = f[i - 1]
        BY <2>3
      <3>2. f[i] = step[<<i, f[i - 1]>>]
        BY <2>3 DEF Iterates
      <3> HIDE DEF g
      <3> QED
        BY <2>3, <3>1, <3>2
    <2> QED
      BY <2>1, <2>2, <2>3
  <1> HIDE DEF g
  <1>3. Iterates(g, 0 .. x + 1, a, step)
    BY <1>1, <1>2 DEF Iterates
  <1> QED
    BY <1>1, <1>3

LEMMA IterationsExist ==
  ASSUME NEW S, NEW a \in S, NEW step \in [Nat \X S -> S], NEW x \in Nat
  PROVE  \E f \in [0 .. x -> S] : Iterates(f, 0 .. x, a, step)
  <1> DEFINE T == {k \in Nat : \E f \in [0 .. k -> S] : Iterates(f, 0 .. k, a, step)}
  <1>1. 0 \in T
    <2>1. [i \in 0 .. 0 |-> a] \in [0 .. 0 -> S]
      OBVIOUS
    <2>2. Iterates([i \in 0 .. 0 |-> a], 0 .. 0, a, step)
      BY DEF Iterates
    <2> QED
      BY <2>1, <2>2
  <1>2. ASSUME NEW k \in Nat, k \in T PROVE k + 1 \in T
    <2>1. PICK f \in [0 .. k -> S] : Iterates(f, 0 .. k, a, step)
      BY <1>2
    <2>2. \E g \in [0 .. k + 1 -> S] : Iterates(g, 0 .. k + 1, a, step)
      BY <2>1, IterationsExtend
    <2> QED
      BY <2>2
  <1> HIDE DEF T
  <1>3. Nat \subseteq T
    BY <1>1, <1>2, Induction
  <1>4. x \in T
    BY <1>3
  <1> QED
    BY <1>4 DEF T

(* The same over all naturals.                                             *)
LEMMA IterationAlways ==
  ASSUME NEW S, NEW a \in S, NEW step \in [Nat \X S -> S]
  PROVE  \E f \in [Nat -> S] : Iterates(f, Nat, a, step)
  <1> DEFINE F(x) == CHOOSE f \in [0 .. x -> S] : Iterates(f, 0 .. x, a, step)
  <1>1. ASSUME NEW x \in Nat
        PROVE  F(x) \in [0 .. x -> S] /\ Iterates(F(x), 0 .. x, a, step)
    BY IterationsExist
  <1> HIDE DEF F
  <1>2. ASSUME NEW x \in Nat
        PROVE  F(x)[0] = a /\ \A i \in 1 .. x : F(x)[i] = step[<<i, F(x)[i - 1]>>]
    <2>1. F(x) = [i \in 0 .. x |-> IF i = 0 THEN a ELSE step[<<i, F(x)[i - 1]>>]]
      BY <1>1 DEF Iterates
    <2> QED
      BY <2>1
  <1>3. ASSUME NEW x \in Nat, NEW k \in 0 .. x
        PROVE  F(x + 1)[k] = F(x)[k]
    <2> DEFINE T == {i \in Nat : i <= x => F(x + 1)[i] = F(x)[i]}
    <2>1. 0 \in T
      BY <1>2
    <2>2. ASSUME NEW i \in Nat, i \in T PROVE i + 1 \in T
      <3> SUFFICES ASSUME i + 1 <= x PROVE F(x + 1)[i + 1] = F(x)[i + 1]
        OBVIOUS
      <3>1. F(x + 1)[i] = F(x)[i]
        BY <2>2
      <3>2. i + 1 \in 1 .. x /\ i + 1 \in 1 .. x + 1 /\ (i + 1) - 1 = i /\ x + 1 \in Nat
        OBVIOUS
      <3>3. F(x)[i + 1] = step[<<i + 1, F(x)[i]>>]
        BY <1>2, <3>2
      <3>4. F(x + 1)[i + 1] = step[<<i + 1, F(x + 1)[i]>>]
        BY <1>2, <3>2
      <3> QED
        BY <3>1, <3>3, <3>4
    <2> HIDE DEF T
    <2>3. k \in T
      BY <2>1, <2>2, Induction
    <2> QED
      BY <2>3 DEF T
  <1> DEFINE h == [x \in Nat |-> F(x)[x]]
  <1>4. h \in [Nat -> S]
    BY <1>1
  <1>5. ASSUME NEW i \in Nat
        PROVE  h[i] = IF i = 0 THEN a ELSE step[<<i, h[i - 1]>>]
    <2>1. CASE i = 0
      BY <1>2, <2>1
    <2>2. CASE i # 0
      <3>1. i - 1 \in Nat /\ i - 1 \in 0 .. i - 1 /\ (i - 1) + 1 = i /\ i \in 1 .. i
        BY <2>2
      <3>2. F(i)[i] = step[<<i, F(i)[i - 1]>>]
        BY <1>2, <3>1
      <3>3. F(i)[i - 1] = F(i - 1)[i - 1]
        BY <1>3, <3>1
      <3> QED
        BY <2>2, <3>1, <3>2, <3>3
    <2> QED
      BY <2>1, <2>2
  <1> HIDE DEF h
  <1>6. Iterates(h, Nat, a, step)
    BY <1>4, <1>5 DEF Iterates
  <1> QED
    BY <1>4, <1>6

-----------------------------------------------------------------------------
(* Powers of two.                                                          *)

Pow2 == Number!Pow2

LEMMA Pow2Step ==
  /\ Pow2 \in [Nat -> Nat] /\ Pow2[0] = 1
  /\ \A k \in Nat : Pow2[k + 1] = 2 * Pow2[k]
  <1> DEFINE step == [p \in Nat \X Nat |-> 2 * p[2]]
  <1>1. step \in [Nat \X Nat -> Nat]
    OBVIOUS
  <1>2. \A k, x \in Nat : step[<<k, x>>] = 2 * x
    OBVIOUS
  <1> HIDE DEF step
  <1>3. 1 \in Nat
    OBVIOUS
  <1>4. PICK f \in [Nat -> Nat] : Iterates(f, Nat, 1, step)
    BY <1>1, <1>3, IterationAlways
  <1>5. f = [k \in Nat |-> IF k = 0 THEN 1 ELSE 2 * f[k - 1]]
    <2>1. f = [k \in Nat |-> IF k = 0 THEN 1 ELSE step[<<k, f[k - 1]>>]]
      BY <1>4 DEF Iterates
    <2>2. ASSUME NEW k \in Nat
          PROVE  f[k] = IF k = 0 THEN 1 ELSE 2 * f[k - 1]
      <3>1. k # 0 => k - 1 \in Nat /\ f[k - 1] \in Nat
        OBVIOUS
      <3> QED
        BY <1>2, <2>1, <3>1
    <2> QED
      BY <2>2
  <1>6. Pow2 = [k \in Nat |-> IF k = 0 THEN 1 ELSE 2 * Pow2[k - 1]]
    BY <1>5 DEF Pow2, Number!Pow2
  <1> HIDE DEF Pow2
  <1>7. Pow2[0] = 1
    BY <1>6
  <1>8. ASSUME NEW k \in Nat PROVE Pow2[k + 1] = 2 * Pow2[k]
    BY <1>6
  <1>9. ASSUME NEW k \in Nat PROVE Pow2[k] \in Nat
    <2> DEFINE T == {x \in Nat : Pow2[x] \in Nat}
    <2>1. 0 \in T
      BY <1>7
    <2>2. \A x \in Nat : x \in T => x + 1 \in T
      BY <1>8
    <2> HIDE DEF T
    <2>3. k \in T
      BY <2>1, <2>2, Induction
    <2> QED
      BY <2>3 DEF T
  <1> QED
    BY <1>6, <1>7, <1>8, <1>9

LEMMA Pow2Exceeds ==
  ASSUME NEW k \in Nat
  PROVE  Pow2[k] \in Nat /\ k < Pow2[k]
  <1> DEFINE T == {x \in Nat : x < Pow2[x]}
  <1>1. 0 \in T
    BY Pow2Step
  <1>2. ASSUME NEW x \in Nat, x \in T PROVE x + 1 \in T
    <2>1. Pow2[x + 1] = 2 * Pow2[x] /\ Pow2[x] \in Nat
      BY Pow2Step
    <2> QED
      BY <1>2, <2>1
  <1> HIDE DEF T
  <1>3. k \in T
    BY <1>1, <1>2, Induction
  <1> QED
    BY <1>3, Pow2Step DEF T

LEMMA Pow2Sum ==
  ASSUME NEW j \in Nat, NEW k \in Nat
  PROVE  Pow2[j + k] = Pow2[j] * Pow2[k]
  <1> DEFINE T == {x \in Nat : Pow2[j + x] = Pow2[j] * Pow2[x]}
  <1>1. 0 \in T
    BY Pow2Step, Pow2Exceeds
  <1>2. ASSUME NEW x \in Nat, x \in T PROVE x + 1 \in T
    <2>1. Pow2[(j + x) + 1] = 2 * Pow2[j + x] /\ Pow2[x + 1] = 2 * Pow2[x]
      BY Pow2Step
    <2>2. Pow2[j] \in Nat /\ Pow2[x] \in Nat /\ Pow2[j + x] = Pow2[j] * Pow2[x]
      BY <1>2, Pow2Exceeds
    <2>3. Pow2[j + (x + 1)] = Pow2[j] * Pow2[x + 1]
      <3> DEFINE a == Pow2[j]
                 b == Pow2[x]
      <3>1. a \in Nat /\ b \in Nat /\ Pow2[(j + x) + 1] = 2 * (a * b) /\ Pow2[x + 1] = 2 * b
        BY <2>1, <2>2
      <3>2. (j + x) + 1 = j + (x + 1)
        OBVIOUS
      <3> HIDE DEF a, b
      <3>3. 2 * (a * b) = a * (2 * b)
        BY <3>1
      <3>4. Pow2[j + (x + 1)] = a * Pow2[x + 1]
        BY <3>1, <3>2, <3>3
      <3> QED
        BY <3>4 DEF a
    <2> QED
      BY <2>3
  <1> HIDE DEF T
  <1>3. k \in T
    BY <1>1, <1>2, Induction
  <1> QED
    BY <1>3 DEF T

LEMMA Pow2Grows ==
  ASSUME NEW j \in Nat, NEW k \in Nat, j <= k
  PROVE  /\ Pow2[j] <= Pow2[k]
         /\ j < k => 2 * Pow2[j] <= Pow2[k]
         /\ Pow2[k] = Pow2[j] * Pow2[k - j]
  <1>1. k - j \in Nat /\ j + (k - j) = k
    OBVIOUS
  <1>2. Pow2[k] = Pow2[j] * Pow2[k - j]
    BY <1>1, Pow2Sum
  <1> DEFINE a == Pow2[j]
             b == Pow2[k - j]
  <1>3. a \in Nat /\ b \in Nat /\ b >= 1 /\ (j < k => b >= 2) /\ Pow2[k] = a * b
    BY <1>1, <1>2, Pow2Exceeds
  <1> HIDE DEF a, b
  <1>4. a * b >= a
    BY <1>3
  <1>5. j < k => a * b >= 2 * a
    BY <1>3
  <1> QED
    BY <1>2, <1>3, <1>4, <1>5 DEF a

-----------------------------------------------------------------------------
(* Digits: the value of a set of positions, and the positions of a value.  *)

Bit(x, i) == Number!Bit(x, i)

Digit(S, k) == IF k \in S THEN Pow2[k] ELSE 0

(* The sum that FromBits makes of the w lowest positions in S.             *)
Value(w, S) ==
  LET sum[i \in 0 .. w] ==
        IF i = 0 THEN 0 ELSE sum[i - 1] + (IF i - 1 \in S THEN Pow2[i - 1] ELSE 0)
  IN sum[w]

LEMMA ValueSum ==
  ASSUME NEW S
  PROVE  \E f \in [Nat -> Nat] :
           /\ f[0] = 0 /\ \A k \in Nat : f[k + 1] = f[k] + Digit(S, k)
           /\ \A w \in Nat : Value(w, S) = f[w]
  <1> DEFINE step == [p \in Nat \X Nat |-> p[2] + (IF p[1] = 0 THEN 0 ELSE Digit(S, p[1] - 1))]
  <1>0. \A k \in Nat : Digit(S, k) \in Nat
    BY Pow2Exceeds DEF Digit
  <1>1. step \in [Nat \X Nat -> Nat]
    BY <1>0
  <1>2. \A k, x \in Nat : k # 0 => step[<<k, x>>] = x + Digit(S, k - 1)
    OBVIOUS
  <1> HIDE DEF step
  <1>3. PICK f \in [Nat -> Nat] : Iterates(f, Nat, 0, step)
    <2>1. 0 \in Nat
      OBVIOUS
    <2> QED
      BY <1>1, <2>1, IterationAlways
  <1>4. f[0] = 0
    BY <1>3 DEF Iterates
  <1>5. ASSUME NEW k \in Nat PROVE f[k + 1] = f[k] + Digit(S, k)
    <2>1. k + 1 \in Nat /\ k + 1 # 0 /\ (k + 1) - 1 = k /\ f[k] \in Nat
      OBVIOUS
    <2>2. f[k + 1] = step[<<k + 1, f[k]>>]
      BY <1>3, <2>1 DEF Iterates
    <2>3. step[<<k + 1, f[k]>>] = f[k] + Digit(S, (k + 1) - 1)
      BY <1>2, <2>1
    <2> QED
      BY <2>1, <2>2, <2>3
  <1>6. ASSUME NEW w \in Nat PROVE Value(w, S) = f[w]
    <2> DEFINE c == CHOOSE sum : sum = [i \in 0 .. w |->
                      IF i = 0 THEN 0
                      ELSE sum[i - 1] + (IF i - 1 \in S THEN Pow2[i - 1] ELSE 0)]
               g == [i \in 0 .. w |-> f[i]]
    <2>1. ASSUME NEW i \in 0 .. w
          PROVE  g[i] = IF i = 0 THEN 0
                        ELSE g[i - 1] + (IF i - 1 \in S THEN Pow2[i - 1] ELSE 0)
      <3>1. CASE i = 0
        BY <1>4, <3>1
      <3>2. CASE i # 0
        <4>1. i - 1 \in Nat /\ i - 1 \in 0 .. w /\ (i - 1) + 1 = i
          BY <3>2
        <4>2. f[i] = f[i - 1] + Digit(S, i - 1)
          BY <1>5, <4>1
        <4> QED
          BY <3>2, <4>1, <4>2 DEF Digit
      <3> QED
        BY <3>1, <3>2
    <2>2. g = [i \in 0 .. w |-> IF i = 0 THEN 0
                                ELSE g[i - 1] + (IF i - 1 \in S THEN Pow2[i - 1] ELSE 0)]
      BY <2>1
    <2> HIDE DEF g
    <2>3. c = [i \in 0 .. w |-> IF i = 0 THEN 0
                                ELSE c[i - 1] + (IF i - 1 \in S THEN Pow2[i - 1] ELSE 0)]
      BY <2>2
    <2> HIDE DEF c
    <2> DEFINE T == {i \in Nat : i <= w => c[i] = f[i]}
    <2>4. 0 \in T
      BY <1>4, <2>3
    <2>5. ASSUME NEW i \in Nat, i \in T PROVE i + 1 \in T
      <3> SUFFICES ASSUME i + 1 <= w PROVE c[i + 1] = f[i + 1]
        OBVIOUS
      <3>1. i + 1 \in 0 .. w /\ i + 1 # 0 /\ (i + 1) - 1 = i /\ c[i] = f[i]
        BY <2>5
      <3>2. c[i + 1] = c[(i + 1) - 1] + (IF (i + 1) - 1 \in S THEN Pow2[(i + 1) - 1] ELSE 0)
        BY <2>3, <3>1
      <3>3. f[i + 1] = f[i] + Digit(S, i)
        BY <1>5
      <3> QED
        BY <3>1, <3>2, <3>3, Zenon DEF Digit
    <2> HIDE DEF T
    <2>6. w \in T
      BY <2>4, <2>5, Induction
    <2>7. c[w] = f[w]
      BY <2>6 DEF T
    <2> QED
      BY <2>7 DEF Value, c
  <1> QED
    BY <1>4, <1>5, <1>6

LEMMA ValueStep ==
  ASSUME NEW S
  PROVE  /\ Value(0, S) = 0
         /\ \A w \in Nat : /\ Value(w, S) \in Nat /\ Value(w + 1, S) \in Nat
                           /\ Value(w + 1, S) = Value(w, S) + Digit(S, w)
  <1>1. PICK f \in [Nat -> Nat] :
          /\ f[0] = 0 /\ \A k \in Nat : f[k + 1] = f[k] + Digit(S, k)
          /\ \A w \in Nat : Value(w, S) = f[w]
    BY ValueSum
  <1>2. Value(0, S) = 0
    BY <1>1
  <1>3. ASSUME NEW w \in Nat
        PROVE  /\ Value(w, S) \in Nat /\ Value(w + 1, S) \in Nat
               /\ Value(w + 1, S) = Value(w, S) + Digit(S, w)
    <2>1. w + 1 \in Nat /\ Value(w, S) = f[w] /\ Value(w + 1, S) = f[w + 1]
      BY <1>1
    <2> QED
      BY <1>1, <2>1
  <1> QED
    BY <1>2, <1>3

LEMMA BitIs ==
  ASSUME NEW x \in Nat, NEW i \in Nat
  PROVE  Bit(x, i) = (x \div Pow2[i]) % 2 /\ Bit(x, i) \in {0, 1}
  <1>1. Bit(x, i) = (x \div Pow2[i]) % 2
    BY DEF Bit, Number!Bit, Pow2
  <1>2. x \div Pow2[i] \in Int
    BY Pow2Exceeds, DivMod
  <1> QED
    BY <1>1, <1>2

(* A digit does not depend on those above it.                              *)
LEMMA BitBelow ==
  ASSUME NEW x \in Nat, NEW i \in Nat, NEW w \in Nat, i < w
  PROVE  Bit(x + Pow2[w], i) = Bit(x, i)
  <1> DEFINE p == Pow2[i]
             h == Pow2[w - i - 1]
             q == x \div p
             r == x % p
  <1>1. p \in Nat /\ p > 0 /\ h \in Nat /\ Pow2[w] = p * (2 * h) /\ Pow2[w] \in Nat
    <2>1. w - i - 1 \in Nat /\ (w - i - 1) + 1 = w - i /\ w - i \in Nat
      OBVIOUS
    <2>2. Pow2[w - i] = 2 * h
      BY <2>1, Pow2Step
    <2>3. Pow2[w] = p * Pow2[w - i]
      BY Pow2Grows
    <2> QED
      BY <2>1, <2>2, <2>3, Pow2Exceeds
  <1>2. Bit(x, i) = q % 2 /\ Bit(x + Pow2[w], i) = ((x + Pow2[w]) \div p) % 2
    BY <1>1, BitIs
  <1> HIDE DEF p, h
  <1>3. q \in Int /\ r \in Nat /\ r < p /\ x = (p * q) + r
    BY <1>1, DivMod
  <1> HIDE DEF q, r
  <1>4. p * (q + (2 * h)) = (p * q) + (p * (2 * h))
    BY <1>1, <1>3
  <1>5. x + Pow2[w] = (p * (q + (2 * h))) + r
    BY <1>1, <1>3, <1>4
  <1>6. (x + Pow2[w]) \div p = q + (2 * h)
    BY <1>1, <1>3, <1>5, DivUnique
  <1>7. (q + (2 * h)) % 2 = q % 2
    BY <1>1, <1>3
  <1> QED
    BY <1>2, <1>6, <1>7

LEMMA ValueBound ==
  ASSUME NEW S, NEW w \in Nat
  PROVE  Value(w, S) \in Nat /\ Value(w, S) < Pow2[w]
  <1> DEFINE T == {k \in Nat : Value(k, S) < Pow2[k]}
  <1>1. 0 \in T
    BY ValueStep, Pow2Step
  <1>2. ASSUME NEW k \in Nat, k \in T PROVE k + 1 \in T
    <2>1. /\ Value(k, S) \in Nat /\ Value(k + 1, S) = Value(k, S) + Digit(S, k)
          /\ Pow2[k + 1] = 2 * Pow2[k] /\ Pow2[k] \in Nat /\ Value(k, S) < Pow2[k]
      BY <1>2, ValueStep, Pow2Step
    <2> QED
      BY <2>1 DEF Digit
  <1> HIDE DEF T
  <1>3. w \in T
    BY <1>1, <1>2, Induction
  <1> QED
    BY <1>3, ValueStep DEF T

LEMMA ValueBits ==
  ASSUME NEW S, NEW w \in Nat, NEW i \in Nat, i < w
  PROVE  Bit(Value(w, S), i) = 1 <=> i \in S
  <1> DEFINE T == {k \in Nat : i < k => (Bit(Value(k, S), i) = 1 <=> i \in S)}
  <1>1. 0 \in T
    OBVIOUS
  <1>2. ASSUME NEW k \in Nat, k \in T PROVE k + 1 \in T
    <2> SUFFICES ASSUME i < k + 1 PROVE Bit(Value(k + 1, S), i) = 1 <=> i \in S
      OBVIOUS
    <2> DEFINE v == Value(k, S)
    <2>1. v \in Nat /\ v < Pow2[k] /\ Value(k + 1, S) = v + Digit(S, k) /\ Pow2[k] \in Nat
      BY ValueBound, ValueStep, Pow2Exceeds
    <2>2. CASE i < k
      <3>1. Bit(v, i) = 1 <=> i \in S
        BY <1>2, <2>2
      <3>2. Bit(v + Pow2[k], i) = Bit(v, i)
        BY <2>1, <2>2, BitBelow
      <3> HIDE DEF v
      <3>3. Value(k + 1, S) = v \/ Value(k + 1, S) = v + Pow2[k]
        BY <2>1 DEF Digit
      <3> QED
        BY <3>1, <3>2, <3>3
    <2>3. CASE i = k
      <3> HIDE DEF v
      <3>1. CASE k \in S
        <4>1. Value(k + 1, S) = (Pow2[k] * 1) + v
          BY <2>1, <3>1 DEF Digit
        <4>2. Value(k + 1, S) \div Pow2[k] = 1 /\ Value(k + 1, S) \in Nat
          BY <2>1, <4>1, DivUnique
        <4> QED
          BY <2>3, <3>1, <4>2, BitIs
      <3>2. CASE k \notin S
        <4>1. Value(k + 1, S) = (Pow2[k] * 0) + v
          BY <2>1, <3>2 DEF Digit
        <4>2. Value(k + 1, S) \div Pow2[k] = 0 /\ Value(k + 1, S) \in Nat
          BY <2>1, <4>1, DivUnique
        <4> QED
          BY <2>3, <3>2, <4>2, BitIs
      <3> QED
        BY <3>1, <3>2
    <2> QED
      BY <2>2, <2>3
  <1> HIDE DEF T
  <1>3. w \in T
    BY <1>1, <1>2, Induction
  <1> QED
    BY <1>3 DEF T

(* The positions of a value give back the value.                           *)
LEMMA BitsValue ==
  ASSUME NEW S, NEW w \in Nat, NEW x \in Nat, \A i \in 0 .. w - 1 : Bit(x, i) = 1 <=> i \in S
  PROVE  Value(w, S) = x % Pow2[w] /\ (x < Pow2[w] => Value(w, S) = x)
  <1> DEFINE T == {k \in Nat : k <= w => Value(k, S) = x % Pow2[k]}
  <1>1. 0 \in T
    <2>1. x % 1 = 0
      OBVIOUS
    <2> QED
      BY <2>1, ValueStep, Pow2Step
  <1>2. ASSUME NEW k \in Nat, k \in T PROVE k + 1 \in T
    <2> SUFFICES ASSUME k + 1 <= w PROVE Value(k + 1, S) = x % Pow2[k + 1]
      OBVIOUS
    <2> DEFINE p == Pow2[k]
               q == x \div p
               r == x % p
               b == Bit(x, k)
    <2>1. /\ p \in Nat /\ p > 0 /\ Pow2[k + 1] = 2 * p /\ Value(k, S) = r
          /\ Value(k + 1, S) = r + Digit(S, k) /\ (b = 1 <=> k \in S)
      <3>1. p \in Nat /\ p > 0 /\ Pow2[k + 1] = 2 * p
        BY Pow2Exceeds, Pow2Step
      <3>2. k <= w /\ k \in 0 .. w - 1
        OBVIOUS
      <3>3. Value(k, S) = r /\ (b = 1 <=> k \in S)
        BY <1>2, <3>2
      <3>4. Value(k + 1, S) = Value(k, S) + Digit(S, k)
        BY ValueStep
      <3> QED
        BY <3>1, <3>3, <3>4
    <2>2. b = q % 2
      BY BitIs
    <2>3. Digit(S, k) = IF b = 1 THEN p ELSE 0
      BY <2>1 DEF Digit
    <2> HIDE DEF p
    <2>4. q \in Int /\ r \in Nat /\ r < p /\ x = (p * q) + r
      BY <2>1, DivMod
    <2> HIDE DEF q, r, b
    <2>5. q \div 2 \in Int /\ b \in {0, 1} /\ q = (2 * (q \div 2)) + b
      BY <2>2, <2>4
    <2> DEFINE c == q \div 2
               d == r + Digit(S, k)
    <2>6. c \in Int /\ d \in Nat /\ d = r + (p * b) /\ d < 2 * p
      BY <2>1, <2>3, <2>4, <2>5
    <2>7. q = (2 * c) + b
      BY <2>5
    <2> HIDE DEF c, d
    <2>8. p * q = ((2 * p) * c) + (p * b)
      BY <2>1, <2>4, <2>5, <2>6, <2>7
    <2>9. x = ((2 * p) * c) + d
      BY <2>1, <2>4, <2>5, <2>6, <2>8
    <2>10. x % (2 * p) = d
      <3>1. PICK m \in Nat : m = 2 * p
        BY <2>1
      <3>2. x = (m * c) + d
        BY <2>9, <3>1, Zenon
      <3>3. c \in Int /\ d \in Nat /\ d < m
        BY <2>6, <3>1, Zenon
      <3>4. x % m = d
        BY <3>2, <3>3, DivUnique
      <3> QED
        BY <3>1, <3>4, Zenon
    <2> QED
      BY <2>1, <2>10 DEF d
  <1> HIDE DEF T
  <1>3. w \in T
    BY <1>1, <1>2, Induction
  <1>4. Value(w, S) = x % Pow2[w]
    BY <1>3 DEF T
  <1>5. ASSUME x < Pow2[w] PROVE x % Pow2[w] = x
    <2>1. x = (Pow2[w] * 0) + x /\ Pow2[w] \in Nat
      BY Pow2Exceeds
    <2> QED
      BY <1>5, <2>1, DivUnique
  <1> QED
    BY <1>4, <1>5

LEMMA ValueSame ==
  ASSUME NEW A, NEW B, NEW w \in Nat, \A i \in 0 .. w - 1 : i \in A <=> i \in B
  PROVE  Value(w, A) = Value(w, B)
  <1>1. Value(w, A) \in Nat /\ Value(w, A) < Pow2[w]
    BY ValueBound
  <1>2. ASSUME NEW i \in 0 .. w - 1 PROVE Bit(Value(w, A), i) = 1 <=> i \in B
    BY ValueBits
  <1>3. Value(w, B) = Value(w, A)
    BY <1>1, <1>2, BitsValue
  <1> QED
    BY <1>3

(* What two sets have together is worth what they have each, as with sizes.*)
LEMMA ValueAdds ==
  ASSUME NEW A, NEW B, NEW w \in Nat
  PROVE  Value(w, A \cup B) + Value(w, A \cap B) = Value(w, A) + Value(w, B)
  <1> DEFINE Sum(k) == Value(k, A \cup B) + Value(k, A \cap B) = Value(k, A) + Value(k, B)
             T == {k \in Nat : Sum(k)}
  <1>1. 0 \in T
    <2>1. /\ Value(0, A) = 0 /\ Value(0, B) = 0
          /\ Value(0, A \cup B) = 0 /\ Value(0, A \cap B) = 0
      BY ValueStep
    <2> QED
      BY <2>1
  <1>2. ASSUME NEW k \in Nat, k \in T PROVE k + 1 \in T
    <2>1. /\ Value(k, A) \in Nat /\ Value(k + 1, A) = Value(k, A) + Digit(A, k)
          /\ Value(k, B) \in Nat /\ Value(k + 1, B) = Value(k, B) + Digit(B, k)
      BY ValueStep
    <2>2. /\ Value(k, A \cup B) \in Nat
          /\ Value(k + 1, A \cup B) = Value(k, A \cup B) + Digit(A \cup B, k)
      BY ValueStep
    <2>3. /\ Value(k, A \cap B) \in Nat
          /\ Value(k + 1, A \cap B) = Value(k, A \cap B) + Digit(A \cap B, k)
      BY ValueStep
    <2>4. Pow2[k] \in Nat
      BY Pow2Exceeds
    <2>5. /\ Digit(A \cup B, k) + Digit(A \cap B, k) = Digit(A, k) + Digit(B, k)
          /\ Digit(A \cup B, k) \in Nat /\ Digit(A \cap B, k) \in Nat
          /\ Digit(A, k) \in Nat /\ Digit(B, k) \in Nat
      BY <2>4 DEF Digit
    <2>6. Sum(k)
      BY <1>2
    <2> QED
      BY <2>1, <2>2, <2>3, <2>5, <2>6
  <1> HIDE DEF T
  <1>3. w \in T
    BY <1>1, <1>2, Induction
  <1> QED
    BY <1>3 DEF T

LEMMA ValueEmpty ==
  ASSUME NEW w \in Nat
  PROVE  Value(w, {}) = 0
  <1> DEFINE T == {k \in Nat : Value(k, {}) = 0}
  <1>1. 0 \in T
    BY ValueStep
  <1>2. ASSUME NEW k \in Nat, k \in T PROVE k + 1 \in T
    <2>1. Value(k + 1, {}) = Value(k, {}) + Digit({}, k)
      BY ValueStep
    <2> QED
      BY <1>2, <2>1 DEF Digit
  <1> HIDE DEF T
  <1>3. w \in T
    BY <1>1, <1>2, Induction
  <1> QED
    BY <1>3 DEF T

LEMMA ValueFull ==
  ASSUME NEW w \in Nat
  PROVE  Value(w, Nat) = Pow2[w] - 1
  <1> DEFINE T == {k \in Nat : Value(k, Nat) = Pow2[k] - 1}
  <1>1. 0 \in T
    BY ValueStep, Pow2Step
  <1>2. ASSUME NEW k \in Nat, k \in T PROVE k + 1 \in T
    <2>1. Value(k + 1, Nat) = Value(k, Nat) + Pow2[k]
      BY ValueStep DEF Digit
    <2>2. Pow2[k] \in Nat /\ Pow2[k + 1] = 2 * Pow2[k]
      BY Pow2Exceeds, Pow2Step
    <2> QED
      BY <1>2, <2>1, <2>2
  <1> HIDE DEF T
  <1>3. w \in T
    BY <1>1, <1>2, Induction
  <1> QED
    BY <1>3 DEF T

-----------------------------------------------------------------------------
(* Congruence.                                                             *)

Same(m, x, y) == \E k \in Int : x = y + (m * k)

LEMMA SameIs ==
  ASSUME NEW m \in Nat, m > 0, NEW x \in Int, NEW y \in Int
  PROVE  Same(m, x, y) <=> (x - y) % m = 0
  <1>1. ASSUME Same(m, x, y) PROVE (x - y) % m = 0
    <2>1. PICK k \in Int : x = y + (m * k)
      BY <1>1 DEF Same
    <2>2. x - y = (m * k) + 0 /\ x - y \in Int
      BY <2>1
    <2> QED
      BY <2>2, DivUnique
  <1>2. ASSUME (x - y) % m = 0 PROVE Same(m, x, y)
    <2> DEFINE k == (x - y) \div m
    <2>1. x - y \in Int
      OBVIOUS
    <2>2. k \in Int /\ x - y = (m * k) + 0
      BY <1>2, <2>1, DivMod
    <2> HIDE DEF k
    <2>3. m * k \in Int
      BY <2>2
    <2>4. x = y + (m * k)
      BY <2>2, <2>3
    <2> QED
      BY <2>2, <2>4 DEF Same
  <1> QED
    BY <1>1, <1>2

LEMMA SameRefl ==
  ASSUME NEW m \in Nat, NEW x \in Int
  PROVE  Same(m, x, x)
  <1>1. 0 \in Int /\ x = x + (m * 0)
    OBVIOUS
  <1> QED
    BY <1>1 DEF Same

LEMMA SameSym ==
  ASSUME NEW m \in Nat, NEW x \in Int, NEW y \in Int, Same(m, x, y)
  PROVE  Same(m, y, x)
  <1>1. PICK k \in Int : x = y + (m * k)
    BY DEF Same
  <1>2. m * (-k) = -(m * k) /\ m * k \in Int
    OBVIOUS
  <1>3. -k \in Int /\ y = x + (m * (-k))
    BY <1>1, <1>2
  <1> QED
    BY <1>3 DEF Same

LEMMA SameAdd ==
  ASSUME NEW m \in Nat, NEW x \in Int, NEW y \in Int, NEW u \in Int, NEW v \in Int,
         Same(m, x, y), Same(m, u, v)
  PROVE  Same(m, x + u, y + v) /\ Same(m, x - u, y - v)
  <1>1. PICK k \in Int : x = y + (m * k)
    BY DEF Same
  <1>2. PICK j \in Int : u = v + (m * j)
    BY DEF Same
  <1>3. /\ m * (k + j) = (m * k) + (m * j) /\ m * (k - j) = (m * k) - (m * j)
        /\ m * k \in Int /\ m * j \in Int
    OBVIOUS
  <1>4. /\ k + j \in Int /\ x + u = (y + v) + (m * (k + j))
        /\ k - j \in Int /\ x - u = (y - v) + (m * (k - j))
    BY <1>1, <1>2, <1>3
  <1> QED
    BY <1>4 DEF Same

LEMMA SameTrans ==
  ASSUME NEW m \in Nat, NEW x \in Int, NEW y \in Int, NEW u \in Int,
         Same(m, x, y), Same(m, y, u)
  PROVE  Same(m, x, u)
  <1>1. PICK k \in Int : x = y + (m * k)
    BY DEF Same
  <1>2. PICK j \in Int : y = u + (m * j)
    BY DEF Same
  <1>3. m * (k + j) = (m * k) + (m * j) /\ m * k \in Int /\ m * j \in Int
    OBVIOUS
  <1>4. k + j \in Int /\ x = u + (m * (k + j))
    BY <1>1, <1>2, <1>3
  <1> QED
    BY <1>4 DEF Same

LEMMA SameMul ==
  ASSUME NEW m \in Nat, NEW x \in Int, NEW y \in Int, NEW u \in Int, NEW v \in Int,
         Same(m, x, y), Same(m, u, v)
  PROVE  Same(m, x * u, y * v)
  <1>1. PICK k \in Int : x = y + (m * k)
    BY DEF Same
  <1>2. PICK j \in Int : u = v + (m * j)
    BY DEF Same
  <1> DEFINE l == (y * j) + (k * u)
  <1>3. l \in Int
    OBVIOUS
  <1>4. x * u = (y * u) + (m * (k * u))
    BY <1>1
  <1>5. y * u = (y * v) + (m * (y * j))
    BY <1>2
  <1>6. m * l = (m * (y * j)) + (m * (k * u))
    OBVIOUS
  <1>7. x * u = (y * v) + (m * l)
    <2> DEFINE yv == y * v
               yu == y * u
               a == m * (y * j)
               b == m * (k * u)
    <2>1. yv \in Int /\ yu \in Int /\ a \in Int /\ b \in Int
      OBVIOUS
    <2>2. x * u = yu + b /\ yu = yv + a /\ m * l = a + b
      BY <1>4, <1>5, <1>6
    <2> HIDE DEF l, yv, yu, a, b
    <2>3. x * u = yv + (m * l)
      BY <2>1, <2>2
    <2> QED
      BY <2>3 DEF yv
  <1> QED
    BY <1>3, <1>7 DEF Same

(* Two that are congruent and less than m apart are the same.              *)
LEMMA SameOnly ==
  ASSUME NEW m \in Nat, NEW x \in Int, NEW y \in Int, Same(m, x, y), x - y < m, y - x < m
  PROVE  x = y
  <1>1. PICK k \in Int : x = y + (m * k)
    BY DEF Same
  <1>2. ~(k >= 1)
    <2> SUFFICES ASSUME k >= 1 PROVE FALSE
      OBVIOUS
    <2>1. m * k >= m
      OBVIOUS
    <2> QED
      BY <1>1, <2>1
  <1>3. ~(k <= -1)
    <2> SUFFICES ASSUME k <= -1 PROVE FALSE
      OBVIOUS
    <2> DEFINE e == m * k
    <2>1. e \in Int /\ e <= -m /\ x = y + e
      BY <1>1
    <2> HIDE DEF e
    <2> QED
      BY <2>1
  <1>4. k = 0
    BY <1>2, <1>3
  <1> QED
    BY <1>1, <1>4

LEMMA ModSame ==
  ASSUME NEW m \in Nat, m > 0, NEW x \in Int
  PROVE  x % m \in Nat /\ x % m < m /\ Same(m, x % m, x)
  <1> DEFINE q == x \div m
             r == x % m
  <1>1. q \in Int /\ r \in Nat /\ r < m /\ x = (m * q) + r
    BY DivMod
  <1> HIDE DEF q, r
  <1>2. m * (-q) = -(m * q) /\ m * q \in Int
    BY <1>1
  <1>3. -q \in Int /\ r = x + (m * (-q))
    BY <1>1, <1>2
  <1>4. r \in Nat /\ r < m /\ Same(m, r, x)
    BY <1>1, <1>3 DEF Same
  <1> QED
    BY <1>4 DEF r

-----------------------------------------------------------------------------
(* Types: a width w of at least 2 holds 2^w values, half of them negative  *)
(* if it is signed.                                                        *)

Types == Number!Types
Lowest(t) == Number!Lowest(t)
Highest(t) == Number!Highest(t)
Holds(t, x) == Number!Holds(t, x)
As(t, x) == Number!As(t, x)
U(t, x) == Number!U(t, x)

Half(t) == Pow2[t.w - 1]
Range2(t) == Pow2[t.w]

LEMMA TypeBounds ==
  ASSUME NEW t \in Types
  PROVE  /\ t.w \in Widths /\ t.w \in Nat /\ t.w >= 2 /\ t.s \in BOOLEAN /\ t.w < Half(t)
         /\ Half(t) \in Nat /\ Half(t) >= 2 /\ Range2(t) = 2 * Half(t) /\ Range2(t) \in Nat
         /\ Lowest(t) = (IF t.s THEN -Half(t) ELSE 0)
         /\ Highest(t) = (IF t.s THEN Half(t) - 1 ELSE (2 * Half(t)) - 1)
  <1>1. /\ t.w \in Widths /\ t.w \in Nat /\ t.w >= 2 /\ t.s \in BOOLEAN
        /\ t.w < Half(t)
    <2>1. /\ Widths \subseteq Nat \ {0, 1}
          /\ \A w \in Widths : w < Pow2[w - 1]
      BY AlgorithmsAssumption, Zenon DEF Number!Assumption, Pow2
    <2>2. t.w \in Widths /\ t.s \in BOOLEAN
      BY DEF Types, Number!Types
    <2>3. t.w < Pow2[t.w - 1] /\ t.w \in Nat \ {0, 1}
      BY <2>1, <2>2, Zenon
    <2> QED
      BY <2>2, <2>3 DEF Half
  <1>2. t.w - 1 \in Nat /\ (t.w - 1) + 1 = t.w
    BY <1>1
  <1>3. Half(t) \in Nat /\ Range2(t) = 2 * Half(t)
    BY <1>2, Pow2Step DEF Half, Range2
  <1>4. Lowest(t) = (IF t.s THEN -Half(t) ELSE 0)
    BY DEF Lowest, Number!Lowest, Half, Pow2
  <1>5. Highest(t) = (IF t.s THEN Half(t) - 1 ELSE Range2(t) - 1)
    BY DEF Highest, Number!Highest, Half, Range2, Pow2
  <1> QED
    BY <1>1, <1>3, <1>4, <1>5

LEMMA HoldsIs ==
  ASSUME NEW t, NEW x
  PROVE  Holds(t, x) <=> Lowest(t) <= x /\ x <= Highest(t)
  BY DEF Holds, Number!Holds, Lowest, Highest

LEMMA UIs ==
  ASSUME NEW t \in Types, NEW x \in Int
  PROVE  /\ U(t, x) = x % Range2(t)
         /\ U(t, x) \in Nat /\ U(t, x) < Range2(t) /\ Same(Range2(t), U(t, x), x)
  <1>1. U(t, x) = x % Range2(t)
    BY DEF U, Number!U, Range2, Pow2
  <1> DEFINE m == Range2(t)
  <1>2. m \in Nat /\ m > 0
    BY TypeBounds
  <1>3. x % m \in Nat /\ x % m < m /\ Same(m, x % m, x)
    BY <1>2, ModSame
  <1> QED
    BY <1>1, <1>3, Zenon

LEMMA AsIs ==
  ASSUME NEW t \in Types, NEW x \in Int
  PROVE  /\ As(t, x) \in Int /\ Holds(t, As(t, x)) /\ Same(Range2(t), As(t, x), x)
         /\ As(t, x) = (IF t.s /\ U(t, x) >= Half(t) THEN U(t, x) - Range2(t) ELSE U(t, x))
  <1> DEFINE m == Range2(t)
             u == U(t, x)
  <1>1. m \in Nat /\ u \in Nat /\ u < m /\ Same(m, u, x)
    BY TypeBounds, UIs
  <1>2. As(t, x) = IF t.s /\ u >= Half(t) THEN u - m ELSE u
    BY DEF As, Number!As, U, Number!U, Range2, Half, Pow2
  <1>3. As(t, x) \in Int /\ Holds(t, As(t, x))
    BY <1>1, <1>2, TypeBounds, HoldsIs
  <1> HIDE DEF m, u
  <1>4. Same(m, u - m, u)
    <2>1. -1 \in Int /\ u - m = u + (m * (-1))
      BY <1>1
    <2> QED
      BY <2>1 DEF Same
  <1>5. u - m \in Int /\ u \in Int /\ m \in Nat /\ x \in Int
    BY <1>1
  <1>6. Same(m, u - m, x)
    BY <1>1, <1>4, <1>5, SameTrans
  <1>7. Same(m, As(t, x), x)
    BY <1>1, <1>2, <1>6
  <1> QED
    BY <1>2, <1>3, <1>7 DEF m, u

(* The value of a type that is congruent to x.                             *)
LEMMA AsOnly ==
  ASSUME NEW t \in Types, NEW x \in Int, NEW y \in Int, Holds(t, y), Same(Range2(t), y, x)
  PROVE  As(t, x) = y
  <1> DEFINE m == Range2(t)
             a == As(t, x)
  <1>1. a \in Int /\ Holds(t, a) /\ Same(m, a, x) /\ m \in Nat
    BY AsIs, TypeBounds
  <1>2. a - y < m /\ y - a < m
    BY <1>1, HoldsIs, TypeBounds
  <1> HIDE DEF m, a
  <1>3. Same(m, a, y)
    <2>1. Same(m, x, y)
      BY <1>1, SameSym DEF m
    <2> QED
      BY <1>1, <2>1, SameTrans
  <1>4. a = y
    BY <1>1, <1>2, <1>3, SameOnly
  <1> QED
    BY <1>4 DEF a

LEMMA AsKeeps ==
  ASSUME NEW t \in Types, NEW x \in Int, Holds(t, x)
  PROVE  As(t, x) = x
  BY AsOnly, SameRefl, TypeBounds

LEMMA UOnly ==
  ASSUME NEW t \in Types, NEW x \in Int, NEW y \in Nat, y < Range2(t), Same(Range2(t), y, x)
  PROVE  U(t, x) = y
  <1> DEFINE m == Range2(t)
             a == U(t, x)
  <1>1. a \in Nat /\ a < m /\ Same(m, a, x) /\ m \in Nat
    BY UIs, TypeBounds
  <1> HIDE DEF m, a
  <1>2. a \in Int /\ y \in Int /\ a - y < m /\ y - a < m
    BY <1>1 DEF m
  <1>3. Same(m, x, y)
    BY <1>1, <1>2, SameSym DEF m
  <1>4. Same(m, a, y)
    BY <1>1, <1>2, <1>3, SameTrans
  <1>5. a = y
    BY <1>1, <1>2, <1>4, SameOnly
  <1> QED
    BY <1>5 DEF a

LEMMA UKeeps ==
  ASSUME NEW t \in Types, NEW x \in Nat, x < Range2(t)
  PROVE  U(t, x) = x
  <1>1. Same(Range2(t), x, x)
    BY SameRefl, TypeBounds
  <1> QED
    BY <1>1, UOnly

LEMMA UAs ==
  ASSUME NEW t \in Types, NEW x \in Int
  PROVE  U(t, As(t, x)) = U(t, x)
  <1> DEFINE m == Range2(t)
             a == As(t, x)
             u == U(t, x)
  <1>1. /\ a \in Int /\ Same(m, a, x) /\ m \in Nat /\ x \in Int
        /\ u \in Nat /\ u \in Int /\ u < m /\ Same(m, u, x)
    BY AsIs, UIs, TypeBounds
  <1> HIDE DEF m, a, u
  <1>2. Same(m, x, a)
    BY <1>1, SameSym
  <1>3. Same(m, u, a)
    BY <1>1, <1>2, SameTrans
  <1>4. U(t, a) = u
    BY <1>1, <1>3, UOnly DEF m
  <1> QED
    BY <1>4 DEF a, u

-----------------------------------------------------------------------------
(* Sums, differences, products and negation.                               *)

Congruent(t, x, y) == Number!Congruent(t, x, y)

LEMMA CongruentIs ==
  ASSUME NEW t \in Types, NEW x \in Int, NEW y \in Int
  PROVE  Congruent(t, x, y) <=> Same(Range2(t), x, y)
  <1>1. Range2(t) \in Nat /\ Range2(t) > 0
    BY TypeBounds
  <1>2. Same(Range2(t), x, y) <=> (x - y) % Range2(t) = 0
    BY <1>1, SameIs
  <1> QED
    BY <1>2, Zenon DEF Congruent, Number!Congruent, Range2, Pow2

(* What is wrapped keeps what it is congruent to.                          *)
LEMMA AsCongruent ==
  ASSUME NEW t \in Types, NEW x \in Int, NEW y \in Int, Same(Range2(t), x, y)
  PROVE  As(t, x) \in Int /\ Holds(t, As(t, x)) /\ Congruent(t, As(t, x), y)
  <1> DEFINE m == Range2(t)
             a == As(t, x)
  <1>1. a \in Int /\ Holds(t, a) /\ Same(m, a, x) /\ m \in Nat /\ Same(m, x, y)
    BY AsIs, TypeBounds
  <1> HIDE DEF m, a
  <1>2. Same(m, a, y)
    BY <1>1, SameTrans
  <1>3. Congruent(t, a, y)
    BY <1>1, <1>2, CongruentIs DEF m
  <1> QED
    BY <1>1, <1>3 DEF a

LEMMA SumsExact ==
  ASSUME NEW t \in Types, NEW a \in Int, NEW b \in Int
  PROVE  /\ /\ Number!Add(t, a, b) \in Int /\ Holds(t, Number!Add(t, a, b))
            /\ Congruent(t, Number!Add(t, a, b), a + b)
         /\ /\ Number!Sub(t, a, b) \in Int /\ Holds(t, Number!Sub(t, a, b))
            /\ Congruent(t, Number!Sub(t, a, b), a - b)
  <1> DEFINE m == Range2(t)
             u == U(t, a)
             v == U(t, b)
  <1>1. /\ m \in Nat /\ u \in Int /\ v \in Int /\ Same(m, u, a) /\ Same(m, v, b)
        /\ Number!Add(t, a, b) = As(t, u + v) /\ Number!Sub(t, a, b) = As(t, u - v)
    BY TypeBounds, UIs DEF Number!Add, Number!Sub, As, U
  <1> HIDE DEF m, u, v
  <1>2. /\ u + v \in Int /\ u - v \in Int /\ a + b \in Int /\ a - b \in Int
        /\ Same(m, u + v, a + b) /\ Same(m, u - v, a - b)
    BY <1>1, SameAdd
  <1>3. /\ As(t, u + v) \in Int /\ Holds(t, As(t, u + v)) /\ Congruent(t, As(t, u + v), a + b)
        /\ As(t, u - v) \in Int /\ Holds(t, As(t, u - v)) /\ Congruent(t, As(t, u - v), a - b)
    BY <1>2, AsCongruent DEF m
  <1> QED
    BY <1>1, <1>3

LEMMA UndefinedIsNone == Undefined \notin Int /\ Error \notin Int /\ NaN \notin Int
  <1>1. {NaN, Undefined, Error} \cap Int = {}
    BY AlgorithmsAssumption, Zenon DEF Number!Assumption
  <1> QED
    BY <1>1

LEMMA ProductExact ==
  ASSUME NEW t \in Types, NEW a \in Int, NEW b \in Int
  PROVE  \/ Number!Mul(t, a, b) = Undefined
         \/ /\ Number!Mul(t, a, b) \in Int /\ Holds(t, Number!Mul(t, a, b))
            /\ Congruent(t, Number!Mul(t, a, b), a * b)
  <1> DEFINE m == Range2(t)
             u == U(t, a)
             v == U(t, b)
             p == Number!UnsignedProduct(t, u, v)
  <1>1. /\ m \in Nat /\ u \in Int /\ v \in Int /\ Same(m, u, a) /\ Same(m, v, b)
    BY TypeBounds, UIs
  <1>2. p = Undefined \/ p = u * v
    BY DEF Number!UnsignedProduct
  <1>3. Number!Mul(t, a, b) = IF p = Undefined THEN Undefined ELSE As(t, p)
    BY DEF Number!Mul, As, U
  <1> HIDE DEF m, u, v, p
  <1>4. u * v \in Int /\ a * b \in Int /\ Same(m, u * v, a * b)
    BY <1>1, SameMul
  <1>5. /\ As(t, u * v) \in Int /\ Holds(t, As(t, u * v)) /\ Congruent(t, As(t, u * v), a * b)
    BY <1>4, AsCongruent DEF m
  <1> QED
    BY <1>2, <1>3, <1>5

Clamped(t, x, ret) == Number!Clamped(t, x, ret)

LEMMA ClampedIs ==
  ASSUME NEW t, NEW x, NEW ret
  PROVE  Clamped(t, x, ret) <=>
           /\ Holds(t, ret)
           /\ Holds(t, x) => ret = x
           /\ x > Highest(t) => ret = Highest(t)
           /\ x < Lowest(t) => ret = Lowest(t)
  BY Zenon DEF Clamped, Number!Clamped, Holds, Highest, Lowest

LEMMA NegExact ==
  ASSUME NEW t \in Types, t.s, NEW a \in Int, Holds(t, a)
  PROVE  /\ Number!Neg(t, a) \in Int /\ Holds(t, Number!Neg(t, a))
         /\ Clamped(t, -a, Number!Neg(t, a))
  <1>1. Number!Neg(t, a) = IF a = Lowest(t) THEN Highest(t) ELSE -a
    BY DEF Number!Neg, Lowest, Highest
  <1>2. /\ Lowest(t) = -Half(t) /\ Highest(t) = Half(t) - 1 /\ Half(t) \in Nat /\ Half(t) >= 2
        /\ Lowest(t) <= a /\ a <= Highest(t)
    BY TypeBounds, HoldsIs
  <1> DEFINE r == Number!Neg(t, a)
  <1>3. r \in Int /\ Lowest(t) <= r /\ r <= Highest(t)
    BY <1>1, <1>2
  <1>4. Holds(t, r) /\ (Holds(t, -a) <=> Lowest(t) <= -a /\ -a <= Highest(t))
    BY <1>3, HoldsIs
  <1>5. /\ Lowest(t) <= -a /\ -a <= Highest(t) => r = -a
        /\ -a > Highest(t) => r = Highest(t)
        /\ ~(-a < Lowest(t))
    BY <1>1, <1>2
  <1> HIDE DEF r
  <1>6. Clamped(t, -a, r)
    BY <1>4, <1>5, ClampedIs
  <1> QED
    BY <1>3, <1>4, <1>6 DEF r

-----------------------------------------------------------------------------
(* Bitwise operations.                                                     *)

Ones(t, a) == Number!Ones(t, a)
FromBits(t, S) == Number!FromBits(t, S)

LEMMA OnesIs ==
  ASSUME NEW t \in Types, NEW a \in Int
  PROVE  /\ \A i \in Nat : i \in Ones(t, a) <=> i < t.w /\ Bit(U(t, a), i) = 1
         /\ Ones(t, a) \subseteq Nat
         /\ Value(t.w, Ones(t, a)) = U(t, a)
  <1>1. Ones(t, a) = {i \in 0 .. t.w - 1 : Bit(U(t, a), i) = 1}
    BY DEF Ones, Number!Ones, Bit, U
  <1>2. t.w \in Nat
    BY TypeBounds
  <1>3. \A i \in Nat : i \in Ones(t, a) <=> i < t.w /\ Bit(U(t, a), i) = 1
    BY <1>1, <1>2
  <1>4. \A i \in 0 .. t.w - 1 : Bit(U(t, a), i) = 1 <=> i \in Ones(t, a)
    BY <1>1
  <1>5. U(t, a) \in Nat /\ U(t, a) < Pow2[t.w]
    BY UIs DEF Range2
  <1>6. Value(t.w, Ones(t, a)) = U(t, a)
    BY <1>2, <1>4, <1>5, BitsValue
  <1> QED
    BY <1>1, <1>2, <1>3, <1>6

LEMMA FromBitsIs ==
  ASSUME NEW t \in Types, NEW S
  PROVE  /\ FromBits(t, S) = As(t, Value(t.w, S))
         /\ FromBits(t, S) \in Int /\ Holds(t, FromBits(t, S))
         /\ U(t, FromBits(t, S)) = Value(t.w, S)
         /\ \A i \in Nat : i \in Ones(t, FromBits(t, S)) <=> i < t.w /\ i \in S
  <1> DEFINE v == Value(t.w, S)
             r == FromBits(t, S)
  <1>1. r = As(t, v)
    BY DEF FromBits, Number!FromBits, Value, As, Pow2
  <1>2. t.w \in Nat /\ v \in Nat /\ v < Range2(t)
    BY TypeBounds, ValueBound DEF Range2
  <1>3. r \in Int /\ Holds(t, r)
    BY <1>1, <1>2, AsIs
  <1>4. U(t, r) = v
    BY <1>1, <1>2, UAs, UKeeps
  <1>5. ASSUME NEW i \in Nat
        PROVE  i \in Ones(t, r) <=> i < t.w /\ i \in S
    <2>1. i \in Ones(t, r) <=> i < t.w /\ Bit(U(t, r), i) = 1
      <3> HIDE DEF r
      <3> QED
        BY <1>3, OnesIs
    <2>2. i < t.w => (Bit(Value(t.w, S), i) = 1 <=> i \in S)
      BY <1>2, ValueBits
    <2> QED
      BY <1>4, <2>1, <2>2
  <1> QED
    BY <1>1, <1>3, <1>4, <1>5

LEMMA NotExact ==
  ASSUME NEW t \in Types, NEW a \in Int
  PROVE  /\ Number!Not(t, a) \in Int /\ Holds(t, Number!Not(t, a))
         /\ Congruent(t, Number!Not(t, a), -1 - a)
  <1> DEFINE A == Ones(t, a)
             B == (0 .. t.w - 1) \ A
             m == Range2(t)
             u == U(t, a)
             v == Value(t.w, B)
  <1>0. t.w \in Nat /\ m \in Nat /\ u \in Nat /\ Same(m, u, a)
    BY TypeBounds, UIs
  <1>1. Number!Not(t, a) = As(t, v)
    <2>1. Number!Not(t, a) = FromBits(t, B)
      BY DEF Number!Not, FromBits, Ones
    <2> QED
      BY <2>1, FromBitsIs
  <1>2. Value(t.w, B \cup A) = m - 1
    <2>1. \A i \in 0 .. t.w - 1 : i \in B \cup A <=> i \in Nat
      OBVIOUS
    <2>2. Value(t.w, B \cup A) = Value(t.w, Nat)
      <3> HIDE DEF A, B
      <3> QED
        BY <1>0, <2>1, ValueSame
    <2> QED
      BY <1>0, <2>2, ValueFull DEF Range2
  <1>3. Value(t.w, B \cap A) = 0
    <2>1. B \cap A = {}
      OBVIOUS
    <2> QED
      BY <1>0, <2>1, ValueEmpty
  <1>4. Value(t.w, A) = u
    BY OnesIs
  <1>5. v \in Nat
    BY <1>0, ValueBound
  <1>6. v + u = m - 1
    <2>1. Value(t.w, B \cup A) + Value(t.w, B \cap A) = Value(t.w, B) + Value(t.w, A)
      <3> HIDE DEF A, B
      <3> QED
        BY <1>0, ValueAdds
    <2> HIDE DEF A, B
    <2> QED
      BY <1>0, <1>2, <1>3, <1>4, <1>5, <2>1
  <1> HIDE DEF A, B, m, u, v
  <1>7. Same(m, v, -1 - a)
    <2>1. Same(m, -1 + m, -1)
      <3>1. 1 \in Int /\ -1 + m = -1 + (m * 1)
        BY <1>0
      <3> QED
        BY <3>1 DEF Same
    <2>2. v = (-1 + m) - u /\ -1 + m \in Int /\ -1 \in Int /\ u \in Int
      BY <1>0, <1>5, <1>6
    <2>3. Same(m, (-1 + m) - u, -1 - a)
      BY <1>0, <2>1, <2>2, SameAdd
    <2> QED
      BY <2>2, <2>3
  <1>8. /\ As(t, v) \in Int /\ Holds(t, As(t, v)) /\ Congruent(t, As(t, v), -1 - a)
    <2>1. v \in Int /\ -1 - a \in Int
      BY <1>5
    <2> QED
      BY <1>7, <2>1, AsCongruent DEF m
  <1> QED
    BY <1>1, <1>8

(* Two that are worth what they add up to without their common digits.     *)
LEMMA BitsExact ==
  ASSUME NEW t \in Types, NEW a \in Int, NEW b \in Int
  PROVE  LET meet == Number!And(t, a, b)
             join == Number!Or(t, a, b)
             either == Number!Xor(t, a, b)
         IN /\ meet \in Int /\ Holds(t, meet) /\ join \in Int /\ Holds(t, join)
            /\ either \in Int /\ Holds(t, either)
            /\ Congruent(t, meet + join, a + b) /\ Congruent(t, join + meet, a + b)
            /\ Congruent(t, either + 2 * meet, a + b)
  <1> DEFINE A == Ones(t, a)
             B == Ones(t, b)
             D == (A \cup B) \ (A \cap B)
             m == Range2(t)
             i == Value(t.w, A \cap B)
             j == Value(t.w, A \cup B)
             e == Value(t.w, D)
             u == U(t, a)
             v == U(t, b)
             meet == Number!And(t, a, b)
             join == Number!Or(t, a, b)
             either == Number!Xor(t, a, b)
  <1>0. /\ t.w \in Nat /\ m \in Nat /\ u \in Nat /\ Same(m, u, a) /\ v \in Nat /\ Same(m, v, b)
    BY TypeBounds, UIs
  <1>1. /\ meet = As(t, i) /\ join = As(t, j) /\ either = As(t, e)
    <2>1. meet = FromBits(t, A \cap B) /\ join = FromBits(t, A \cup B) /\ either = FromBits(t, D)
      BY DEF Number!And, Number!Or, Number!Xor, FromBits, Ones
    <2> HIDE DEF meet, join, either, A, B, D
    <2> QED
      BY <2>1, FromBitsIs
  <1>2. i \in Nat /\ j \in Nat /\ e \in Nat
    BY <1>0, ValueBound
  <1>3. j + i = u + v
    <2>1. Value(t.w, A) = u /\ Value(t.w, B) = v
      BY OnesIs
    <2> HIDE DEF A, B
    <2> QED
      BY <1>0, <2>1, ValueAdds
  <1>4. e + i = j
    <2>1. D \cup (A \cap B) = A \cup B /\ D \cap (A \cap B) = {}
      OBVIOUS
    <2>2. Value(t.w, {}) = 0
      BY <1>0, ValueEmpty
    <2> DEFINE C == A \cap B
    <2>3. Value(t.w, D \cup C) + Value(t.w, D \cap C) = Value(t.w, D) + Value(t.w, C)
      <3> HIDE DEF A, B, C, D
      <3> QED
        BY <1>0, ValueAdds
    <2> QED
      BY <1>2, <2>1, <2>2, <2>3
  <1> HIDE DEF A, B, D, i, j, e, u, v, m, meet, join, either
  <1>5. Same(m, u + v, a + b) /\ a + b \in Int
    BY <1>0, SameAdd
  <1>6. /\ meet \in Int /\ Holds(t, meet) /\ Same(m, meet, i)
        /\ join \in Int /\ Holds(t, join) /\ Same(m, join, j)
        /\ either \in Int /\ Holds(t, either) /\ Same(m, either, e)
    BY <1>1, <1>2, AsIs DEF m
  <1>7. Same(m, join + meet, j + i)
    BY <1>0, <1>2, <1>6, SameAdd
  <1>8. Same(m, (either + meet) + meet, (e + i) + i)
    <2>1. Same(m, either + meet, e + i)
      BY <1>0, <1>2, <1>6, SameAdd
    <2>2. either + meet \in Int /\ e + i \in Int
      BY <1>2, <1>6
    <2> QED
      BY <1>0, <1>2, <1>6, <2>1, <2>2, SameAdd
  <1>9. /\ meet + join \in Int /\ meet + join = join + meet
        /\ either + 2 * meet \in Int /\ (either + meet) + meet = either + 2 * meet
        /\ (e + i) + i = u + v
    BY <1>0, <1>2, <1>3, <1>4, <1>6
  <1>10. Same(m, join + meet, a + b) /\ Same(m, either + 2 * meet, a + b)
    <2>1. j + i \in Int /\ u + v \in Int
      BY <1>0, <1>2
    <2> QED
      BY <1>0, <1>3, <1>5, <1>7, <1>8, <1>9, <2>1, SameTrans
  <1>11. /\ Congruent(t, join + meet, a + b) /\ Congruent(t, meet + join, a + b)
         /\ Congruent(t, either + 2 * meet, a + b)
    BY <1>5, <1>9, <1>10, CongruentIs DEF m
  <1> QED
    BY <1>6, <1>11 DEF meet, join, either

-----------------------------------------------------------------------------
(* Shifts.                                                                 *)

LEMMA BitAbove ==
  ASSUME NEW x \in Nat, NEW w \in Nat, x < Pow2[w], NEW i \in Nat, w <= i
  PROVE  Bit(x, i) = 0
  <1>1. Pow2[i] \in Nat /\ x < Pow2[i]
    <2>1. Pow2[w] \in Nat /\ Pow2[i] \in Nat
      BY Pow2Exceeds
    <2>2. Pow2[w] <= Pow2[i]
      BY Pow2Grows
    <2> QED
      BY <2>1, <2>2
  <1>2. x = (Pow2[i] * 0) + x
    BY <1>1
  <1>3. x \div Pow2[i] = 0
    BY <1>1, <1>2, DivUnique
  <1> QED
    BY <1>3, BitIs

LEMMA BitMod ==
  ASSUME NEW y \in Nat, NEW w \in Nat, NEW i \in Nat, i < w
  PROVE  Bit(y % Pow2[w], i) = Bit(y, i)
  <1> DEFINE m == Pow2[w]
             p == Pow2[i]
             h == Pow2[w - i - 1]
             q == y \div m
             r == y % m
             s == r \div p
             z == r % p
  <1>1. p \in Nat /\ p > 0 /\ h \in Nat /\ m = p * (2 * h) /\ m \in Nat /\ m > 0
    <2>1. w - i - 1 \in Nat /\ (w - i - 1) + 1 = w - i /\ w - i \in Nat
      OBVIOUS
    <2>2. Pow2[w - i] = 2 * h
      BY <2>1, Pow2Step
    <2>3. m = p * Pow2[w - i]
      BY Pow2Grows
    <2> QED
      BY <2>1, <2>2, <2>3, Pow2Exceeds
  <1>2. Bit(y, i) = (y \div p) % 2
    BY BitIs
  <1>3. q \in Int /\ r \in Nat /\ y = (m * q) + r
    <2>1. m \in Nat /\ m > 0
      BY <1>1
    <2> HIDE DEF m
    <2> QED
      BY <2>1, DivMod
  <1>4. Bit(r, i) = s % 2
    BY <1>3, BitIs
  <1> HIDE DEF p, h, m
  <1>5. s \in Int /\ z \in Nat /\ z < p /\ r = (p * s) + z
    BY <1>1, <1>3, DivMod
  <1> HIDE DEF q, r, s, z
  <1> DEFINE c == (2 * (h * q)) + s
  <1>6. c \in Int /\ h * q \in Int
    BY <1>1, <1>3, <1>5
  <1>7. y = (p * c) + z
    <2>1. m * q = p * (2 * (h * q))
      BY <1>1, <1>3
    <2>2. p * c = (p * (2 * (h * q))) + (p * s)
      BY <1>1, <1>5, <1>6
    <2> DEFINE e == p * (2 * (h * q))
               f == p * s
    <2>3. e \in Int /\ f \in Int /\ p * c = e + f /\ y = e + r /\ r = f + z
      BY <1>1, <1>3, <1>5, <1>6, <2>1, <2>2
    <2> HIDE DEF e, f, c
    <2> QED
      BY <1>3, <1>5, <2>3
  <1>8. y \div p = c
    <2> HIDE DEF c
    <2> QED
      BY <1>1, <1>5, <1>6, <1>7, DivUnique
  <1>9. c % 2 = s % 2
    <2> DEFINE g == h * q
    <2>1. g \in Int /\ c = (2 * g) + s
      BY <1>6
    <2> HIDE DEF g, c
    <2> QED
      BY <1>5, <2>1
  <1> QED
    BY <1>2, <1>4, <1>8, <1>9 DEF r, m

LEMMA BitUp ==
  ASSUME NEW x \in Nat, NEW d \in Nat, NEW i \in Nat
  PROVE  x * Pow2[d] \in Nat /\ Bit(x * Pow2[d], i) = (IF i >= d THEN Bit(x, i - d) ELSE 0)
  <1>1. Pow2[d] \in Nat /\ Pow2[d] > 0 /\ Pow2[i] \in Nat /\ Pow2[i] > 0
    BY Pow2Exceeds
  <1>2. x * Pow2[d] \in Nat
    BY <1>1
  <1>3. Bit(x * Pow2[d], i) = ((x * Pow2[d]) \div Pow2[i]) % 2
    BY <1>2, BitIs
  <1>4. CASE i >= d
    <2> DEFINE p == Pow2[d]
               g == Pow2[i - d]
               q == x \div g
               r == x % g
    <2>1. i - d \in Nat /\ g \in Nat /\ g > 0 /\ Pow2[i] = p * g
      BY <1>4, Pow2Grows, Pow2Exceeds
    <2>2. q \in Int /\ r \in Nat /\ r < g /\ x = (g * q) + r
      <3>1. g \in Nat /\ g > 0
        BY <2>1
      <3> HIDE DEF g
      <3> QED
        BY <3>1, DivMod
    <2>3. Bit(x, i - d) = q % 2
      BY <2>1, BitIs
    <2> DEFINE pg == p * g
    <2>4. pg \in Nat /\ Pow2[i] = pg /\ p \in Nat /\ p > 0
      BY <1>1, <2>1
    <2> HIDE DEF p, g, q, r
    <2>5. x * p = (pg * q) + (p * r) /\ p * r \in Nat /\ p * r < pg /\ x * p \in Nat
      <3>1. x * p = (p * g) * q + (p * r)
        BY <2>1, <2>2, <2>4
      <3>2. p * r \in Nat /\ p * r < p * g
        BY <2>1, <2>2, <2>4
      <3>3. x * p \in Nat
        BY <2>4
      <3> QED
        BY <3>1, <3>2, <3>3
    <2> DEFINE pr == p * r
               xp == x * p
    <2>6. (x * p) \div pg = q
      <3>1. xp = (pg * q) + pr /\ pr \in Nat /\ pr < pg /\ xp \in Int
        BY <2>5
      <3> HIDE DEF pg, pr, xp
      <3>2. q \in Int /\ pg \in Nat
        BY <2>2, <2>4
      <3>3. xp \div pg = q
        BY <3>1, <3>2, DivUnique
      <3> QED
        BY <3>3 DEF xp
    <2>7. Bit(x * Pow2[d], i) = q % 2
      BY <1>3, <2>4, <2>6 DEF p
    <2> QED
      BY <1>2, <1>4, <2>3, <2>7
  <1>5. CASE i < d
    <2> DEFINE p == Pow2[i]
               h == Pow2[d - i - 1]
               xh == x * h
               xd == x * Pow2[d]
    <2>1. d - i - 1 \in Nat /\ (d - i - 1) + 1 = d - i /\ d - i \in Nat
      BY <1>5
    <2>2. Pow2[d - i] = 2 * h /\ Pow2[d] = p * Pow2[d - i] /\ h \in Nat
      <3>1. Pow2[d] = p * Pow2[d - i]
        BY <1>5, Pow2Grows
      <3>2. Pow2[d - i] = 2 * h /\ h \in Nat
        BY <2>1, Pow2Step, Pow2Exceeds
      <3> QED
        BY <3>1, <3>2
    <2>3. xh \in Nat /\ xd = (p * (2 * xh)) + 0 /\ xd \in Int
      <3>1. Pow2[d] = p * (2 * h)
        BY <2>2
      <3> HIDE DEF p, h
      <3> QED
        BY <1>1, <1>2, <2>2, <3>1 DEF p
    <2> HIDE DEF xh, xd
    <2>4. 2 * xh \in Int /\ 0 \in Nat /\ 0 < p
      BY <1>1, <2>3
    <2>5. xd \div p = 2 * xh
      <3> HIDE DEF p
      <3>1. p \in Nat
        BY <1>1 DEF p
      <3> QED
        BY <2>3, <2>4, <3>1, DivUnique
    <2>6. (2 * xh) % 2 = 0
      BY <2>3
    <2>7. Bit(x * Pow2[d], i) = 0
      BY <1>3, <2>5, <2>6 DEF xd
    <2> QED
      BY <1>2, <1>5, <2>7
  <1> QED
    BY <1>4, <1>5

LEMMA BitDown ==
  ASSUME NEW x \in Nat, NEW d \in Nat, NEW i \in Nat
  PROVE  x \div Pow2[d] \in Nat /\ x \div Pow2[d] <= x /\ Bit(x \div Pow2[d], i) = Bit(x, i + d)
  <1> DEFINE p == Pow2[d]
             g == Pow2[i]
             q == x \div p
             r == x % p
             c == q \div g
             z == q % g
  <1>1. /\ p \in Nat /\ p > 0 /\ g \in Nat /\ g > 0 /\ i + d \in Nat
        /\ Pow2[i + d] = g * p /\ Pow2[i + d] \in Nat
    <2>1. p \in Nat /\ p > 0 /\ g \in Nat /\ g > 0 /\ i + d \in Nat
      BY Pow2Exceeds
    <2>2. Pow2[i + d] = g * p
      BY Pow2Sum
    <2>3. Pow2[i + d] \in Nat
      BY <2>1, Pow2Exceeds
    <2> QED
      BY <2>1, <2>2, <2>3
  <1> HIDE DEF p, g
  <1>2. q \in Int /\ r \in Nat /\ r < p /\ x = (p * q) + r
    BY <1>1, DivMod
  <1>3. q \in Nat /\ q <= x
    <2> HIDE DEF q, r
    <2>1. ~(q <= -1)
      <3> SUFFICES ASSUME q <= -1 PROVE FALSE
        OBVIOUS
      <3> DEFINE e == p * q
      <3>1. e \in Int /\ e <= -p /\ x = e + r
        BY <1>1, <1>2
      <3> HIDE DEF e
      <3> QED
        BY <1>1, <1>2, <3>1
    <2>2. q \in Nat
      BY <1>2, <2>1
    <2> DEFINE e == p * q
    <2>3. e \in Int /\ e >= q /\ x = e + r
      BY <1>1, <1>2, <2>2
    <2> HIDE DEF e
    <2> QED
      BY <1>2, <2>2, <2>3
  <1>4. /\ Bit(x, i + d) = (x \div Pow2[i + d]) % 2 /\ Bit(q, i) = c % 2
    BY <1>1, <1>3, BitIs DEF g
  <1> HIDE DEF q, r
  <1>5. c \in Int /\ z \in Nat /\ z < g /\ q = (g * c) + z
    BY <1>1, <1>2, DivMod
  <1> HIDE DEF c, z
  <1> DEFINE gp == g * p
             pz == p * z
             y == pz + r
  <1>6. gp \in Nat /\ pz \in Nat /\ y \in Nat
    BY <1>1, <1>2, <1>5
  <1>7. y < gp
    <2>1. z <= g - 1
      BY <1>1, <1>5
    <2>2. p * z <= p * (g - 1)
      BY <1>1, <1>5, <2>1
    <2>3. p * (g - 1) = gp - p
      BY <1>1
    <2> HIDE DEF gp
    <2>4. pz <= gp - p
      BY <2>2, <2>3
    <2> HIDE DEF pz
    <2> QED
      BY <1>1, <1>2, <1>6, <2>4
  <1>8. x = (gp * c) + y
    <2>1. p * q = (gp * c) + pz
      BY <1>1, <1>5
    <2> DEFINE e == gp * c
    <2>2. e \in Int /\ p * q = e + pz
      BY <1>1, <1>5, <2>1
    <2> HIDE DEF e, gp, pz
    <2>3. x = e + (pz + r)
      BY <1>2, <1>6, <2>2
    <2> QED
      BY <2>3 DEF e
  <1>9. x \div gp = c
    <2> HIDE DEF gp, y
    <2> QED
      BY <1>5, <1>6, <1>7, <1>8, DivUnique
  <1> QED
    BY <1>1, <1>3, <1>4, <1>9 DEF q, p

(* The digits of a result of And, and the two masks.                       *)
LEMMA MeetBits ==
  ASSUME NEW t \in Types, NEW a \in Int, NEW b \in Int, NEW i \in Nat, i < t.w
  PROVE  Bit(U(t, Number!And(t, a, b)), i) = 1
           <=> Bit(U(t, a), i) = 1 /\ Bit(U(t, b), i) = 1
  <1> DEFINE S == Ones(t, a) \cap Ones(t, b)
  <1>1. Number!And(t, a, b) = FromBits(t, S)
    BY DEF Number!And, FromBits, Ones
  <1>2. FromBits(t, S) \in Int /\ (i \in Ones(t, FromBits(t, S)) <=> i < t.w /\ i \in S)
    BY FromBitsIs
  <1> DEFINE r == FromBits(t, S)
  <1>3. i \in Ones(t, r) <=> i < t.w /\ Bit(U(t, r), i) = 1
    <2> HIDE DEF r
    <2>1. r \in Int
      BY <1>2 DEF r
    <2> QED
      BY <2>1, OnesIs
  <1>4. i \in S <=> Bit(U(t, a), i) = 1 /\ Bit(U(t, b), i) = 1
    BY OnesIs
  <1> HIDE DEF S
  <1> QED
    BY <1>1, <1>2, <1>3, <1>4

LEMMA MaskBits ==
  ASSUME NEW t \in Types, NEW i \in Nat, i < t.w
  PROVE  /\ Number!Mask(t, TRUE) \in Int /\ Bit(U(t, Number!Mask(t, TRUE)), i) = 1
         /\ Number!Mask(t, FALSE) \in Int /\ Bit(U(t, Number!Mask(t, FALSE)), i) = 0
  <1> DEFINE yes == Number!Mask(t, TRUE)
             no == Number!Mask(t, FALSE)
  <1>1. yes = As(t, -1) /\ no = 0
    BY DEF Number!Mask, As
  <1> HIDE DEF yes, no
  <1>2. t.w \in Nat /\ Range2(t) \in Nat /\ Range2(t) > 0 /\ Range2(t) = Pow2[t.w]
    BY TypeBounds DEF Range2
  <1>3. Value(t.w, Nat) = Range2(t) - 1
    BY <1>2, ValueFull
  <1>4. U(t, -1) = Range2(t) - 1
    <2>1. Same(Range2(t), Range2(t) - 1, -1)
      <3> DEFINE m == Range2(t)
      <3>1. m \in Nat /\ m - 1 = -1 + (m * 1) /\ 1 \in Int
        BY <1>2
      <3> HIDE DEF m
      <3>2. Same(m, m - 1, -1)
        BY <3>1 DEF Same
      <3> QED
        BY <3>2 DEF m
    <2>2. Range2(t) - 1 \in Nat /\ Range2(t) - 1 < Range2(t) /\ -1 \in Int
      BY <1>2
    <2> QED
      BY <2>1, <2>2, UOnly
  <1>5. U(t, As(t, -1)) = Range2(t) - 1 /\ As(t, -1) \in Int
    <2>1. -1 \in Int
      OBVIOUS
    <2> QED
      BY <1>4, <2>1, UAs, AsIs
  <1>6. Bit(U(t, As(t, -1)), i) = 1
    BY <1>2, <1>3, <1>5, ValueBits
  <1>7. U(t, 0) = 0 /\ Bit(0, i) = 0
    <2>1. U(t, 0) = 0
      BY <1>2, UKeeps
    <2>2. 0 < Pow2[0]
      BY Pow2Step
    <2> QED
      BY <2>1, <2>2, BitAbove
  <1>8. yes \in Int /\ Bit(U(t, yes), i) = 1 /\ no \in Int /\ Bit(U(t, no), i) = 0
    BY <1>1, <1>5, <1>6, <1>7
  <1> QED
    BY <1>8 DEF yes, no

Moved(t, a, d, ret) == Number!Moved(t, a, d, ret)

LEMMA MovedIs ==
  ASSUME NEW t \in Types, NEW a \in Int, NEW d \in Int, NEW ret \in Int,
         \A i \in 0 .. t.w - 1 :
           Bit(U(t, ret), i) = 1 <=> i - d \in 0 .. t.w - 1 /\ Bit(U(t, a), i - d) = 1
  PROVE  Moved(t, a, d, ret)
  <1>1. ASSUME NEW i \in 0 .. t.w - 1
        PROVE  Bit(U(t, ret), i) = IF i - d \in 0 .. t.w - 1 THEN Bit(U(t, a), i - d) ELSE 0
    <2>1. i \in Nat /\ t.w \in Nat
      BY TypeBounds
    <2>2. U(t, ret) \in Nat /\ U(t, a) \in Nat
      BY UIs
    <2>3. Bit(U(t, ret), i) \in {0, 1}
      BY <2>1, <2>2, BitIs
    <2>4. CASE i - d \in 0 .. t.w - 1
      <3>1. i - d \in Nat
        BY <2>1, <2>4
      <3>2. Bit(U(t, a), i - d) \in {0, 1}
        BY <2>2, <3>1, BitIs
      <3> QED
        BY <2>3, <2>4, <3>2
    <2>5. CASE i - d \notin 0 .. t.w - 1
      BY <2>3, <2>5
    <2> QED
      BY <2>4, <2>5
  <1> QED
    BY <1>1 DEF Moved, Number!Moved, Bit, U

(* A shift by d positions in either direction, with the mask that clears   *)
(* the result when d is not below the width.                               *)
LEMMA MoveUp ==
  ASSUME NEW t \in Types, NEW a \in Int, NEW d \in Nat, NEW c \in BOOLEAN, c <=> d < t.w
  PROVE  LET r == Number!And(t, As(t, Number!ShiftLeft(t, a, Number!Lesser(d, t.w - 1))),
                             Number!Mask(t, c))
         IN r \in Int /\ Holds(t, r) /\ Moved(t, a, d, r)
  <1> DEFINE e == Number!Lesser(d, t.w - 1)
             y == Number!ShiftLeft(t, a, e)
             x == As(t, y)
             k == Number!Mask(t, c)
             r == Number!And(t, x, k)
             u == U(t, a)
  <1>1. t.w \in Nat /\ t.w >= 2 /\ u \in Nat /\ u < Pow2[t.w]
    BY TypeBounds, UIs DEF Range2
  <1>2. e \in Nat /\ (c => e = d)
    BY <1>1 DEF Number!Lesser
  <1>3. y = u * Pow2[e]
    BY DEF Number!ShiftLeft, U, Pow2
  <1> HIDE DEF e, u, y
  <1>4. y \in Nat
    BY <1>1, <1>2, <1>3, BitUp
  <1>5. x \in Int /\ U(t, x) = y % Pow2[t.w]
    BY <1>4, AsIs, UAs, UIs DEF Range2
  <1>6. k \in Int /\ \A i \in Nat : i < t.w => (Bit(U(t, k), i) = 1 <=> c)
    <2>1. CASE c = TRUE
      BY <1>1, <2>1, MaskBits
    <2>2. CASE c = FALSE
      <3>1. k = Number!Mask(t, FALSE)
        BY <2>2
      <3> HIDE DEF k
      <3>2. ASSUME NEW i \in Nat, i < t.w PROVE Bit(U(t, k), i) = 0 /\ k \in Int
        BY <3>1, <3>2, MaskBits, Zenon
      <3>3. 0 \in Nat /\ 0 < t.w
        BY <1>1
      <3> QED
        BY <2>2, <3>2, <3>3
    <2> QED
      BY <2>1, <2>2
  <1> HIDE DEF x, k
  <1>7. r \in Int /\ Holds(t, r)
    BY <1>5, <1>6, BitsExact
  <1>8. ASSUME NEW i \in 0 .. t.w - 1
        PROVE  Bit(U(t, r), i) = 1 <=> i - d \in 0 .. t.w - 1 /\ Bit(u, i - d) = 1
    <2>1. i \in Nat /\ i < t.w
      BY <1>1
    <2>2. Bit(U(t, r), i) = 1 <=> Bit(U(t, x), i) = 1 /\ c
      BY <1>5, <1>6, <2>1, MeetBits
    <2>3. Bit(U(t, x), i) = Bit(y, i)
      BY <1>1, <1>4, <1>5, <2>1, BitMod
    <2>4. Bit(y, i) = IF i >= e THEN Bit(u, i - e) ELSE 0
      BY <1>1, <1>2, <1>3, <2>1, BitUp
    <2>5. CASE c
      <3>1. i >= d <=> i - d \in 0 .. t.w - 1
        BY <1>1, <2>1
      <3> QED
        BY <1>2, <2>2, <2>3, <2>4, <2>5, <3>1
    <2>6. CASE ~c
      <3>1. ~(i - d \in 0 .. t.w - 1)
        BY <1>1, <2>1, <2>6
      <3> QED
        BY <2>2, <2>6, <3>1
    <2> QED
      BY <2>5, <2>6
  <1> HIDE DEF r
  <1>9. Moved(t, a, d, r)
    BY <1>7, <1>8, MovedIs DEF u
  <1> QED
    BY <1>7, <1>9 DEF r, x, k, y, e

LEMMA MoveDown ==
  ASSUME NEW t \in Types, NEW a \in Int, NEW d \in Nat, NEW c \in BOOLEAN, c <=> d < t.w
  PROVE  LET r == Number!And(t, As(t, Number!ShiftRight(t, a, Number!Lesser(d, t.w - 1))),
                             Number!Mask(t, c))
         IN r \in Int /\ Holds(t, r) /\ Moved(t, a, -d, r)
  <1> DEFINE e == Number!Lesser(d, t.w - 1)
             y == Number!ShiftRight(t, a, e)
             x == As(t, y)
             k == Number!Mask(t, c)
             r == Number!And(t, x, k)
             u == U(t, a)
  <1>1. t.w \in Nat /\ t.w >= 2 /\ u \in Nat /\ u < Pow2[t.w] /\ u < Range2(t)
    BY TypeBounds, UIs DEF Range2
  <1>2. e \in Nat /\ (c => e = d)
    BY <1>1 DEF Number!Lesser
  <1>3. y = u \div Pow2[e]
    BY DEF Number!ShiftRight, U, Pow2
  <1> HIDE DEF e, u, y
  <1>4. y \in Nat /\ y <= u
    BY <1>1, <1>2, <1>3, BitDown
  <1>5. x \in Int /\ U(t, x) = y
    <2>1. y < Range2(t)
      <3>1. Range2(t) \in Nat
        BY TypeBounds
      <3> QED
        BY <1>1, <1>4, <3>1
    <2>2. y \in Int
      BY <1>4
    <2> QED
      BY <1>4, <2>1, <2>2, AsIs, UAs, UKeeps
  <1>6. k \in Int /\ \A i \in Nat : i < t.w => (Bit(U(t, k), i) = 1 <=> c)
    <2>1. CASE c = TRUE
      BY <1>1, <2>1, MaskBits
    <2>2. CASE c = FALSE
      <3>1. k = Number!Mask(t, FALSE)
        BY <2>2
      <3> HIDE DEF k
      <3>2. ASSUME NEW i \in Nat, i < t.w PROVE Bit(U(t, k), i) = 0 /\ k \in Int
        BY <3>1, <3>2, MaskBits, Zenon
      <3>3. 0 \in Nat /\ 0 < t.w
        BY <1>1
      <3> QED
        BY <2>2, <3>2, <3>3
    <2> QED
      BY <2>1, <2>2
  <1> HIDE DEF x, k
  <1>7. r \in Int /\ Holds(t, r)
    BY <1>5, <1>6, BitsExact
  <1>8. ASSUME NEW i \in 0 .. t.w - 1
        PROVE  Bit(U(t, r), i) = 1 <=> i - (-d) \in 0 .. t.w - 1 /\ Bit(u, i - (-d)) = 1
    <2>1. i \in Nat /\ i < t.w /\ i - (-d) = i + d /\ i + d \in Nat
      BY <1>1
    <2>2. Bit(U(t, r), i) = 1 <=> Bit(U(t, x), i) = 1 /\ c
      BY <1>5, <1>6, <2>1, MeetBits
    <2>3. Bit(y, i) = Bit(u, i + e)
      BY <1>1, <1>2, <1>3, <2>1, BitDown
    <2>4. CASE c
      <3>1. CASE i + d \in 0 .. t.w - 1
        BY <1>2, <1>5, <2>1, <2>2, <2>3, <2>4, <3>1
      <3>2. CASE i + d \notin 0 .. t.w - 1
        <4>1. t.w <= i + d
          BY <1>1, <2>1, <3>2
        <4>2. Bit(u, i + d) = 0
          BY <1>1, <2>1, <4>1, BitAbove
        <4> QED
          BY <1>2, <1>5, <2>1, <2>2, <2>3, <2>4, <3>2, <4>2
      <3> QED
        BY <3>1, <3>2
    <2>5. CASE ~c
      <3>1. ~(i + d \in 0 .. t.w - 1)
        BY <1>1, <2>1, <2>5
      <3> QED
        BY <2>1, <2>2, <2>5, <3>1
    <2> QED
      BY <2>4, <2>5
  <1> HIDE DEF r
  <1>9. Moved(t, a, -d, r)
    <2>1. -d \in Int
      OBVIOUS
    <2> QED
      BY <1>7, <1>8, <2>1, MovedIs DEF u
  <1> QED
    BY <1>7, <1>9 DEF r, x, k, y, e

LEMMA ShiftsExact ==
  ASSUME NEW t \in Types, NEW a \in Int, NEW b \in Int, Holds(t, b)
  PROVE  /\ /\ Number!Shl(t, a, b) \in Int /\ Holds(t, Number!Shl(t, a, b))
            /\ Moved(t, a, b, Number!Shl(t, a, b))
         /\ /\ Number!Shr(t, a, b) \in Int /\ Holds(t, Number!Shr(t, a, b))
            /\ Moved(t, a, -b, Number!Shr(t, a, b))
  <1>1. t.w \in Nat /\ (b < 0 => t.s)
    BY TypeBounds, HoldsIs
  <1>2. CASE b < 0
    <2> DEFINE d == -b
               c == b > -t.w
    <2>1. d \in Nat /\ (c <=> d < t.w) /\ c \in BOOLEAN /\ -d = b
      BY <1>1, <1>2
    <2>2. /\ Number!Shl(t, a, b) = Number!And(t,
               As(t, Number!ShiftRight(t, a, Number!Lesser(d, t.w - 1))), Number!Mask(t, c))
          /\ Number!Shr(t, a, b) = Number!And(t,
               As(t, Number!ShiftLeft(t, a, Number!Lesser(d, t.w - 1))), Number!Mask(t, c))
      BY <1>1, <1>2, Zenon DEF Number!Shl, Number!Shr, As
    <2> HIDE DEF d, c
    <2>3. /\ Number!Shl(t, a, b) \in Int /\ Holds(t, Number!Shl(t, a, b))
          /\ Moved(t, a, -d, Number!Shl(t, a, b))
      BY <2>1, <2>2, MoveDown
    <2>4. /\ Number!Shr(t, a, b) \in Int /\ Holds(t, Number!Shr(t, a, b))
          /\ Moved(t, a, d, Number!Shr(t, a, b))
      BY <2>1, <2>2, MoveUp
    <2> QED
      BY <2>1, <2>3, <2>4 DEF d
  <1>3. CASE ~(b < 0)
    <2> DEFINE c == b < t.w
    <2>1. b \in Nat /\ (c <=> b < t.w) /\ c \in BOOLEAN
      BY <1>1, <1>3
    <2>2. /\ Number!Shl(t, a, b) = Number!And(t,
               As(t, Number!ShiftLeft(t, a, Number!Lesser(b, t.w - 1))), Number!Mask(t, c))
          /\ Number!Shr(t, a, b) = Number!And(t,
               As(t, Number!ShiftRight(t, a, Number!Lesser(b, t.w - 1))), Number!Mask(t, c))
      BY <1>3, Zenon DEF Number!Shl, Number!Shr, As
    <2> HIDE DEF c
    <2>3. /\ Number!Shl(t, a, b) \in Int /\ Holds(t, Number!Shl(t, a, b))
          /\ Moved(t, a, b, Number!Shl(t, a, b))
      BY <2>1, <2>2, MoveUp
    <2>4. /\ Number!Shr(t, a, b) \in Int /\ Holds(t, Number!Shr(t, a, b))
          /\ Moved(t, a, -b, Number!Shr(t, a, b))
      BY <2>1, <2>2, MoveDown
    <2> QED
      BY <2>3, <2>4
  <1> QED
    BY <1>2, <1>3

-----------------------------------------------------------------------------
(* Division towards zero.                                                  *)

Quot(a, b) == Number!Quot(a, b)
Rem(a, b) == Number!Rem(a, b)

(* The quotient of magnitudes: it is smaller than the dividend unless the  *)
(* divisor is one.                                                         *)
LEMMA QuotOfNaturals ==
  ASSUME NEW x \in Nat, NEW m \in Nat, m > 0
  PROVE  /\ x \div m \in Nat /\ x \div m <= x /\ (m >= 2 /\ x > 0 => x \div m < x)
         /\ (m = 1 => x \div m = x)
  <1> DEFINE k == x \div m
             z == x % m
             e == m * k
  <1>1. k \in Int /\ z \in Nat /\ z < m /\ x = e + z /\ e \in Int
    BY DivMod
  <1> HIDE DEF k, z
  <1>2. ~(k <= -1)
    <2> SUFFICES ASSUME k <= -1 PROVE FALSE
      OBVIOUS
    <2>1. e <= -m
      BY <1>1
    <2> HIDE DEF e
    <2> QED
      BY <1>1, <2>1
  <1>3. k \in Nat
    BY <1>1, <1>2
  <1>4. e >= k /\ (m >= 2 => e >= 2 * k) /\ (m = 1 => e = k)
    BY <1>3
  <1> HIDE DEF e
  <1>5. k <= x /\ (m >= 2 /\ x > 0 => k < x) /\ (m = 1 => k = x)
    BY <1>1, <1>3, <1>4
  <1> QED
    BY <1>3, <1>5 DEF k

(* Quotient and remainder from those of the magnitudes, k and z, with the  *)
(* product e of k and the divisor's magnitude.                             *)
Divided(a, b, k, z, e) ==
  /\ Quot(a, b) = (IF (a < 0) = (b < 0) THEN k ELSE -k)
  /\ b * Quot(a, b) = (IF a < 0 THEN -e ELSE e)
  /\ Rem(a, b) = (IF a < 0 THEN -z ELSE z)
  /\ a = (IF a < 0 THEN -e - z ELSE e + z)
  /\ z < (IF b < 0 THEN -b ELSE b)
  /\ k <= (IF a < 0 THEN -a ELSE a)
  /\ (b # 1 /\ b # -1 /\ a # 0 => k < (IF a < 0 THEN -a ELSE a))
  /\ (b = 1 \/ b = -1 => k = (IF a < 0 THEN -a ELSE a))
  /\ Quot((IF a < 0 THEN -e ELSE e), b) = Quot(a, b)

LEMMA QuotIs ==
  ASSUME NEW a \in Int, NEW b \in Int, b # 0
  PROVE  \E k, z, e \in Nat : Divided(a, b, k, z, e)
  <1> DEFINE x == Number!Magnitude(a)
             m == Number!Magnitude(b)
             k == x \div m
             z == x % m
             e == m * k
  <1>1. /\ x = (IF a < 0 THEN -a ELSE a) /\ m = (IF b < 0 THEN -b ELSE b)
        /\ Quot(a, b) = Number!Sign(a) * Number!Sign(b) * k
        /\ Rem(a, b) = a - b * Quot(a, b)
    BY DEF Quot, Rem, Number!Quot, Number!Rem, Number!Magnitude
  <1>2. x \in Nat /\ m \in Nat /\ m > 0 /\ (b = m \/ b = -m)
    BY <1>1
  <1> HIDE DEF x, m
  <1>3. /\ k \in Nat /\ k <= x /\ (m >= 2 /\ x > 0 => k < x) /\ (m = 1 => k = x)
    BY <1>2, QuotOfNaturals
  <1>4. z \in Nat /\ z < m /\ x = e + z
    BY <1>2, DivMod
  <1> HIDE DEF k, z
  <1>5. e \in Nat
    BY <1>2, <1>3
  <1> DEFINE q == IF (a < 0) = (b < 0) THEN k ELSE -k
  <1>6. Quot(a, b) = q
    <2>1. CASE a < 0 /\ b < 0
      <3>1. Number!Sign(a) = -1 /\ Number!Sign(b) = -1
        BY <2>1 DEF Number!Sign
      <3> QED
        BY <1>1, <1>3, <2>1, <3>1
    <2>2. CASE a < 0 /\ ~(b < 0)
      <3>1. Number!Sign(a) = -1 /\ Number!Sign(b) = 1
        BY <2>2 DEF Number!Sign
      <3> QED
        BY <1>1, <1>3, <2>2, <3>1
    <2>3. CASE ~(a < 0) /\ b < 0
      <3>1. Number!Sign(a) = 1 /\ Number!Sign(b) = -1
        BY <2>3 DEF Number!Sign
      <3> QED
        BY <1>1, <1>3, <2>3, <3>1
    <2>4. CASE ~(a < 0) /\ ~(b < 0)
      <3>1. Number!Sign(a) = 1 /\ Number!Sign(b) = 1
        BY <2>4 DEF Number!Sign
      <3> QED
        BY <1>1, <1>3, <2>4, <3>1
    <2> QED
      BY <2>1, <2>2, <2>3, <2>4
  <1>7. b * q = (IF a < 0 THEN -e ELSE e)
    <2>1. CASE a < 0 /\ b < 0
      <3>1. b = -m /\ q = -(-k)
        BY <1>1, <1>2, <1>3, <2>1
      <3> QED
        BY <1>2, <1>3, <2>1, <3>1
    <2>2. CASE a < 0 /\ ~(b < 0)
      <3>1. b = m /\ q = -k
        BY <1>1, <1>2, <1>3, <2>2
      <3> QED
        BY <1>2, <1>3, <2>2, <3>1
    <2>3. CASE ~(a < 0) /\ b < 0
      <3>1. b = -m /\ q = -k
        BY <1>1, <1>2, <1>3, <2>3
      <3> QED
        BY <1>2, <1>3, <2>3, <3>1
    <2>4. CASE ~(a < 0) /\ ~(b < 0)
      <3>1. b = m /\ q = k
        BY <1>1, <1>2, <1>3, <2>4
      <3> QED
        BY <1>2, <1>3, <2>4, <3>1
    <2> QED
      BY <2>1, <2>2, <2>3, <2>4
  <1>8. e \div m = k
    <2> DEFINE f == e
    <2>1. f = (m * k) + 0 /\ f \in Int
      BY <1>2, <1>3
    <2> HIDE DEF f
    <2>2. f \div m = k
      BY <1>2, <1>3, <2>1, DivUnique
    <2> QED
      BY <2>2 DEF f
  <1>9. e = 0 => k = 0
    BY <1>2, <1>3
  <1> HIDE DEF e, q
  <1> DEFINE g == IF a < 0 THEN -e ELSE e
  <1>10. Quot(g, b) = q
    <2> DEFINE h == Number!Magnitude(g) \div Number!Magnitude(b)
    <2>1. Number!Magnitude(g) = e /\ g \in Int
      BY <1>5 DEF Number!Magnitude
    <2>2. Quot(g, b) = Number!Sign(g) * Number!Sign(b) * k
      BY <1>8, <2>1 DEF Quot, Number!Quot, m
    <2>3. CASE e = 0
      <3>0. k = 0
        BY <1>9, <2>3
      <3>1. q = 0
        <4>1. q = k \/ q = -k
          BY DEF q
        <4> QED
          BY <3>0, <4>1
      <3>2. Number!Sign(g) \in {-1, 1} /\ Number!Sign(b) \in {-1, 1}
        BY <1>5 DEF Number!Sign
      <3> QED
        BY <2>2, <3>0, <3>1, <3>2
    <2>4. CASE e > 0
      <3>1. Number!Sign(g) = Number!Sign(a)
        BY <1>5, <2>4 DEF Number!Sign
      <3> HIDE DEF g
      <3> QED
        BY <1>1, <1>6, <2>2, <3>1, Zenon
    <2> QED
      BY <1>5, <2>3, <2>4
  <1>11. a = (IF a < 0 THEN -e - z ELSE e + z)
    BY <1>1, <1>4, <1>5
  <1>12. Rem(a, b) = (IF a < 0 THEN -z ELSE z)
    BY <1>1, <1>4, <1>5, <1>6, <1>7, <1>11
  <1>13. /\ k <= (IF a < 0 THEN -a ELSE a)
         /\ (b # 1 /\ b # -1 /\ a # 0 => k < (IF a < 0 THEN -a ELSE a))
         /\ (b = 1 \/ b = -1 => k = (IF a < 0 THEN -a ELSE a))
    BY <1>1, <1>2, <1>3
  <1>14. z < (IF b < 0 THEN -b ELSE b)
    BY <1>1, <1>4
  <1>15. /\ Quot(a, b) = (IF (a < 0) = (b < 0) THEN k ELSE -k)
         /\ b * Quot(a, b) = (IF a < 0 THEN -e ELSE e)
         /\ Quot((IF a < 0 THEN -e ELSE e), b) = Quot(a, b)
    BY <1>6, <1>7, <1>10 DEF q
  <1>16. Divided(a, b, k, z, e)
    BY <1>11, <1>12, <1>13, <1>14, <1>15 DEF Divided
  <1> QED
    BY <1>3, <1>4, <1>5, <1>16

Divides(a, b, q, r) == Number!Divides(a, b, q, r)

LEMMA DividesIs ==
  ASSUME NEW a \in Int, NEW b \in Int, b # 0
  PROVE  /\ Quot(a, b) \in Int /\ Rem(a, b) \in Int
         /\ Divides(a, b, Quot(a, b), Rem(a, b))
         /\ a - Quot(a, b) * b = Rem(a, b)
         /\ Quot(a - Rem(a, b), b) = Quot(a, b)
  <1> DEFINE q == Quot(a, b)
             r == Rem(a, b)
  <1>0. PICK k, z, e \in Nat : Divided(a, b, k, z, e)
    BY QuotIs
  <1>1. /\ q = (IF (a < 0) = (b < 0) THEN k ELSE -k)
        /\ b * q = (IF a < 0 THEN -e ELSE e)
        /\ r = (IF a < 0 THEN -z ELSE z)
        /\ a = (IF a < 0 THEN -e - z ELSE e + z)
        /\ z < (IF b < 0 THEN -b ELSE b)
        /\ Quot((IF a < 0 THEN -e ELSE e), b) = q
    BY <1>0 DEF Divided
  <1> HIDE DEF q, r
  <1>2. q \in Int /\ r \in Int
    <2>1. q = k \/ q = -k
      BY <1>1
    <2> QED
      BY <1>1, <2>1
  <1>3. q * b = (IF a < 0 THEN -e ELSE e)
    <2>1. q * b = b * q
      BY <1>2
    <2> QED
      BY <1>1, <2>1
  <1>4. a - q * b = r /\ a = q * b + r
    BY <1>1, <1>2, <1>3
  <1>5. a - r = (IF a < 0 THEN -e ELSE e)
    BY <1>1, <1>2
  <1>6. Quot(a - r, b) = q
    BY <1>1, <1>5
  <1>7. Number!Magnitude(r) < Number!Magnitude(b)
    BY <1>1 DEF Number!Magnitude
  <1>8. r # 0 => Number!Sign(r) = Number!Sign(a)
    BY <1>1 DEF Number!Sign
  <1>9. Divides(a, b, q, r)
    BY <1>4, <1>7, <1>8 DEF Divides, Number!Divides
  <1> QED
    BY <1>2, <1>4, <1>6, <1>9 DEF q, r

(* The quotient of two values of a type is one, except that of the lowest  *)
(* by -1; the remainder always is.                                         *)
LEMMA QuotFits ==
  ASSUME NEW t \in Types, NEW a \in Int, NEW b \in Int, Holds(t, a), Holds(t, b), b # 0
  PROVE  /\ Holds(t, Rem(a, b))
         /\ IF t.s /\ a = Lowest(t) /\ b = -1
            THEN Quot(a, b) = Highest(t) + 1 /\ Rem(a, b) = 0
            ELSE Holds(t, Quot(a, b))
  <1> DEFINE q == Quot(a, b)
             r == Rem(a, b)
             h == Half(t)
  <1>0. PICK k, z, e \in Nat : Divided(a, b, k, z, e)
    BY QuotIs
  <1>1. /\ q = (IF (a < 0) = (b < 0) THEN k ELSE -k)
        /\ r = (IF a < 0 THEN -z ELSE z)
        /\ a = (IF a < 0 THEN -e - z ELSE e + z)
        /\ z < (IF b < 0 THEN -b ELSE b)
        /\ k <= (IF a < 0 THEN -a ELSE a)
        /\ (b # 1 /\ b # -1 /\ a # 0 => k < (IF a < 0 THEN -a ELSE a))
        /\ (b = 1 \/ b = -1 => k = (IF a < 0 THEN -a ELSE a))
    BY <1>0 DEF Divided
  <1> HIDE DEF q, r
  <1>2. /\ h \in Nat /\ h >= 2 /\ t.s \in BOOLEAN
        /\ Lowest(t) = (IF t.s THEN -h ELSE 0)
        /\ Highest(t) = (IF t.s THEN h - 1 ELSE (2 * h) - 1)
        /\ Lowest(t) \in Int /\ Highest(t) \in Int
    BY TypeBounds
  <1>3. Lowest(t) <= a /\ a <= Highest(t) /\ Lowest(t) <= b /\ b <= Highest(t)
    BY HoldsIs
  <1>4. q \in Int /\ (q = k \/ q = -k) /\ ((a < 0) = (b < 0) => q = k)
                  /\ ((a < 0) # (b < 0) => q = -k)
    <2>1. q = k \/ q = -k
      BY <1>1
    <2> QED
      BY <1>1, <2>1
  <1> HIDE DEF h
  <1>5. Holds(t, r)
    <2>1. Lowest(t) <= r /\ r <= Highest(t)
      BY <1>1, <1>2, <1>3
    <2> QED
      BY <2>1, HoldsIs
  <1>6. CASE t.s /\ a = Lowest(t) /\ b = -1
    <2>1. a < 0 /\ b < 0 /\ a = -h /\ Highest(t) = h - 1
      BY <1>2, <1>6
    <2>2. q = k /\ k = -a /\ z < 1
      BY <1>1, <1>6, <2>1
    <2>3. q = Highest(t) + 1 /\ r = 0
      <3>1. q = Highest(t) + 1
        BY <1>2, <2>1, <2>2
      <3>2. r = -z
        BY <1>1, <2>1
      <3>3. r = 0
        BY <2>2, <3>2
      <3> QED
        BY <3>1, <3>3
    <2> QED
      BY <1>5, <1>6, <2>3 DEF q, r
  <1>7. CASE ~(t.s /\ a = Lowest(t) /\ b = -1)
    <2>1. Lowest(t) <= q /\ q <= Highest(t)
      <3>1. CASE ~t.s
        <4>1. Lowest(t) = 0 /\ a >= 0 /\ b >= 0
          BY <1>2, <1>3, <3>1
        <4>2. q = k /\ k <= a
          BY <1>1, <1>4, <4>1
        <4> QED
          BY <1>2, <1>3, <4>1, <4>2
      <3>2. CASE t.s
        <4>1. -h <= a /\ a <= h - 1 /\ Lowest(t) = -h /\ Highest(t) = h - 1
          BY <1>2, <1>3, <3>2
        <4>2. CASE b = -1
          <5>1. a > -h
            <6>1. a # -h
              BY <1>7, <3>2, <4>1, <4>2
            <6> QED
              BY <1>2, <4>1, <6>1
          <5>2. k <= h - 1
            BY <1>1, <1>2, <4>1, <4>2, <5>1
          <5> QED
            BY <1>2, <1>4, <4>1, <5>2
        <4>3. CASE b = 1
          <5>1. a < 0 => q = -k
            BY <1>4, <4>3
          <5>2. k = (IF a < 0 THEN -a ELSE a)
            BY <1>1, <4>3
          <5>3. a >= 0 => q <= k /\ -k <= q
            BY <1>4
          <5> QED
            BY <1>2, <1>4, <4>1, <5>1, <5>2, <5>3
        <4>4. CASE b # 1 /\ b # -1
          <5>1. k <= h - 1
            BY <1>1, <1>2, <4>1, <4>4
          <5> QED
            BY <1>2, <1>4, <4>1, <5>1
        <4> QED
          BY <4>2, <4>3, <4>4
      <3> QED
        BY <3>1, <3>2
    <2>2. Holds(t, q)
      BY <2>1, HoldsIs
    <2> QED
      BY <1>5, <1>7, <2>2 DEF q, r
  <1> QED
    BY <1>6, <1>7

LEMMA DivExact ==
  ASSUME NEW t \in Types, NEW a \in Int, NEW b \in Int, Holds(t, a), Holds(t, b)
  PROVE  LET ret == Number!Div(t, a, b)
         IN /\ ret \in Int /\ Holds(t, ret)
            /\ IF b = 0 THEN ret = (IF a < 0 THEN Lowest(t) ELSE Highest(t))
               ELSE \E q \in {ret, Highest(t) + 1} :
                      Divides(a, b, q, a - q * b) /\ Clamped(t, q, ret)
  <1> DEFINE ret == Number!Div(t, a, b)
  <1>1. /\ Lowest(t) \in Int /\ Highest(t) \in Int /\ Lowest(t) <= Highest(t)
        /\ t.s \in BOOLEAN /\ (~t.s => Lowest(t) = 0) /\ Lowest(t) <= a
    BY TypeBounds, HoldsIs
  <1>2. Holds(t, Lowest(t)) /\ Holds(t, Highest(t))
    BY <1>1, HoldsIs
  <1>3. ret = IF b = 0 THEN IF t.s /\ a < 0 THEN Lowest(t) ELSE Highest(t)
              ELSE IF t.s /\ a = Lowest(t) /\ b = -1 THEN Highest(t)
              ELSE Quot(a, b)
    BY DEF Number!Div, Lowest, Highest, Quot
  <1> HIDE DEF ret
  <1>4. CASE b = 0
    <2>1. ret = (IF a < 0 THEN Lowest(t) ELSE Highest(t))
      BY <1>1, <1>3, <1>4
    <2> QED
      BY <1>1, <1>2, <1>4, <2>1 DEF ret
  <1>5. CASE b # 0 /\ t.s /\ a = Lowest(t) /\ b = -1
    <2> DEFINE q == Highest(t) + 1
    <2>1. ret = Highest(t)
      BY <1>3, <1>5
    <2>2. Quot(a, b) = q /\ q \in Int
      BY <1>1, <1>5, QuotFits
    <2>3. Divides(a, b, q, a - q * b)
      <3>1. Divides(a, b, Quot(a, b), Rem(a, b)) /\ a - Quot(a, b) * b = Rem(a, b)
        BY <1>5, DividesIs
      <3> HIDE DEF q
      <3> QED
        BY <2>2, <3>1
    <2>4. Clamped(t, q, ret)
      <3>1. ~(q <= Highest(t)) /\ ~(q < Lowest(t))
        BY <1>1
      <3>2. ~Holds(t, q)
        BY <3>1, HoldsIs
      <3> QED
        BY <1>2, <2>1, <3>1, <3>2, ClampedIs
    <2>5. q \in {ret, Highest(t) + 1}
      OBVIOUS
    <2> QED
      BY <1>1, <1>2, <1>5, <2>1, <2>3, <2>4, <2>5 DEF ret
  <1>6. CASE b # 0 /\ ~(t.s /\ a = Lowest(t) /\ b = -1)
    <2>1. ret = Quot(a, b)
      BY <1>3, <1>6, Zenon
    <2>2. ret \in Int /\ Divides(a, b, ret, Rem(a, b)) /\ a - ret * b = Rem(a, b)
      BY <1>6, <2>1, DividesIs
    <2>3. Holds(t, ret)
      BY <1>6, <2>1, QuotFits
    <2>4. Clamped(t, ret, ret)
      <3>1. ~(ret > Highest(t)) /\ ~(ret < Lowest(t))
        BY <1>1, <2>2, <2>3, HoldsIs
      <3> QED
        BY <2>3, <3>1, ClampedIs
    <2>5. Divides(a, b, ret, a - ret * b) /\ ret \in {ret, Highest(t) + 1}
      BY <2>2
    <2> QED
      BY <1>6, <2>2, <2>3, <2>4, <2>5 DEF ret
  <1> QED
    BY <1>4, <1>5, <1>6

LEMMA ModExact ==
  ASSUME NEW t \in Types, NEW a \in Int, NEW b \in Int, Holds(t, a), Holds(t, b)
  PROVE  LET ret == Number!Mod(t, a, b)
         IN /\ ret \in Int /\ Holds(t, ret)
            /\ IF b = 0 THEN ret = a ELSE Divides(a, b, Quot(a - ret, b), ret)
  <1> DEFINE ret == Number!Mod(t, a, b)
  <1>1. ret = IF b = 0 THEN a
              ELSE IF t.s /\ a = Lowest(t) /\ b = -1 THEN 0
              ELSE Rem(a, b)
    BY DEF Number!Mod, Lowest, Rem
  <1> HIDE DEF ret
  <1>2. CASE b = 0
    BY <1>1, <1>2 DEF ret
  <1>3. CASE b # 0
    <2>1. ret = Rem(a, b)
      <3>1. CASE t.s /\ a = Lowest(t) /\ b = -1
        BY <1>1, <1>3, <3>1, QuotFits
      <3>2. CASE ~(t.s /\ a = Lowest(t) /\ b = -1)
        BY <1>1, <1>3, <3>2, Zenon
      <3> QED
        BY <3>1, <3>2
    <2>2. ret \in Int /\ Divides(a, b, Quot(a, b), ret) /\ Quot(a - ret, b) = Quot(a, b)
      BY <1>3, <2>1, DividesIs
    <2>3. Holds(t, ret)
      BY <1>3, <2>1, QuotFits
    <2> QED
      BY <1>3, <2>2, <2>3 DEF ret
  <1> QED
    BY <1>2, <1>3

-----------------------------------------------------------------------------
(* Casts between integers.                                                 *)

LEMMA BoundsHold ==
  ASSUME NEW t \in Types
  PROVE  /\ Lowest(t) \in Int /\ Highest(t) \in Int /\ Lowest(t) <= 0 /\ Highest(t) >= 1
         /\ Holds(t, Lowest(t)) /\ Holds(t, Highest(t)) /\ Holds(t, 0)
  <1>1. Lowest(t) \in Int /\ Highest(t) \in Int /\ Lowest(t) <= 0 /\ Highest(t) >= 1
    BY TypeBounds
  <1> QED
    BY <1>1, HoldsIs

LEMMA ConstructExact ==
  ASSUME NEW from \in Types, NEW t \in Types, NEW x \in Int, Holds(from, x)
  PROVE  LET ret == Number!Construct(from, t, x)
         IN ret \in Int /\ Holds(t, ret) /\ Clamped(t, x, ret)
  <1> DEFINE ret == Number!Construct(from, t, x)
             lo == Lowest(t)
             hi == Highest(t)
  <1>1. lo \in Int /\ hi \in Int /\ lo <= hi /\ Holds(t, lo) /\ Holds(t, hi)
    BY BoundsHold
  <1>2. ret = IF Lowest(t) <= Lowest(from) /\ Highest(t) >= Highest(from) THEN As(t, x)
              ELSE IF x < lo THEN lo ELSE IF x > hi THEN hi ELSE x
    BY DEF Number!Construct, Number!Narrower, Number!Saturate, Lowest, Highest, As
  <1> HIDE DEF ret
  <1>3. CASE Lowest(t) <= Lowest(from) /\ Highest(t) >= Highest(from)
    <2>1. Holds(t, x)
      BY <1>3, HoldsIs, BoundsHold
    <2>2. ret = x
      BY <1>2, <1>3, <2>1, AsKeeps
    <2>3. ~(x > hi) /\ ~(x < lo)
      BY <1>1, <2>1, HoldsIs
    <2> QED
      BY <2>1, <2>2, <2>3, ClampedIs DEF ret
  <1>4. CASE ~(Lowest(t) <= Lowest(from) /\ Highest(t) >= Highest(from))
    <2>1. ret = IF x < lo THEN lo ELSE IF x > hi THEN hi ELSE x
      BY <1>2, <1>4, Zenon
    <2>2. Holds(t, x) <=> lo <= x /\ x <= hi
      BY HoldsIs
    <2> HIDE DEF lo, hi
    <2>3. ret \in Int /\ Holds(t, ret) /\ (Holds(t, x) => ret = x)
          /\ (x > hi => ret = hi) /\ (x < lo => ret = lo)
      BY <1>1, <2>1, <2>2
    <2> QED
      BY <2>3, ClampedIs DEF ret, lo, hi
  <1> QED
    BY <1>3, <1>4

LEMMA CheckedExact ==
  ASSUME NEW t \in Types, NEW x \in Int
  PROVE  /\ Number!Checked(t, x) = (IF Holds(t, x) THEN x ELSE Error)
         /\ x >= 0 => Number!Literal(t, x) = (IF Holds(t, x) THEN x ELSE Error)
  <1> DEFINE lo == Lowest(t)
             hi == Highest(t)
  <1>1. lo \in Int /\ hi \in Int /\ lo <= 0
    BY BoundsHold
  <1>2. /\ Number!Checked(t, x) = (IF x < lo \/ x > hi THEN Error ELSE As(t, x))
        /\ Number!Literal(t, x) = (IF x > hi THEN Error ELSE As(t, x))
    BY DEF Number!Checked, Number!Literal, Lowest, Highest, As
  <1>3. Holds(t, x) <=> lo <= x /\ x <= hi
    BY HoldsIs
  <1>4. Holds(t, x) => As(t, x) = x
    BY AsKeeps
  <1> HIDE DEF lo, hi
  <1> QED
    BY <1>1, <1>2, <1>3, <1>4

-----------------------------------------------------------------------------
(* Taking a number apart into its two bytes and putting it together.       *)

Unsigned(w) == Number!Unsigned(w)
Signed(w) == Number!Signed(w)

(* What is equal modulo a power of two is so modulo a smaller one.         *)
LEMMA SameDown ==
  ASSUME NEW j \in Nat, NEW k \in Nat, j <= k, NEW x \in Int, NEW y \in Int,
         Same(Pow2[k], x, y)
  PROVE  Same(Pow2[j], x, y)
  <1> DEFINE p == Pow2[j]
             g == Pow2[k - j]
  <1>1. p \in Nat /\ g \in Nat /\ Pow2[k] = p * g
    <2>1. k - j \in Nat
      OBVIOUS
    <2> QED
      BY <2>1, Pow2Grows, Pow2Exceeds
  <1>2. PICK c \in Int : x = y + (Pow2[k] * c)
    BY DEF Same
  <1> HIDE DEF p, g
  <1>3. g * c \in Int /\ x = y + (p * (g * c))
    BY <1>1, <1>2
  <1> QED
    BY <1>3 DEF Same, p

LEMMA BytesTypes ==
  ASSUME NEW w \in Widths
  PROVE  /\ w \in Nat /\ Unsigned(w) \in Types /\ Unsigned(w).w = w
         /\ \A x \in Int : As(Unsigned(w), x) = U(Unsigned(w), x)
         /\ Signed(w) \in Types /\ Signed(w).w = w
  <1>1. Unsigned(w) = [w |-> w, s |-> FALSE] /\ Signed(w) = [w |-> w, s |-> TRUE]
    BY DEF Unsigned, Number!Unsigned, Signed, Number!Signed
  <1>2. Unsigned(w) \in Types /\ Signed(w) \in Types
    BY <1>1 DEF Types, Number!Types
  <1>3. Unsigned(w).w = w /\ Signed(w).w = w /\ Unsigned(w).s = FALSE
    BY <1>1
  <1>4. w \in Nat
    BY <1>2, <1>3, TypeBounds
  <1>5. ASSUME NEW x \in Int PROVE As(Unsigned(w), x) = U(Unsigned(w), x)
    <2> DEFINE t == Unsigned(w)
    <2>1. t \in Types /\ ~t.s
      BY <1>2, <1>3
    <2> HIDE DEF t
    <2>2. As(t, x) = U(t, x)
      BY <2>1, AsIs
    <2> QED
      BY <2>2 DEF t
  <1> QED
    BY <1>2, <1>3, <1>4, <1>5

LEMMA JoinBits ==
  ASSUME NEW t \in Types, NEW a \in Int, NEW b \in Int, NEW i \in Nat, i < t.w
  PROVE  Bit(U(t, Number!Or(t, a, b)), i) = 1
           <=> Bit(U(t, a), i) = 1 \/ Bit(U(t, b), i) = 1
  <1> DEFINE S == Ones(t, a) \cup Ones(t, b)
  <1>1. Number!Or(t, a, b) = FromBits(t, S)
    BY DEF Number!Or, FromBits, Ones
  <1>2. FromBits(t, S) \in Int /\ (i \in Ones(t, FromBits(t, S)) <=> i < t.w /\ i \in S)
    BY FromBitsIs
  <1> DEFINE r == FromBits(t, S)
  <1>3. i \in Ones(t, r) <=> i < t.w /\ Bit(U(t, r), i) = 1
    <2> HIDE DEF r
    <2>1. r \in Int
      BY <1>2 DEF r
    <2> QED
      BY <2>1, OnesIs
  <1>4. i \in S <=> Bit(U(t, a), i) = 1 \/ Bit(U(t, b), i) = 1
    BY OnesIs
  <1> HIDE DEF S
  <1> QED
    BY <1>1, <1>2, <1>3, <1>4

(* A number is known from its digits.                                      *)
LEMMA BitsDecide ==
  ASSUME NEW t \in Types, NEW a \in Int, NEW y \in Nat, y < Range2(t),
         \A i \in 0 .. t.w - 1 : Bit(U(t, a), i) = 1 <=> Bit(y, i) = 1
  PROVE  U(t, a) = y
  <1> DEFINE S == {i \in Nat : Bit(y, i) = 1}
             u == U(t, a)
  <1>1. t.w \in Nat /\ u \in Nat /\ u < Pow2[t.w] /\ y < Pow2[t.w]
    BY TypeBounds, UIs DEF Range2
  <1>2. \A i \in 0 .. t.w - 1 : Bit(u, i) = 1 <=> i \in S
    BY <1>1
  <1>3. \A i \in 0 .. t.w - 1 : Bit(y, i) = 1 <=> i \in S
    BY <1>1
  <1> HIDE DEF S, u
  <1>4. Value(t.w, S) = u
    BY <1>1, <1>2, BitsValue
  <1>5. Value(t.w, S) = y
    BY <1>1, <1>3, BitsValue
  <1> QED
    BY <1>4, <1>5 DEF u

LEMMA MovedBits ==
  ASSUME NEW t \in Types, NEW a \in Int, NEW d \in Int, NEW ret \in Int,
         Moved(t, a, d, ret), NEW i \in Nat, i < t.w
  PROVE  Bit(U(t, ret), i) = (IF i - d \in 0 .. t.w - 1 THEN Bit(U(t, a), i - d) ELSE 0)
  <1>1. i \in 0 .. t.w - 1
    BY TypeBounds
  <1> QED
    BY <1>1 DEF Moved, Number!Moved, Bit, U

LEMMA BytesExact ==
  ASSUME NEW w \in Widths, 2 * w \in Widths, NEW v \in Int, Holds(Signed(2 * w), v)
  PROVE  Number!FromBytes(w, Number!HighByte(w, v), Number!LowByte(w, v)) = v
  <1> DEFINE word == Unsigned(2 * w)
             byte == Unsigned(w)
             whole == Signed(2 * w)
             u == As(word, v)
             high == Number!Shr(word, u, w)
             msb == As(byte, high)
             lsb == As(byte, v)
             left == Number!Shl(word, As(word, msb), w)
             right == As(word, lsb)
             r == Number!Or(word, left, right)
  <1>1. /\ Number!HighByte(w, v) = msb /\ Number!LowByte(w, v) = lsb
        /\ Number!FromBytes(w, msb, lsb) = As(whole, r)
    BY DEF Number!HighByte, Number!LowByte, Number!FromBytes, Unsigned, Signed, As
  <1>2. /\ w \in Nat /\ byte \in Types /\ byte.w = w /\ word \in Types /\ word.w = 2 * w
        /\ whole \in Types /\ whole.w = 2 * w
        /\ \A x \in Int : As(word, x) = U(word, x)
        /\ \A x \in Int : As(byte, x) = U(byte, x)
    BY BytesTypes
  <1>3. /\ Range2(byte) = Pow2[w] /\ Range2(word) = Pow2[2 * w] /\ Range2(whole) = Pow2[2 * w]
        /\ w < Pow2[w] /\ Pow2[w] \in Nat /\ Pow2[2 * w] \in Nat /\ Pow2[w] <= Pow2[2 * w]
        /\ 2 * w \in Nat /\ w <= 2 * w
    <2>1. 2 * w \in Nat /\ w <= 2 * w
      BY <1>2
    <2>2. Pow2[w] <= Pow2[2 * w]
      BY <1>2, <2>1, Pow2Grows
    <2> QED
      BY <1>2, <2>1, <2>2, Pow2Exceeds DEF Range2
  <1> HIDE DEF word, byte, whole
  <1>4. u \in Nat /\ u < Pow2[2 * w] /\ U(word, u) = u /\ Same(Pow2[2 * w], u, v) /\ u \in Int
    <2>1. u = U(word, v)
      BY <1>2
    <2>2. u \in Nat /\ u < Range2(word) /\ Same(Range2(word), u, v)
      BY <1>2, <2>1, UIs
    <2> HIDE DEF u
    <2> QED
      BY <1>2, <1>3, <2>2, UKeeps
  <1> HIDE DEF u
  <1>5. Holds(word, w)
    <2>1. Lowest(word) <= w /\ w <= Highest(word)
      <3>1. w \in Nat /\ word.w = 2 * w /\ word \in Types
        BY <1>2
      <3>2. word.w < Half(word) /\ Half(word) \in Nat
        BY <3>1, TypeBounds
      <3>3. Lowest(word) <= 0 /\ Lowest(word) \in Int
        BY <3>1, BoundsHold
      <3>4. Highest(word) >= Half(word) - 1 /\ Highest(word) \in Int
        BY <3>1, <3>2, TypeBounds
      <3> QED
        BY <3>1, <3>2, <3>3, <3>4
    <2> QED
      BY <2>1, HoldsIs
  <1>6. high \in Int /\ Moved(word, u, -w, high)
    BY <1>2, <1>4, <1>5, ShiftsExact
  <1> HIDE DEF high
  <1>7. msb \in Nat /\ msb < Pow2[w] /\ msb = U(byte, high)
    BY <1>2, <1>3, <1>6, UIs
  <1>8. ASSUME NEW i \in Nat, i < w
        PROVE  Bit(msb, i) = Bit(u, i + w)
    <2>1. Bit(msb, i) = Bit(U(word, high), i)
      <3>1. U(byte, high) = high % Pow2[w] /\ U(word, high) = high % Pow2[2 * w]
        BY <1>2, <1>3, <1>6, UIs
      <3>2. U(byte, U(word, high)) = U(byte, high)
        <4>1. Same(Pow2[w], U(word, high), high)
          <5>1. Same(Pow2[2 * w], U(word, high), high) /\ U(word, high) \in Int
            BY <1>2, <1>3, <1>6, UIs
          <5> QED
            BY <1>2, <1>3, <1>6, <5>1, SameDown
        <4> DEFINE x == U(word, high)
                   y == U(byte, high)
        <4>2. x \in Int /\ y \in Nat /\ y < Range2(byte) /\ Same(Range2(byte), y, high)
          BY <1>2, <1>6, UIs
        <4>3. Same(Range2(byte), x, high) /\ Range2(byte) \in Nat
          BY <1>3, <4>1
        <4> HIDE DEF x, y
        <4>4. Same(Range2(byte), high, x)
          BY <1>6, <4>2, <4>3, SameSym
        <4>5. Same(Range2(byte), y, x)
          BY <1>6, <4>2, <4>3, <4>4, SameTrans
        <4>6. U(byte, x) = y
          BY <1>2, <4>2, <4>5, UOnly
        <4> QED
          BY <4>6 DEF x, y
      <3> DEFINE x == U(word, high)
      <3>3. x \in Nat /\ msb = x % Pow2[w]
        BY <1>2, <1>3, <1>6, <1>7, <3>2, UIs
      <3> HIDE DEF x
      <3>4. Bit(x % Pow2[w], i) = Bit(x, i)
        BY <1>2, <1>8, <3>3, BitMod
      <3> QED
        BY <3>3, <3>4 DEF x
    <2>2. -w \in Int /\ i - (-w) = i + w /\ i + w \in 0 .. word.w - 1 /\ i < word.w
      BY <1>2, <1>8
    <2>3. Bit(U(word, high), i) = Bit(U(word, u), i + w)
      BY <1>2, <1>4, <1>6, <2>2, MovedBits
    <2> QED
      BY <1>4, <2>1, <2>3
  <1> HIDE DEF msb
  <1>9. As(word, msb) = msb /\ U(word, msb) = msb /\ msb \in Int
    <2>1. msb < Range2(word) /\ msb \in Int
      BY <1>3, <1>7
    <2> QED
      BY <1>2, <1>7, <2>1, UKeeps
  <1>10. left \in Int /\ Moved(word, msb, w, left)
    <2>1. w \in Int
      BY <1>2
    <2> QED
      BY <1>2, <1>5, <1>9, <2>1, ShiftsExact
  <1> HIDE DEF left
  <1>11. lsb \in Nat /\ lsb < Pow2[w] /\ lsb = u % Pow2[w]
    <2>1. lsb = U(byte, v) /\ lsb \in Nat /\ lsb < Pow2[w] /\ Same(Pow2[w], lsb, v)
      BY <1>2, <1>3, UIs
    <2>2. Same(Pow2[w], u, v)
      BY <1>2, <1>3, <1>4, SameDown
    <2> HIDE DEF lsb
    <2>3. Same(Range2(byte), lsb, u)
      <3>1. Same(Pow2[w], v, u)
        BY <1>3, <1>4, <2>2, SameSym
      <3>2. lsb \in Int
        BY <2>1
      <3>3. Same(Pow2[w], lsb, u)
        BY <1>3, <1>4, <2>1, <3>1, <3>2, SameTrans
      <3> QED
        BY <1>3, <3>3
    <2>4. U(byte, u) = lsb
      BY <1>2, <1>3, <1>4, <2>1, <2>3, UOnly
    <2>5. U(byte, u) = u % Pow2[w]
      BY <1>2, <1>3, <1>4, UIs
    <2> QED
      BY <2>1, <2>4, <2>5
  <1> HIDE DEF lsb
  <1>12. right = lsb /\ U(word, right) = lsb /\ right \in Int
    <2>1. lsb < Range2(word) /\ lsb \in Int
      BY <1>3, <1>11
    <2> QED
      BY <1>2, <1>11, <2>1, UKeeps
  <1> HIDE DEF right
  <1>13. r \in Int
    BY <1>2, <1>10, <1>12, BitsExact
  <1>14. ASSUME NEW i \in 0 .. word.w - 1
         PROVE  Bit(U(word, r), i) = 1 <=> Bit(u, i) = 1
    <2>1. i \in Nat /\ i < word.w /\ word.w = 2 * w
      BY <1>2
    <2>2. Bit(U(word, r), i) = 1 <=> Bit(U(word, left), i) = 1 \/ Bit(lsb, i) = 1
      BY <1>2, <1>10, <1>12, <2>1, JoinBits
    <2>3. Bit(U(word, left), i)
            = (IF i - w \in 0 .. word.w - 1 THEN Bit(U(word, msb), i - w) ELSE 0)
      <3>1. w \in Int
        BY <1>2
      <3> QED
        BY <1>2, <1>9, <1>10, <2>1, <3>1, MovedBits
    <2>4. CASE i < w
      <3>1. i - w \notin 0 .. word.w - 1
        BY <1>2, <2>1, <2>4
      <3>2. Bit(lsb, i) = Bit(u, i)
        BY <1>2, <1>4, <1>11, <2>1, <2>4, BitMod
      <3> QED
        BY <2>2, <2>3, <3>1, <3>2
    <2>5. CASE i >= w
      <3>1. i - w \in 0 .. word.w - 1 /\ i - w \in Nat /\ i - w < w /\ (i - w) + w = i
        BY <1>2, <2>1, <2>5
      <3>2. Bit(msb, i - w) = Bit(u, (i - w) + w)
        BY <1>8, <3>1
      <3>3. Bit(lsb, i) = 0
        BY <1>2, <1>11, <2>1, <2>5, BitAbove
      <3> QED
        BY <1>9, <2>2, <2>3, <3>1, <3>2, <3>3
    <2> QED
      BY <1>2, <2>1, <2>4, <2>5
  <1> HIDE DEF r
  <1>15. U(word, r) = u
    BY <1>2, <1>3, <1>4, <1>13, <1>14, BitsDecide
  <1>16. As(whole, r) = v
    <2>1. Same(Pow2[2 * w], u, r)
      BY <1>2, <1>3, <1>13, <1>15, UIs
    <2>2. Same(Pow2[2 * w], v, u)
      BY <1>3, <1>4, SameSym
    <2>3. Same(Range2(whole), v, r)
      BY <1>3, <1>4, <1>13, <2>1, <2>2, SameTrans
    <2>4. Holds(whole, v)
      BY DEF whole
    <2> QED
      BY <1>2, <1>13, <2>3, <2>4, AsOnly
  <1> QED
    BY <1>1, <1>16

-----------------------------------------------------------------------------
(* Rounding up to a power of two: smearing the digits to the right.        *)

Further(t, i, s) ==
  IF Pow2[i - 1] >= t.w THEN s ELSE Number!Or(t, s, Number!Shr(t, s, Pow2[i - 1]))

Smear(t, y) ==
  LET smear[i \in 0 .. t.w] ==
        IF i = 0 THEN y
        ELSE IF Pow2[i - 1] >= t.w THEN smear[i - 1]
        ELSE Number!Or(t, smear[i - 1], Number!Shr(t, smear[i - 1], Pow2[i - 1]))
  IN smear[t.w]

(* One step: what was smeared over p positions is smeared over 2 * p.      *)
LEMMA FurtherIs ==
  ASSUME NEW t \in Types, NEW i \in Nat, i # 0, NEW s \in Int
  PROVE  /\ Pow2[i - 1] \in Nat
         /\ Further(t, i, s) \in Int
         /\ Pow2[i - 1] >= t.w => Further(t, i, s) = s
         /\ Pow2[i - 1] < t.w =>
              \A j \in 0 .. t.w - 1 :
                Bit(U(t, Further(t, i, s)), j) = 1
                  <=> \/ Bit(U(t, s), j) = 1
                      \/ j + Pow2[i - 1] < t.w /\ Bit(U(t, s), j + Pow2[i - 1]) = 1
  <1> DEFINE p == Pow2[i - 1]
             m == Number!Shr(t, s, p)
  <1>1. p \in Nat /\ t.w \in Nat
    BY Pow2Exceeds, TypeBounds
  <1>2. CASE p >= t.w
    <2>1. Further(t, i, s) = s
      BY <1>2 DEF Further
    <2>2. ~(p < t.w)
      BY <1>1, <1>2
    <2> QED
      BY <1>1, <2>1, <2>2
  <1>3. CASE p < t.w
    <2>1. Further(t, i, s) = Number!Or(t, s, m)
      <3>1. ~(p >= t.w)
        BY <1>1, <1>3
      <3> QED
        BY <3>1 DEF Further
    <2> HIDE DEF p
    <2>2. Holds(t, p) /\ p \in Int
      <3>1. p < Half(t) /\ Half(t) \in Nat /\ Lowest(t) <= 0 /\ Lowest(t) \in Int
            /\ Highest(t) >= Half(t) - 1 /\ Highest(t) \in Int
        BY <1>1, <1>3, TypeBounds
      <3>2. Lowest(t) <= p /\ p <= Highest(t)
        BY <1>1, <3>1
      <3> QED
        BY <1>1, <3>2, HoldsIs
    <2>3. m \in Int /\ Moved(t, s, -p, m) /\ -p \in Int
      BY <2>2, ShiftsExact
    <2> HIDE DEF m
    <2>4. Number!Or(t, s, m) \in Int
      BY <2>3, BitsExact
    <2>5. ASSUME NEW j \in 0 .. t.w - 1
          PROVE  Bit(U(t, Number!Or(t, s, m)), j) = 1
                   <=> Bit(U(t, s), j) = 1 \/ (j + p < t.w /\ Bit(U(t, s), j + p) = 1)
      <3>1. j \in Nat /\ j < t.w /\ j - (-p) = j + p
        BY <1>1
      <3>2. Bit(U(t, Number!Or(t, s, m)), j) = 1
              <=> Bit(U(t, s), j) = 1 \/ Bit(U(t, m), j) = 1
        BY <2>3, <3>1, JoinBits
      <3>3. Bit(U(t, m), j)
              = (IF j - (-p) \in 0 .. t.w - 1 THEN Bit(U(t, s), j - (-p)) ELSE 0)
        BY <2>3, <3>1, MovedBits
      <3>4. j - (-p) \in 0 .. t.w - 1 <=> j + p < t.w
        BY <1>1, <3>1
      <3> QED
        BY <3>1, <3>2, <3>3, <3>4
    <2>6. Number!Or(t, s, m) = Further(t, i, s)
      BY <2>1
    <2> HIDE DEF Further
    <2>7. \A j \in 0 .. t.w - 1 :
            Bit(U(t, Further(t, i, s)), j) = 1
              <=> Bit(U(t, s), j) = 1 \/ (j + p < t.w /\ Bit(U(t, s), j + p) = 1)
      BY <2>5, <2>6
    <2> QED
      BY <1>1, <1>3, <2>4, <2>6, <2>7 DEF p
  <1> QED
    BY <1>1, <1>2, <1>3

LEMMA SmearSteps ==
  ASSUME NEW t \in Types, NEW y \in Int
  PROVE  \E f \in [0 .. t.w -> Int] :
           /\ f[0] = y /\ \A i \in 1 .. t.w : f[i] = Further(t, i, f[i - 1])
           /\ Smear(t, y) = f[t.w]
  <1> DEFINE step == [p \in Nat \X Int |-> IF p[1] = 0 THEN p[2] ELSE Further(t, p[1], p[2])]
             w == t.w
  <1>0. w \in Nat
    BY TypeBounds
  <1>1. step \in [Nat \X Int -> Int]
    <2>1. ASSUME NEW p \in Nat \X Int
          PROVE  (IF p[1] = 0 THEN p[2] ELSE Further(t, p[1], p[2])) \in Int
      <3>1. p[1] \in Nat /\ p[2] \in Int
        OBVIOUS
      <3>2. p[1] # 0 => Further(t, p[1], p[2]) \in Int
        BY <3>1, FurtherIs
      <3> QED
        BY <3>1, <3>2
    <2> QED
      BY <2>1
  <1>2. \A k \in Nat, x \in Int : k # 0 => step[<<k, x>>] = Further(t, k, x)
    OBVIOUS
  <1> HIDE DEF step
  <1>3. PICK f \in [0 .. w -> Int] : Iterates(f, 0 .. w, y, step)
    BY <1>0, <1>1, IterationsExist
  <1>4. f[0] = y
    BY <1>0, <1>3 DEF Iterates
  <1>5. ASSUME NEW i \in 1 .. w PROVE f[i] = Further(t, i, f[i - 1])
    <2>1. i \in 0 .. w /\ i - 1 \in 0 .. w /\ i # 0 /\ i \in Nat /\ f[i - 1] \in Int
      BY <1>0
    <2>2. f[i] = step[<<i, f[i - 1]>>]
      BY <1>3, <2>1 DEF Iterates
    <2> QED
      BY <1>2, <2>1, <2>2
  <1> DEFINE c == CHOOSE smear : smear = [i \in 0 .. t.w |->
                    IF i = 0 THEN y
                    ELSE IF Pow2[i - 1] >= t.w THEN smear[i - 1]
                    ELSE Number!Or(t, smear[i - 1], Number!Shr(t, smear[i - 1], Pow2[i - 1]))]
  <1>6. f = [i \in 0 .. t.w |->
               IF i = 0 THEN y
               ELSE IF Pow2[i - 1] >= t.w THEN f[i - 1]
               ELSE Number!Or(t, f[i - 1], Number!Shr(t, f[i - 1], Pow2[i - 1]))]
    <2>1. ASSUME NEW i \in 0 .. w
          PROVE  f[i] = IF i = 0 THEN y
                        ELSE IF Pow2[i - 1] >= t.w THEN f[i - 1]
                        ELSE Number!Or(t, f[i - 1], Number!Shr(t, f[i - 1], Pow2[i - 1]))
      <3>1. CASE i = 0
        BY <1>4, <3>1
      <3>2. CASE i # 0
        <4>1. i \in 1 .. w
          BY <1>0, <3>2
        <4>2. f[i] = Further(t, i, f[i - 1])
          BY <1>5, <4>1
        <4> QED
          BY <3>2, <4>2, Zenon DEF Further
      <3> QED
        BY <3>1, <3>2
    <2> QED
      BY <2>1
  <1>7. c = [i \in 0 .. t.w |->
               IF i = 0 THEN y
               ELSE IF Pow2[i - 1] >= t.w THEN c[i - 1]
               ELSE Number!Or(t, c[i - 1], Number!Shr(t, c[i - 1], Pow2[i - 1]))]
    BY <1>6, Zenon
  <1>8. Smear(t, y) = c[t.w]
    BY DEF Smear
  <1> HIDE DEF c
  <1> DEFINE T == {i \in Nat : i <= w => c[i] = f[i]}
  <1>9. 0 \in T
    <2>1. c[0] = y
      BY <1>0, <1>7
    <2> QED
      BY <1>4, <2>1
  <1>10. ASSUME NEW i \in Nat, i \in T PROVE i + 1 \in T
    <2> SUFFICES ASSUME i + 1 <= w PROVE c[i + 1] = f[i + 1]
      OBVIOUS
    <2>1. i + 1 \in 0 .. w /\ i + 1 \in 1 .. w /\ i + 1 # 0 /\ (i + 1) - 1 = i /\ c[i] = f[i]
      BY <1>0, <1>10
    <2>2. f[i + 1] = Further(t, i + 1, f[(i + 1) - 1])
      BY <1>5, <2>1
    <2>3. c[i + 1] = Further(t, i + 1, c[(i + 1) - 1])
      <3> DEFINE k == i + 1
      <3>1. k \in 0 .. t.w /\ k # 0
        BY <2>1
      <3> HIDE DEF k
      <3>2. c[k] = IF k = 0 THEN y
                   ELSE IF Pow2[k - 1] >= t.w THEN c[k - 1]
                   ELSE Number!Or(t, c[k - 1], Number!Shr(t, c[k - 1], Pow2[k - 1]))
        BY <1>7, <3>1
      <3>3. c[k] = Further(t, k, c[k - 1])
        BY <3>1, <3>2, Zenon DEF Further
      <3> QED
        BY <3>3 DEF k
    <2> QED
      BY <2>1, <2>2, <2>3
  <1> HIDE DEF T
  <1>11. w \in T
    BY <1>0, <1>9, <1>10, Induction
  <1>12. c[w] = f[w]
    BY <1>0, <1>11 DEF T
  <1> QED
    BY <1>4, <1>5, <1>8, <1>12

(* After i steps a digit is set if one of the digits of y is within 2^i    *)
(* positions above.                                                        *)
Near(w, y, i, j) == \E k \in 0 .. w - 1 : Bit(y, k) = 1 /\ j <= k /\ k < j + Pow2[i]

LEMMA SmearBits ==
  ASSUME NEW t \in Types, NEW y \in Int
  PROVE  /\ Smear(t, y) \in Int
         /\ \A j \in 0 .. t.w - 1 :
              Bit(U(t, Smear(t, y)), j) = 1
                <=> \E k \in 0 .. t.w - 1 : Bit(U(t, y), k) = 1 /\ j <= k
  <1> DEFINE w == t.w
             u == U(t, y)
  <1>0. w \in Nat
    BY TypeBounds
  <1>1. PICK f \in [0 .. t.w -> Int] :
           /\ f[0] = y /\ \A i \in 1 .. t.w : f[i] = Further(t, i, f[i - 1])
           /\ Smear(t, y) = f[t.w]
    BY SmearSteps
  <1> DEFINE P(i) == \A j \in 0 .. w - 1 : Bit(U(t, f[i]), j) = 1 <=> Near(w, u, i, j)
             T == {i \in Nat : i <= w => P(i)}
  <1>2. 0 \in T
    <2>1. ASSUME NEW j \in 0 .. w - 1
          PROVE  Bit(U(t, f[0]), j) = 1 <=> Near(w, u, 0, j)
      <3>1. Near(w, u, 0, j) <=> \E k \in 0 .. w - 1 : Bit(u, k) = 1 /\ j <= k /\ k < j + 1
        BY Pow2Step DEF Near
      <3>2. \A k \in 0 .. w - 1 : (j <= k /\ k < j + 1) <=> k = j
        BY <1>0
      <3>3. Near(w, u, 0, j) <=> Bit(u, j) = 1
        <4> HIDE DEF u, w
        <4> QED
          BY <3>1, <3>2
      <3> QED
        BY <1>1, <3>3
    <2> QED
      BY <2>1
  <1>3. ASSUME NEW i \in Nat, i \in T PROVE i + 1 \in T
    <2> SUFFICES ASSUME i + 1 <= w PROVE P(i + 1)
      OBVIOUS
    <2>1. /\ i + 1 \in 1 .. t.w /\ (i + 1) - 1 = i /\ P(i) /\ f[i] \in Int /\ i + 1 \in Nat
          /\ i + 1 # 0 /\ f[i + 1] = Further(t, i + 1, f[i])
      BY <1>0, <1>1, <1>3
    <2>2. Pow2[i] \in Nat /\ Pow2[i + 1] = 2 * Pow2[i]
      BY Pow2Step, Pow2Exceeds
    <2> DEFINE p == Pow2[i]
    <2>3. CASE p >= w
      <3>1. f[i + 1] = f[i]
        BY <2>1, <2>3, FurtherIs
      <3>2. ASSUME NEW j \in 0 .. w - 1
            PROVE  Near(w, u, i + 1, j) <=> Near(w, u, i, j)
        <4>1. \A k \in 0 .. w - 1 : k < j + p /\ k < j + Pow2[i + 1]
          BY <1>0, <2>2, <2>3
        <4> QED
          BY <4>1, Zenon DEF Near
      <3> QED
        BY <2>1, <3>1, <3>2
    <2>4. CASE p < w
      <3>1. ASSUME NEW j \in 0 .. w - 1
            PROVE  Bit(U(t, f[i + 1]), j) = 1 <=> Near(w, u, i + 1, j)
        <4>1. Bit(U(t, f[i + 1]), j) = 1
                <=> Bit(U(t, f[i]), j) = 1 \/ (j + p < t.w /\ Bit(U(t, f[i]), j + p) = 1)
          <5> DEFINE k == i + 1
                     v == f[i]
          <5>1. k \in Nat /\ k # 0 /\ k - 1 = i /\ v \in Int
            BY <2>1
          <5> HIDE DEF k, v, p
          <5>2. Pow2[k - 1] < t.w =>
                  \A z \in 0 .. t.w - 1 :
                    Bit(U(t, Further(t, k, v)), z) = 1
                      <=> \/ Bit(U(t, v), z) = 1
                          \/ z + Pow2[k - 1] < t.w /\ Bit(U(t, v), z + Pow2[k - 1]) = 1
            BY <5>1, FurtherIs
          <5>3. Pow2[k - 1] = p /\ f[i + 1] = Further(t, k, v)
            BY <2>1, <5>1 DEF p, k, v
          <5> QED
            BY <2>4, <5>2, <5>3, Zenon DEF v
        <4>2. Bit(U(t, f[i]), j) = 1 <=> Near(w, u, i, j)
          BY <2>1
        <4>3. j + p < w => (Bit(U(t, f[i]), j + p) = 1 <=> Near(w, u, i, j + p))
          <5> SUFFICES ASSUME j + p < w
                       PROVE  Bit(U(t, f[i]), j + p) = 1 <=> Near(w, u, i, j + p)
            OBVIOUS
          <5> DEFINE z == j + p
          <5>1. z \in 0 .. w - 1
            BY <1>0, <2>2
          <5> HIDE DEF z
          <5>2. Bit(U(t, f[i]), z) = 1 <=> Near(w, u, i, z)
            BY <2>1, <5>1
          <5> QED
            BY <5>2 DEF z
        <4>4. Near(w, u, i + 1, j) <=> Near(w, u, i, j) \/ (j + p < w /\ Near(w, u, i, j + p))
          <5> DEFINE A(k) == Bit(u, k) = 1
          <5>1. \A k \in 0 .. w - 1 :
                  /\ (j <= k /\ k < j + Pow2[i + 1])
                        <=> (j <= k /\ k < j + p) \/ (j + p <= k /\ k < (j + p) + p)
                  /\ j + p <= k => j + p < w
            BY <1>0, <2>2
          <5> HIDE DEF p, w, u
          <5>2. /\ Near(w, u, i + 1, j) <=>
                     \E k \in 0 .. w - 1 : A(k) /\ (j <= k /\ k < j + Pow2[i + 1])
                /\ Near(w, u, i, j) <=> \E k \in 0 .. w - 1 : A(k) /\ (j <= k /\ k < j + p)
                /\ Near(w, u, i, j + p) <=>
                     \E k \in 0 .. w - 1 : A(k) /\ (j + p <= k /\ k < (j + p) + p)
            BY DEF Near, p
          <5> HIDE DEF A
          <5> QED
            BY <5>1, <5>2, Zenon
        <4> QED
          BY <4>1, <4>2, <4>3, <4>4
      <3> QED
        BY <3>1
    <2> QED
      BY <1>0, <2>2, <2>3, <2>4
  <1> HIDE DEF T
  <1>4. w \in T
    BY <1>0, <1>2, <1>3, Induction
  <1>5. P(w)
    BY <1>0, <1>4 DEF T
  <1>6. w < Pow2[w] /\ Pow2[w] \in Nat
    BY <1>0, Pow2Exceeds
  <1>7. ASSUME NEW j \in 0 .. w - 1
        PROVE  Near(w, u, w, j) <=> \E k \in 0 .. w - 1 : Bit(u, k) = 1 /\ j <= k
    <2>1. \A k \in 0 .. w - 1 : k < j + Pow2[w]
      BY <1>0, <1>6
    <2> QED
      BY <2>1, Zenon DEF Near
  <1>8. f[w] \in Int
    BY <1>0
  <1> QED
    BY <1>1, <1>5, <1>7, <1>8

(* The power of two above a number, and its digits below one.              *)
LEMMA PowerAbove ==
  ASSUME NEW y \in Nat
  PROVE  \E m \in Nat : y < Pow2[m] /\ (m > 0 => Pow2[m - 1] <= y)
  <1> DEFINE T == {k \in Nat : y < Pow2[k]}
  <1>1. y \in T
    BY Pow2Exceeds
  <1>2. PICK m \in T : \A k \in T : m <= k
    BY <1>1, LeastOf
  <1>3. ASSUME m > 0 PROVE Pow2[m - 1] <= y
    <2>1. m - 1 \in Nat /\ m \in Nat
      BY <1>3
    <2>2. m - 1 \notin T
      BY <1>2, <2>1
    <2>3. Pow2[m - 1] \in Nat
      BY <2>1, Pow2Exceeds
    <2> QED
      BY <2>1, <2>2, <2>3
  <1> QED
    BY <1>2, <1>3

LEMMA TopBit ==
  ASSUME NEW y \in Nat, NEW m \in Nat, m > 0, Pow2[m - 1] <= y, y < Pow2[m]
  PROVE  Bit(y, m - 1) = 1
  <1> DEFINE p == Pow2[m - 1]
  <1>1. m - 1 \in Nat /\ (m - 1) + 1 = m
    OBVIOUS
  <1>2. p \in Nat /\ Pow2[m] = 2 * p
    BY <1>1, Pow2Step, Pow2Exceeds
  <1>3. y - p \in Nat /\ y - p < p /\ y = (p * 1) + (y - p) /\ 1 \in Int /\ y \in Int
    BY <1>2
  <1> HIDE DEF p
  <1>4. y \div p = 1
    BY <1>2, <1>3, DivUnique
  <1> QED
    BY <1>1, <1>4, BitIs DEF p

LEMMA FullBits ==
  ASSUME NEW m \in Nat
  PROVE  /\ Pow2[m] - 1 \in Nat /\ Pow2[m] - 1 < Pow2[m]
         /\ \A i \in Nat : Bit(Pow2[m] - 1, i) = 1 <=> i < m
  <1> DEFINE v == Pow2[m] - 1
  <1>1. v \in Nat /\ v < Pow2[m] /\ v = Value(m, Nat)
    BY Pow2Exceeds, ValueFull
  <1>2. ASSUME NEW i \in Nat PROVE Bit(v, i) = 1 <=> i < m
    <2>1. CASE i < m
      BY <1>1, <2>1, ValueBits
    <2>2. CASE m <= i
      <3> HIDE DEF v
      <3>1. Bit(v, i) = 0
        BY <1>1, <2>2, BitAbove
      <3> QED
        BY <2>2, <3>1
    <2> QED
      BY <2>1, <2>2
  <1> QED
    BY <1>1, <1>2

LEMMA PowerInt ==
  ASSUME NEW t \in Types, NEW x \in Int
  PROVE  /\ Number!NextPower(t, x) = Number!Add(t, Smear(t, Number!Sub(t, x, 1)), 1)
         /\ Number!NextPower(t, x) \in Int /\ Holds(t, Number!NextPower(t, x))
  <1>1. Number!NextPower(t, x) = Number!Add(t, Smear(t, Number!Sub(t, x, 1)), 1)
    BY DEF Number!NextPower, Smear, Pow2
  <1>2. 1 \in Int
    OBVIOUS
  <1>3. Number!Sub(t, x, 1) \in Int
    BY <1>2, SumsExact
  <1> DEFINE y == Number!Sub(t, x, 1)
             s == Smear(t, y)
  <1>4. s \in Int
    <2> HIDE DEF y
    <2> QED
      BY <1>3, SmearBits DEF y
  <1> HIDE DEF s
  <1>5. Number!Add(t, s, 1) \in Int /\ Holds(t, Number!Add(t, s, 1))
    BY <1>2, <1>4, SumsExact
  <1> QED
    BY <1>1, <1>5 DEF s

LEMMA PowerExact ==
  ASSUME NEW t \in Types, t.s, NEW x \in 1 .. Pow2[t.w - 2]
  PROVE  LET ret == Number!NextPower(t, x)
         IN x <= ret /\ ret < 2 * x /\ \E k \in 0 .. t.w : ret = Pow2[k]
  <1> DEFINE w == t.w
             y == x - 1
             q == Pow2[t.w - 2]
  <1>1. /\ w \in Nat /\ w - 2 \in Nat /\ q \in Nat /\ Half(t) = 2 * q /\ Half(t) \in Nat
        /\ Range2(t) = 2 * Half(t) /\ Lowest(t) = -Half(t) /\ Highest(t) = Half(t) - 1
    <2>1. /\ w \in Nat /\ w >= 2 /\ Half(t) \in Nat /\ Range2(t) = 2 * Half(t)
          /\ Lowest(t) = -Half(t) /\ Highest(t) = Half(t) - 1
      BY TypeBounds
    <2>2. w - 2 \in Nat /\ (w - 2) + 1 = w - 1
      BY <2>1
    <2>3. Pow2[(w - 2) + 1] = 2 * q /\ q \in Nat
      BY <2>2, Pow2Step, Pow2Exceeds
    <2> QED
      BY <2>1, <2>2, <2>3 DEF Half
  <1> HIDE DEF q
  <1>2. x \in Int /\ x >= 1 /\ x <= q /\ y \in Nat /\ y < q
    BY <1>1 DEF q
  <1>3. Number!Sub(t, x, 1) = y
    <2>1. Lowest(t) <= y /\ y <= Highest(t)
      BY <1>1, <1>2
    <2>2. Holds(t, y)
      BY <2>1, HoldsIs
    <2>3. 1 \in Int /\ Number!Sub(t, x, 1) \in Int /\ Holds(t, Number!Sub(t, x, 1))
          /\ Congruent(t, Number!Sub(t, x, 1), y)
      BY <1>2, SumsExact
    <2> DEFINE z == Number!Sub(t, x, 1)
    <2> HIDE DEF z, y
    <2>4. Same(Range2(t), z, y) /\ y \in Int
      BY <1>2, <2>3, CongruentIs DEF z
    <2>5. As(t, y) = y
      BY <2>2, <2>4, AsKeeps
    <2>6. As(t, y) = z
      BY <2>3, <2>4, AsOnly DEF z
    <2> QED
      BY <2>5, <2>6 DEF z
  <1> HIDE DEF y
  <1> DEFINE s == Smear(t, y)
  <1>4. U(t, y) = y
    BY <1>1, <1>2, UKeeps
  <1>5. PICK m \in Nat : y < Pow2[m] /\ (m > 0 => Pow2[m - 1] <= y)
    BY <1>2, PowerAbove
  <1> DEFINE v == Pow2[m] - 1
  <1>6. v \in Nat /\ v + 1 = Pow2[m] /\ \A i \in Nat : Bit(v, i) = 1 <=> i < m
    BY FullBits, Pow2Exceeds
  <1>7. m <= w - 2 /\ Pow2[m] <= q
    <2>1. m <= w - 2
      <3> SUFFICES ASSUME w - 2 < m PROVE FALSE
        BY <1>1
      <3>1. m - 1 \in Nat /\ w - 2 <= m - 1 /\ m > 0
        BY <1>1
      <3>2. q <= Pow2[m - 1] /\ Pow2[m - 1] \in Nat
        BY <1>1, <3>1, Pow2Grows, Pow2Exceeds DEF q
      <3> QED
        BY <1>1, <1>2, <1>5, <3>1, <3>2
    <2> QED
      BY <1>1, <2>1, Pow2Grows DEF q
  <1>8. ASSUME NEW j \in 0 .. w - 1
        PROVE  Bit(U(t, s), j) = 1 <=> Bit(v, j) = 1
    <2>1. y \in Int /\ j \in Nat
      BY <1>1, <1>2
    <2>2. Bit(U(t, s), j) = 1 <=> \E k \in 0 .. w - 1 : Bit(y, k) = 1 /\ j <= k
      BY <1>4, <2>1, SmearBits
    <2>3. ASSUME NEW k \in 0 .. w - 1, Bit(y, k) = 1 PROVE k < m
      <3>1. k \in Nat
        BY <1>1
      <3>2. m <= k => Bit(y, k) = 0
        BY <1>2, <1>5, <3>1, BitAbove
      <3> QED
        BY <2>3, <3>1, <3>2
    <2>4. CASE j < m
      <3>1. m > 0 /\ m - 1 \in 0 .. w - 1 /\ j <= m - 1
        BY <1>1, <1>7, <2>1, <2>4
      <3>2. Bit(y, m - 1) = 1
        BY <1>2, <1>5, <3>1, TopBit
      <3>3. \E k \in 0 .. w - 1 : Bit(y, k) = 1 /\ j <= k
        BY <3>1, <3>2
      <3> QED
        BY <1>6, <2>1, <2>2, <2>4, <3>3
    <2>5. CASE m <= j
      <3>1. ~\E k \in 0 .. w - 1 : Bit(y, k) = 1 /\ j <= k
        <4> SUFFICES ASSUME NEW k \in 0 .. w - 1, Bit(y, k) = 1, j <= k PROVE FALSE
          OBVIOUS
        <4>1. k < m
          BY <2>3
        <4> QED
          BY <1>1, <2>1, <2>5, <4>1
      <3>2. ~(j < m)
        BY <2>1, <2>5
      <3> QED
        BY <1>6, <2>1, <2>2, <3>1, <3>2
    <2> QED
      BY <2>1, <2>4, <2>5
  <1>9. s \in Int
    BY <1>2, SmearBits
  <1> HIDE DEF s, v
  <1>10. U(t, s) = v
    <2>1. v < Range2(t)
      BY <1>1, <1>6, <1>7
    <2> QED
      BY <1>6, <1>8, <1>9, <2>1, BitsDecide
  <1>11. Number!NextPower(t, x) = Pow2[m]
    <2> DEFINE p == Pow2[m]
               r == Number!Add(t, s, 1)
    <2>1. Number!NextPower(t, x) = r
      BY <1>2, <1>3, PowerInt DEF s
    <2>2. 1 \in Nat /\ 1 < Range2(t) /\ p \in Int
      BY <1>1, <1>2, <1>7, Pow2Exceeds
    <2>3. U(t, 1) = 1
      BY <2>2, UKeeps
    <2>4. r = As(t, p)
      BY <1>6, <1>10, <2>3 DEF Number!Add, As, U
    <2>5. Holds(t, p)
      <3>1. Lowest(t) <= p /\ p <= Highest(t)
        BY <1>1, <1>2, <1>6, <1>7, <2>2
      <3> QED
        BY <3>1, HoldsIs
    <2> HIDE DEF p, r
    <2>6. As(t, p) = p
      BY <2>2, <2>5, AsKeeps
    <2> QED
      BY <2>1, <2>4, <2>6 DEF p
  <1>12. x <= Pow2[m] /\ Pow2[m] < 2 * x
    <2>1. x = y + 1 /\ Pow2[m] \in Nat
      BY <1>2, Pow2Exceeds DEF y
    <2>2. CASE m = 0
      BY <1>2, <1>5, <2>1, <2>2, Pow2Step
    <2>3. CASE m > 0
      <3>1. m - 1 \in Nat /\ (m - 1) + 1 = m
        BY <2>3
      <3>2. Pow2[m] = 2 * Pow2[m - 1] /\ Pow2[m - 1] \in Nat
        BY <3>1, Pow2Step, Pow2Exceeds
      <3> QED
        BY <1>2, <1>5, <2>1, <2>3, <3>2
    <2> QED
      BY <2>2, <2>3
  <1>13. m \in 0 .. t.w
    BY <1>1, <1>7
  <1> QED
    BY <1>11, <1>12, <1>13

-----------------------------------------------------------------------------
(* Casts from floating point: the bounds of a type as floating-point       *)
(* numbers, counted in halves.                                             *)

AsFloat(x) == Number!AsFloat(x)

LEMMA FloatIs ==
  ASSUME NEW x \in Int
  PROVE  \E e \in Nat :
           LET halves == 2 * Number!Magnitude(x)
           IN /\ halves < Pow2[Precision + e]
              /\ e > 0 => Pow2[(Precision + e) - 1] <= halves
              /\ AsFloat(x) = Number!Sign(x) * Pow2[e]
                                * ((halves + Pow2[e] \div 2) \div Pow2[e])
  <1> DEFINE halves == 2 * Number!Magnitude(x)
             Fits(e) == halves < Pow2[Precision + e]
             c == CHOOSE e \in 0 .. halves :
                    halves < Pow2[Precision + e]
                    /\ (e > 0 => halves >= Pow2[Precision + e - 1])
             T == {k \in Nat : Fits(k)}
  <1>1. halves \in Nat
    BY DEF Number!Magnitude
  <1>2. Precision \in Nat /\ Precision >= 1
    BY AlgorithmsAssumption DEF Number!Assumption
  <1>3. AsFloat(x) = Number!Sign(x) * Pow2[c] * ((halves + Pow2[c] \div 2) \div Pow2[c])
    BY DEF AsFloat, Number!AsFloat, Pow2
  <1> HIDE DEF halves
  <1>4. halves \in T
    <2>1. Precision + halves \in Nat /\ halves <= Precision + halves
      BY <1>1, <1>2
    <2>2. Pow2[halves] <= Pow2[Precision + halves]
      BY <1>1, <2>1, Pow2Grows
    <2>3. halves < Pow2[halves] /\ Pow2[halves] \in Nat /\ Pow2[Precision + halves] \in Nat
      BY <1>1, <2>1, Pow2Exceeds
    <2> QED
      BY <1>1, <2>2, <2>3
  <1>5. PICK k \in T : \A j \in T : k <= j
    BY <1>4, LeastOf
  <1>6. k \in 0 .. halves
    BY <1>1, <1>4, <1>5
  <1>7. ASSUME k > 0 PROVE halves >= Pow2[Precision + k - 1]
    <2>1. k - 1 \in Nat /\ k \in Nat
      BY <1>6, <1>7
    <2>2. k - 1 \notin T
      BY <1>5, <2>1
    <2>3. Precision + (k - 1) = Precision + k - 1 /\ Precision + (k - 1) \in Nat
      BY <1>2, <2>1
    <2>4. Pow2[Precision + (k - 1)] \in Nat
      BY <2>3, Pow2Exceeds
    <2> QED
      BY <1>1, <2>1, <2>2, <2>3, <2>4
  <1>8. /\ c \in 0 .. halves /\ halves < Pow2[Precision + c]
        /\ (c > 0 => halves >= Pow2[Precision + c - 1])
    BY <1>5, <1>6, <1>7
  <1> HIDE DEF c
  <1>9. c > 0 => Pow2[(Precision + c) - 1] <= halves
    <2> SUFFICES ASSUME c > 0 PROVE Pow2[(Precision + c) - 1] <= halves
      OBVIOUS
    <2>1. (Precision + c) - 1 \in Nat
      BY <1>1, <1>2, <1>8
    <2>2. Pow2[(Precision + c) - 1] \in Nat
      BY <2>1, Pow2Exceeds
    <2>3. halves >= Pow2[(Precision + c) - 1]
      <3>1. Precision + (c - 1) = (Precision + c) - 1
        BY <1>1, <1>2, <1>8
      <3>2. halves >= Pow2[Precision + (c - 1)]
        BY <1>8, Zenon
      <3> QED
        BY <3>1, <3>2, Zenon
    <2> QED
      BY <1>1, <2>2, <2>3
  <1> QED
    BY <1>1, <1>3, <1>8, <1>9 DEF halves

(* A multiple of the last digit's value is kept; just below one, by less   *)
(* than half of it, the number is rounded up to it.                        *)
LEMMA Rounded ==
  ASSUME NEW s \in Nat, s > 0, NEW g \in Nat, NEW d \in Nat, d <= s \div 2, NEW y \in Nat,
         y = (s * g) - d
  PROVE  (y + s \div 2) \div s = g
  <1> DEFINE h == s \div 2
             v == s * g
             z == h - d
             u == y + h
  <1>1. h \in Nat /\ h < s /\ z \in Nat /\ z < s /\ v \in Nat
    OBVIOUS
  <1>2. u \in Int /\ u = v + z
    BY <1>1
  <1> HIDE DEF u, z, h
  <1>3. u \div s = g
    <2>1. u = (s * g) + z
      BY <1>2
    <2> QED
      BY <1>1, <1>2, <2>1, DivUnique
  <1> QED
    BY <1>3 DEF u, h

LEMMA FloatOfMultiple ==
  ASSUME NEW sign \in Int, NEW s \in Nat, s > 0, NEW g \in Nat, NEW y \in Nat, y = s * g
  PROVE  sign * s * ((y + s \div 2) \div s) = sign * y
  <1>1. 0 \in Nat /\ 0 <= s \div 2 /\ y = (s * g) - 0
    OBVIOUS
  <1>2. (y + s \div 2) \div s = g
    BY <1>1, Rounded
  <1> QED
    BY <1>2

LEMMA FloatLowest ==
  ASSUME NEW t \in Types
  PROVE  AsFloat(Lowest(t)) = 2 * Lowest(t)
  <1> DEFINE x == Lowest(t)
             halves == 2 * Number!Magnitude(x)
  <1>0. x \in Int /\ x <= 0
    BY BoundsHold
  <1>1. PICK e \in Nat :
           /\ halves < Pow2[Precision + e]
           /\ e > 0 => Pow2[(Precision + e) - 1] <= halves
           /\ AsFloat(x) = Number!Sign(x) * Pow2[e]
                             * ((halves + Pow2[e] \div 2) \div Pow2[e])
    BY <1>0, FloatIs
  <1>2. Precision \in Nat /\ Precision >= 1
    BY AlgorithmsAssumption DEF Number!Assumption
  <1>3. halves = -(2 * x) /\ halves \in Nat
    BY <1>0 DEF Number!Magnitude
  <1> DEFINE s == Pow2[e]
  <1>4. s \in Nat /\ s > 0
    BY Pow2Exceeds
  <1>5. \E g \in Nat : halves = s * g
    <2>1. CASE e = 0
      <3>1. s = 1
        BY <2>1, Pow2Step
      <3> HIDE DEF s, halves
      <3> QED
        BY <1>3, <3>1
    <2>2. CASE e # 0
      <3>1. e > 0 /\ (Precision + e) - 1 \in Nat /\ Precision + e \in Nat
        BY <1>2, <2>2
      <3>2. Pow2[(Precision + e) - 1] <= halves /\ Pow2[(Precision + e) - 1] \in Nat
            /\ Pow2[(Precision + e) - 1] > 0
        BY <1>1, <3>1, Pow2Exceeds
      <3>3. /\ t.w \in Nat /\ Range2(t) = 2 * Half(t) /\ Half(t) \in Nat
            /\ x = -Half(t) /\ Range2(t) = Pow2[t.w]
        BY <1>3, <3>2, TypeBounds DEF Range2
      <3>4. halves = Pow2[t.w]
        BY <1>3, <3>3
      <3>5. ~(t.w < e)
        <4> SUFFICES ASSUME t.w < e PROVE FALSE
          OBVIOUS
        <4>1. t.w <= (Precision + e) - 1
          BY <1>2, <3>1, <3>3
        <4>2. t.w < (Precision + e) - 1 \/ t.w = (Precision + e) - 1
          BY <3>1, <3>3, <4>1
        <4>3. t.w < (Precision + e) - 1
          BY <1>2, <3>1, <3>3
        <4>4. 2 * Pow2[t.w] <= Pow2[(Precision + e) - 1]
          BY <3>1, <3>3, <4>1, <4>3, Pow2Grows
        <4> QED
          BY <1>3, <3>1, <3>2, <3>4, <4>4, <3>3, Pow2Exceeds
      <3>6. t.w - e \in Nat /\ e <= t.w
        BY <3>3, <3>5
      <3>7. Pow2[t.w] = s * Pow2[t.w - e] /\ Pow2[t.w - e] \in Nat
        BY <3>3, <3>6, Pow2Grows, Pow2Exceeds
      <3> QED
        BY <3>4, <3>7
    <2> QED
      BY <2>1, <2>2
  <1>6. PICK g \in Nat : halves = s * g
    BY <1>5
  <1> DEFINE sign == Number!Sign(x)
  <1>7. sign \in Int /\ sign * halves = 2 * x
    <2>1. CASE x < 0
      <3>1. sign = -1
        BY <2>1 DEF Number!Sign
      <3> HIDE DEF halves, sign
      <3> QED
        BY <1>0, <1>3, <3>1
    <2>2. CASE x = 0
      <3>1. sign = 1 /\ halves = 0
        BY <1>3, <2>2 DEF Number!Sign
      <3> HIDE DEF halves, sign
      <3> QED
        BY <2>2, <3>1
    <2> QED
      BY <1>0, <2>1, <2>2
  <1> HIDE DEF s, halves, sign
  <1>8. sign * s * ((halves + s \div 2) \div s) = sign * halves
    BY <1>3, <1>4, <1>6, <1>7, FloatOfMultiple, ZenonT(40)
  <1>9. AsFloat(x) = sign * s * ((halves + s \div 2) \div s)
    BY <1>1 DEF s, sign
  <1> QED
    BY <1>7, <1>8, <1>9

(* The highest value may be rounded up, but only past where the            *)
(* floating-point numbers have become even.                                *)
LEMMA FloatHighest ==
  ASSUME NEW t \in Types
  PROVE  \/ AsFloat(Highest(t)) = 2 * Highest(t)
         \/ /\ AsFloat(Highest(t)) = 2 * Highest(t) + 2
            /\ Pow2[Precision] < 2 * Highest(t) + 1
  <1> DEFINE x == Highest(t)
             halves == 2 * Number!Magnitude(x)
  <1>0. x \in Int /\ x >= 1
    BY BoundsHold
  <1>1. PICK e \in Nat :
           /\ halves < Pow2[Precision + e]
           /\ e > 0 => Pow2[(Precision + e) - 1] <= halves
           /\ AsFloat(x) = Number!Sign(x) * Pow2[e]
                             * ((halves + Pow2[e] \div 2) \div Pow2[e])
    BY <1>0, FloatIs
  <1>2. Precision \in Nat /\ Precision >= 1 /\ Pow2[Precision] \in Nat
    <2>1. Precision \in Nat /\ Precision >= 1
      BY AlgorithmsAssumption DEF Number!Assumption
    <2> QED
      BY <2>1, Pow2Exceeds
  <1>3. halves = 2 * x /\ halves \in Nat /\ Number!Sign(x) = 1
    BY <1>0 DEF Number!Magnitude, Number!Sign
  <1> DEFINE s == Pow2[e]
             f == (halves + s \div 2) \div s
  <1>4. s \in Nat /\ s > 0
    BY Pow2Exceeds
  <1>5. AsFloat(x) = 1 * s * f
    BY <1>1, <1>3
  <1>6. PICK k \in Nat : k >= 1 /\ x = Pow2[k] - 1
    <2>1. /\ t.w \in Nat /\ t.w >= 2 /\ Half(t) = Pow2[t.w - 1] /\ Range2(t) = Pow2[t.w]
          /\ x = (IF t.s THEN Half(t) - 1 ELSE Range2(t) - 1)
      BY TypeBounds DEF Half, Range2
    <2>2. CASE t.s
      <3>1. t.w - 1 \in Nat /\ t.w - 1 >= 1 /\ x = Pow2[t.w - 1] - 1
        BY <2>1, <2>2
      <3> QED
        BY <3>1
    <2>3. CASE ~t.s
      <3>1. x = Pow2[t.w] - 1 /\ t.w >= 1
        BY <2>1, <2>3
      <3> QED
        BY <2>1, <3>1
    <2> QED
      BY <2>2, <2>3
  <1>7. Pow2[k] \in Nat /\ Pow2[k + 1] = 2 * Pow2[k] /\ halves = Pow2[k + 1] - 2 /\ k + 1 \in Nat
    BY <1>3, <1>6, Pow2Step, Pow2Exceeds
  <1> HIDE DEF halves, x
  <1>8. ASSUME NEW g \in Nat, halves = s * g PROVE AsFloat(x) = 2 * x
    <2> HIDE DEF s
    <2>0. 1 \in Int
      OBVIOUS
    <2>1. 1 * s * ((halves + s \div 2) \div s) = 1 * halves
      BY <1>3, <1>4, <1>8, <2>0, FloatOfMultiple, ZenonT(40)
    <2> QED
      BY <1>0, <1>3, <1>5, <2>1
  <1>9. CASE e = 0
    <2>1. s = 1
      BY <1>9, Pow2Step
    <2>2. halves = s * halves
      BY <1>3, <2>1
    <2> QED
      BY <1>3, <1>8, <2>2 DEF x
  <1>10. CASE e = 1
    <2>1. s = 2
      <3>1. Pow2[0 + 1] = 2 * Pow2[0] /\ Pow2[0] = 1 /\ 0 + 1 = 1
        BY Pow2Step
      <3> QED
        BY <1>10, <3>1
    <2>2. x \in Nat /\ halves = s * x
      BY <1>0, <1>3, <2>1
    <2> QED
      BY <1>8, <2>2 DEF x
  <1>11. CASE e >= 2
    <2>1. Precision + e = k + 1
      <3>1. (Precision + e) - 1 \in Nat /\ Precision + e \in Nat /\ e > 0
        BY <1>2, <1>11
      <3>2. Pow2[(Precision + e) - 1] <= halves /\ Pow2[(Precision + e) - 1] \in Nat
        BY <1>1, <1>11, <3>1, Pow2Exceeds DEF halves, x
      <3>3. ~(k + 1 <= (Precision + e) - 1)
        <4> SUFFICES ASSUME k + 1 <= (Precision + e) - 1 PROVE FALSE
          OBVIOUS
        <4>1. Pow2[k + 1] <= Pow2[(Precision + e) - 1]
          BY <1>7, <3>1, Pow2Grows
        <4> QED
          BY <1>7, <3>2, <4>1
      <3>4. ~(Precision + e <= k)
        <4> SUFFICES ASSUME Precision + e <= k PROVE FALSE
          OBVIOUS
        <4>1. Pow2[Precision + e] <= Pow2[k] /\ Pow2[Precision + e] \in Nat
          BY <1>7, <3>1, Pow2Grows, Pow2Exceeds
        <4>2. halves < Pow2[Precision + e]
          BY <1>1 DEF halves, x
        <4>3. Pow2[k] >= 2
          BY <1>0, <1>6, <1>7
        <4> QED
          BY <1>3, <1>7, <4>1, <4>2, <4>3
      <3> QED
        BY <1>2, <3>3, <3>4
    <2> DEFINE g == Pow2[Precision]
    <2>2. Pow2[k + 1] = s * g
      <3>1. Pow2[e + Precision] = s * g
        BY <1>2, Pow2Sum
      <3>2. e + Precision = k + 1
        BY <1>2, <2>1
      <3> QED
        BY <3>1, <3>2
    <2>3. 2 <= s \div 2
      <3>1. 2 \in Nat /\ 1 \in Nat /\ Pow2[1 + 1] = 2 * Pow2[0 + 1] /\ Pow2[0 + 1] = 2 * Pow2[0]
            /\ Pow2[0] = 1 /\ 1 + 1 = 2 /\ 0 + 1 = 1
        BY Pow2Step
      <3>2. Pow2[2] = 4
        BY <3>1
      <3>3. Pow2[2] <= s
        BY <1>11, <3>1, Pow2Grows
      <3> HIDE DEF s
      <3> QED
        BY <1>4, <3>2, <3>3
    <2>4. g \in Nat
      BY <1>2
    <2> HIDE DEF s, g
    <2>5. (halves + s \div 2) \div s = g
      <3>1. 2 \in Nat /\ halves = (s * g) - 2
        BY <1>7, <2>2
      <3> QED
        BY <1>3, <1>4, <2>3, <2>4, <3>1, Rounded
    <2>6. AsFloat(x) = 2 * x + 2
      <3> DEFINE v == s * g
      <3>1. AsFloat(x) = v
        BY <1>4, <1>5, <2>4, <2>5
      <3>2. v = 2 * Pow2[k]
        BY <1>7, <2>2
      <3> HIDE DEF v
      <3> QED
        BY <1>0, <1>6, <1>7, <3>1, <3>2 DEF x
    <2>7. g < 2 * x + 1
      <3>1. Precision <= k
        BY <1>2, <1>11, <2>1
      <3>2. g <= Pow2[k]
        BY <1>2, <3>1, Pow2Grows DEF g
      <3> QED
        BY <1>0, <1>6, <1>7, <2>4, <3>2 DEF x
    <2> QED
      BY <2>6, <2>7 DEF x, g
  <1>12. e = 0 \/ e = 1 \/ e >= 2
    OBVIOUS
  <1> QED
    BY <1>9, <1>10, <1>11, <1>12

LEMMA HalfOf ==
  ASSUME NEW h \in Int
  PROVE  /\ Quot(h, 2) \in Int
         /\ h >= 0 => 2 * Quot(h, 2) <= h /\ h <= 2 * Quot(h, 2) + 1
         /\ h < 0 => h <= 2 * Quot(h, 2) /\ 2 * Quot(h, 2) <= h + 1
  <1> DEFINE q == Quot(h, 2)
  <1>1. 2 \in Int /\ 2 # 0 /\ ~(2 < 0)
    OBVIOUS
  <1>2. PICK k, z, e \in Nat : Divided(h, 2, k, z, e)
    BY <1>1, QuotIs
  <1>3. q \in Int
    BY <1>1, DividesIs
  <1>4. /\ 2 * q = (IF h < 0 THEN -e ELSE e)
        /\ h = (IF h < 0 THEN -e - z ELSE e + z)
        /\ z < 2
    BY <1>2 DEF Divided
  <1> HIDE DEF q
  <1>5. CASE h < 0
    BY <1>3, <1>4, <1>5 DEF q
  <1>6. CASE ~(h < 0)
    BY <1>3, <1>4, <1>6 DEF q
  <1> QED
    BY <1>5, <1>6

LEMMA SaturateFloatExact ==
  ASSUME NEW t \in Types, NEW h \in Int
  PROVE  LET ret == Number!SaturateFloat(t, h)
         IN ret \in Int /\ Holds(t, ret) /\ Clamped(t, Quot(h, 2), ret)
  <1> DEFINE ret == Number!SaturateFloat(t, h)
             lo == Lowest(t)
             hi == Highest(t)
             q == Quot(h, 2)
             a == AsFloat(lo)
             b == AsFloat(hi)
  <1>1. lo \in Int /\ hi \in Int /\ lo <= 0 /\ hi >= 1 /\ Holds(t, lo) /\ Holds(t, hi)
    BY BoundsHold
  <1>2. /\ q \in Int
        /\ h >= 0 => 2 * q <= h /\ h <= 2 * q + 1
        /\ h < 0 => h <= 2 * q /\ 2 * q <= h + 1
    BY HalfOf
  <1>3. a = 2 * lo /\ (b = 2 * hi \/ b = 2 * hi + 2)
    BY FloatLowest, FloatHighest
  <1>4. h # NaN
    BY UndefinedIsNone
  <1>5. ret = IF h <= a THEN lo ELSE IF h >= b THEN hi
              ELSE IF Holds(t, q) THEN q ELSE Undefined
    BY <1>4 DEF Number!SaturateFloat, Number!Truncate, Lowest, Highest, AsFloat, Holds, Quot
  <1>6. Holds(t, q) <=> lo <= q /\ q <= hi
    BY HoldsIs
  <1> HIDE DEF ret, lo, hi, q, a, b
  <1>7. a \in Int /\ b \in Int
    BY <1>1, <1>3
  <1>8. /\ ret \in Int /\ Holds(t, ret) /\ (Holds(t, q) => ret = q)
        /\ (q > hi => ret = hi) /\ (q < lo => ret = lo)
    <2>1. CASE h <= a
      <3>1. ret = lo /\ q <= lo
        BY <1>1, <1>2, <1>3, <1>5, <2>1
      <3> QED
        BY <1>1, <1>2, <1>6, <3>1
    <2>2. CASE ~(h <= a) /\ h >= b
      <3>1. ret = hi /\ q >= hi
        BY <1>1, <1>2, <1>3, <1>5, <2>2
      <3> QED
        BY <1>1, <1>2, <1>6, <3>1
    <2>3. CASE ~(h <= a) /\ ~(h >= b)
      <3>1. lo <= q /\ q <= hi
        BY <1>1, <1>2, <1>3, <1>7, <2>3
      <3>2. ret = q
        BY <1>5, <1>6, <2>3, <3>1
      <3> QED
        BY <1>1, <1>2, <1>6, <3>1, <3>2
    <2> QED
      BY <2>1, <2>2, <2>3
  <1> QED
    BY <1>8, ClampedIs DEF ret, q, lo, hi

(* What is known of a floating-point number: it is small or even.          *)
LEMMA CheckedFloatExact ==
  ASSUME NEW t \in Types, NEW h \in Int, h < Pow2[Precision] \/ \E g \in Int : h = 2 * g
  PROVE  LET ret == Number!CheckedFloat(t, h)
         IN IF 2 * Lowest(t) <= h /\ h <= 2 * Highest(t)
            THEN ret = Quot(h, 2) /\ ret \in Int /\ Holds(t, ret)
            ELSE ret \in {Error, Undefined}
  <1> DEFINE ret == Number!CheckedFloat(t, h)
             lo == Lowest(t)
             hi == Highest(t)
             q == Quot(h, 2)
             a == AsFloat(lo)
             b == AsFloat(hi)
  <1>1. lo \in Int /\ hi \in Int /\ lo <= 0 /\ hi >= 1
    BY BoundsHold
  <1>2. /\ q \in Int
        /\ h >= 0 => 2 * q <= h /\ h <= 2 * q + 1
        /\ h < 0 => h <= 2 * q /\ 2 * q <= h + 1
    BY HalfOf
  <1>3. a = 2 * lo /\ (b = 2 * hi \/ (b = 2 * hi + 2 /\ Pow2[Precision] < 2 * hi + 1))
    BY FloatLowest, FloatHighest
  <1>4. h # NaN
    BY UndefinedIsNone
  <1>5. ret = IF h >= a /\ h <= b THEN IF Holds(t, q) THEN q ELSE Undefined ELSE Error
    BY <1>4 DEF Number!CheckedFloat, Number!Truncate, Lowest, Highest, AsFloat, Holds, Quot
  <1>6. Holds(t, q) <=> lo <= q /\ q <= hi
    BY HoldsIs
  <1>7. Pow2[Precision] \in Nat
    <2>1. Precision \in Nat
      BY AlgorithmsAssumption DEF Number!Assumption
    <2> QED
      BY <2>1, Pow2Exceeds
  <1> HIDE DEF ret, lo, hi, q, a, b
  <1>8. CASE 2 * lo <= h /\ h <= 2 * hi
    <2>1. lo <= q /\ q <= hi /\ h >= a /\ h <= b
      BY <1>1, <1>2, <1>3, <1>8
    <2>2. ret = q /\ Holds(t, q)
      BY <1>5, <1>6, <2>1
    <2> QED
      BY <1>2, <1>8, <2>2 DEF ret, q, lo, hi
  <1>9. CASE ~(2 * lo <= h /\ h <= 2 * hi)
    <2>1. CASE h >= a /\ h <= b
      <3>1. b = 2 * hi + 2 /\ Pow2[Precision] < 2 * hi + 1 /\ h >= 2 * hi + 1
        BY <1>1, <1>3, <1>9, <2>1
      <3>2. PICK g \in Int : h = 2 * g
        BY <1>1, <1>7, <3>1
      <3>3. q > hi
        BY <1>1, <1>2, <3>1, <3>2
      <3>4. ret = Undefined
        BY <1>1, <1>2, <1>5, <1>6, <2>1, <3>3
      <3> QED
        BY <1>9, <3>4 DEF ret, lo, hi
    <2>2. CASE ~(h >= a /\ h <= b)
      <3>1. ret = Error
        BY <1>5, <2>2
      <3> QED
        BY <1>9, <3>1 DEF ret, lo, hi
    <2> QED
      BY <2>1, <2>2
  <1> QED
    BY <1>8, <1>9 DEF lo, hi

-----------------------------------------------------------------------------
(* What is right for an operator, one by one.                              *)

Exact(op, t, a, b, ret) == Number!Exact(op, t, a, b, ret)
ExactCast(op, t, x, ret) == Number!ExactCast(op, t, x, ret)

LEMMA ExactIs ==
  ASSUME NEW t \in Types, NEW a \in Int, NEW b \in Int, NEW ret \in Int, Holds(t, ret)
  PROVE  /\ Congruent(t, ret, a + b) => Exact("+", t, a, b, ret)
         /\ Congruent(t, ret, a - b) => Exact("-", t, a, b, ret)
         /\ Congruent(t, ret, a * b) => Exact("*", t, a, b, ret)
         /\ Clamped(t, -a, ret) => Exact("neg", t, a, b, ret)
         /\ Congruent(t, ret, -1 - a) => Exact("~", t, a, b, ret)
         /\ (IF b = 0 THEN ret = (IF a < 0 THEN Lowest(t) ELSE Highest(t))
             ELSE \E q \in {ret, Highest(t) + 1} :
                    Divides(a, b, q, a - q * b) /\ Clamped(t, q, ret))
              => Exact("/", t, a, b, ret)
         /\ (IF b = 0 THEN ret = a ELSE Divides(a, b, Quot(a - ret, b), ret))
              => Exact("%", t, a, b, ret)
         /\ Moved(t, a, b, ret) => Exact("<<", t, a, b, ret)
         /\ Moved(t, a, -b, ret) => Exact(">>", t, a, b, ret)
         /\ Congruent(t, ret + Number!Or(t, a, b), a + b) => Exact("&", t, a, b, ret)
         /\ Congruent(t, ret + Number!And(t, a, b), a + b) => Exact("|", t, a, b, ret)
         /\ Congruent(t, ret + 2 * Number!And(t, a, b), a + b) => Exact("^", t, a, b, ret)
  <1> USE DEF Exact, Number!Exact, Holds, Congruent, Clamped, Lowest, Highest, Divides,
              Quot, Moved
  <1>1. Congruent(t, ret, a + b) => Exact("+", t, a, b, ret)
    OBVIOUS
  <1>2. Congruent(t, ret, a - b) => Exact("-", t, a, b, ret)
    OBVIOUS
  <1>3. Congruent(t, ret, a * b) => Exact("*", t, a, b, ret)
    OBVIOUS
  <1>4. Clamped(t, -a, ret) => Exact("neg", t, a, b, ret)
    OBVIOUS
  <1>5. Congruent(t, ret, -1 - a) => Exact("~", t, a, b, ret)
    OBVIOUS
  <1>6. (IF b = 0 THEN ret = (IF a < 0 THEN Lowest(t) ELSE Highest(t))
         ELSE \E q \in {ret, Highest(t) + 1} :
                Divides(a, b, q, a - q * b) /\ Clamped(t, q, ret))
          => Exact("/", t, a, b, ret)
    OBVIOUS
  <1>7. (IF b = 0 THEN ret = a ELSE Divides(a, b, Quot(a - ret, b), ret))
          => Exact("%", t, a, b, ret)
    OBVIOUS
  <1>8. Moved(t, a, b, ret) => Exact("<<", t, a, b, ret)
    OBVIOUS
  <1>9. Moved(t, a, -b, ret) => Exact(">>", t, a, b, ret)
    OBVIOUS
  <1>10. Congruent(t, ret + Number!Or(t, a, b), a + b) => Exact("&", t, a, b, ret)
    OBVIOUS
  <1>11. Congruent(t, ret + Number!And(t, a, b), a + b) => Exact("|", t, a, b, ret)
    OBVIOUS
  <1>12. Congruent(t, ret + 2 * Number!And(t, a, b), a + b) => Exact("^", t, a, b, ret)
    OBVIOUS
  <1> QED
    BY <1>1, <1>2, <1>3, <1>4, <1>5, <1>6, <1>7, <1>8, <1>9, <1>10, <1>11, <1>12, Zenon

(* Every operator returns what is right, or has no defined value.          *)
LEMMA ComputeExact ==
  ASSUME NEW t \in Types, NEW a \in Int, NEW b \in Int, Holds(t, a), Holds(t, b),
         NEW op \in Number!Binary
  PROVE  LET ret == Number!Compute(t, op, a, b)
         IN \/ ret = Undefined
            \/ ret \in Int /\ Holds(t, ret) /\ Exact(op, t, a, b, ret)
  <1>1. CASE op = "+"
    <2> DEFINE ret == Number!Add(t, a, b)
    <2>1. ret \in Int /\ Holds(t, ret) /\ Congruent(t, ret, a + b)
      BY SumsExact
    <2>2. Number!Compute(t, op, a, b) = ret
      BY <1>1 DEF Number!Compute
    <2> HIDE DEF ret
    <2> QED
      BY <1>1, <2>1, <2>2, ExactIs
  <1>2. CASE op = "-"
    <2> DEFINE ret == Number!Sub(t, a, b)
    <2>1. ret \in Int /\ Holds(t, ret) /\ Congruent(t, ret, a - b)
      BY SumsExact
    <2>2. Number!Compute(t, op, a, b) = ret
      BY <1>2 DEF Number!Compute
    <2> HIDE DEF ret
    <2> QED
      BY <1>2, <2>1, <2>2, ExactIs
  <1>3. CASE op = "*"
    <2> DEFINE ret == Number!Mul(t, a, b)
    <2>1. \/ ret = Undefined
          \/ ret \in Int /\ Holds(t, ret) /\ Congruent(t, ret, a * b)
      BY ProductExact
    <2>2. Number!Compute(t, op, a, b) = ret
      BY <1>3 DEF Number!Compute
    <2> HIDE DEF ret
    <2>3. CASE ret = Undefined
      BY <2>2, <2>3
    <2>4. CASE ret \in Int /\ Holds(t, ret) /\ Congruent(t, ret, a * b)
      <3>1. Exact("*", t, a, b, ret)
        BY <2>4, ExactIs
      <3> QED
        BY <1>3, <2>2, <2>4, <3>1
    <2> QED
      BY <2>1, <2>3, <2>4
  <1>4. CASE op = "/"
    <2> DEFINE ret == Number!Div(t, a, b)
    <2>1. /\ ret \in Int /\ Holds(t, ret)
          /\ IF b = 0 THEN ret = (IF a < 0 THEN Lowest(t) ELSE Highest(t))
             ELSE \E q \in {ret, Highest(t) + 1} :
                    Divides(a, b, q, a - q * b) /\ Clamped(t, q, ret)
      BY DivExact
    <2>2. Number!Compute(t, op, a, b) = ret
      BY <1>4 DEF Number!Compute
    <2> HIDE DEF ret
    <2>3. Exact("/", t, a, b, ret)
      BY <2>1, ExactIs
    <2> QED
      BY <1>4, <2>1, <2>2, <2>3
  <1>5. CASE op = "%"
    <2> DEFINE ret == Number!Mod(t, a, b)
    <2>1. /\ ret \in Int /\ Holds(t, ret)
          /\ IF b = 0 THEN ret = a ELSE Divides(a, b, Quot(a - ret, b), ret)
      BY ModExact
    <2>2. Number!Compute(t, op, a, b) = ret
      BY <1>5 DEF Number!Compute
    <2> HIDE DEF ret
    <2>3. Exact("%", t, a, b, ret)
      BY <2>1, ExactIs
    <2> QED
      BY <1>5, <2>1, <2>2, <2>3
  <1>6. CASE op = "&"
    <2> DEFINE ret == Number!And(t, a, b)
    <2>1. ret \in Int /\ Holds(t, ret) /\ Congruent(t, ret + Number!Or(t, a, b), a + b)
      BY BitsExact
    <2>2. Number!Compute(t, op, a, b) = ret
      BY <1>6 DEF Number!Compute
    <2> HIDE DEF ret
    <2> QED
      BY <1>6, <2>1, <2>2, ExactIs
  <1>7. CASE op = "|"
    <2> DEFINE ret == Number!Or(t, a, b)
    <2>1. ret \in Int /\ Holds(t, ret) /\ Congruent(t, ret + Number!And(t, a, b), a + b)
      BY BitsExact
    <2>2. Number!Compute(t, op, a, b) = ret
      BY <1>7 DEF Number!Compute
    <2> HIDE DEF ret
    <2> QED
      BY <1>7, <2>1, <2>2, ExactIs
  <1>8. CASE op = "^"
    <2> DEFINE ret == Number!Xor(t, a, b)
    <2>1. ret \in Int /\ Holds(t, ret) /\ Congruent(t, ret + 2 * Number!And(t, a, b), a + b)
      BY BitsExact
    <2>2. Number!Compute(t, op, a, b) = ret
      BY <1>8 DEF Number!Compute
    <2> HIDE DEF ret
    <2> QED
      BY <1>8, <2>1, <2>2, ExactIs
  <1>9. CASE op = "<<"
    <2> DEFINE ret == Number!Shl(t, a, b)
    <2>1. ret \in Int /\ Holds(t, ret) /\ Moved(t, a, b, ret)
      BY ShiftsExact
    <2>2. Number!Compute(t, op, a, b) = ret
      BY <1>9 DEF Number!Compute
    <2> HIDE DEF ret
    <2> QED
      BY <1>9, <2>1, <2>2, ExactIs
  <1>10. CASE op = ">>"
    <2> DEFINE ret == Number!Shr(t, a, b)
    <2>1. ret \in Int /\ Holds(t, ret) /\ Moved(t, a, -b, ret)
      BY ShiftsExact
    <2>2. Number!Compute(t, op, a, b) = ret
      BY <1>10 DEF Number!Compute
    <2> HIDE DEF ret
    <2> QED
      BY <1>10, <2>1, <2>2, ExactIs
  <1> QED
    BY <1>1, <1>2, <1>3, <1>4, <1>5, <1>6, <1>7, <1>8, <1>9, <1>10 DEF Number!Binary

-----------------------------------------------------------------------------
(* The invariant: the object is a value of its type, and the call that is  *)
(* over returned what it should.                                           *)

ObjectInv ==
  /\ active = "number" => type \in Types /\ n \in Int /\ Holds(type, n)
  /\ active # "number" => call = Number!NoCall

NumberInv == ObjectInv /\ ArithmeticExact /\ CastsExact

(* A call: where it was made, and that the object became what it returned. *)
Called(op, t, b, ret) ==
  /\ call' = [op |-> op, t |-> t, from |-> type, a |-> n, b |-> b, ret |-> ret]
  /\ type' = t \/ (ret = Error /\ type' = type)
  /\ n' \in IF ret = Undefined THEN Lowest(type') .. Highest(type')
            ELSE IF ret = Error THEN {n} ELSE {ret}

LEMMA CalledKeeps ==
  ASSUME NEW t \in Types, NEW op, NEW b, NEW ret, type \in Types, n \in Int, Holds(type, n),
         \/ ret = Undefined
         \/ ret = Error /\ type' = type
         \/ ret \in Int /\ Holds(t, ret) /\ type' = t,
         type' \in {t, type},
         Called(op, t, b, ret)
  PROVE  type' \in Types /\ n' \in Int /\ Holds(type', n')
  <1>1. type' \in Types
    OBVIOUS
  <1>2. CASE ret = Undefined
    <2>1. n' \in Lowest(type') .. Highest(type')
      BY <1>2 DEF Called
    <2>2. Lowest(type') \in Int /\ Highest(type') \in Int
      BY <1>1, BoundsHold
    <2> QED
      BY <1>1, <2>1, <2>2, HoldsIs
  <1>3. CASE ret # Undefined /\ ret = Error /\ type' = type
    <2>1. n' = n
      BY <1>3 DEF Called
    <2> QED
      BY <1>3, <2>1
  <1>4. CASE ret \in Int /\ Holds(t, ret) /\ type' = t
    <2>1. ret # Undefined /\ ret # Error
      BY <1>4, UndefinedIsNone
    <2>2. n' = ret
      BY <2>1 DEF Called
    <2> QED
      BY <1>4, <2>2
  <1> QED
    BY <1>2, <1>3, <1>4

LEMMA CallArithmetic ==
  ASSUME NEW op \in Number!Binary \cup {"neg", "~"}, NEW t, NEW b, NEW ret,
         Called(op, t, b, ret), ret = Undefined \/ Exact(op, t, n, b, ret)
  PROVE  ArithmeticExact' /\ CastsExact'
  <1>1. /\ call'.op = op /\ call'.t = t /\ call'.a = n /\ call'.b = b /\ call'.ret = ret
    BY DEF Called
  <1>2. ArithmeticExact'
    BY <1>1, Zenon DEF ArithmeticExact, Number!ArithmeticExact, Exact
  <1>3. CastsExact'
    BY <1>1 DEF CastsExact, Number!CastsExact
  <1> QED
    BY <1>2, <1>3

Casts == {"saturate", "truncate", "checked", "literal", "saturate float", "checked float",
          "bytes", "power"}

LEMMA CallCast ==
  ASSUME NEW op \in Casts, NEW t, NEW b, NEW ret,
         Called(op, t, b, ret), ExactCast(op, t, b, ret)
  PROVE  ArithmeticExact' /\ CastsExact'
  <1>1. /\ call'.op = op /\ call'.t = t /\ call'.a = n /\ call'.b = b /\ call'.ret = ret
    BY DEF Called
  <1>2. op \notin Number!Binary \cup {"none", "neg", "~"}
    BY DEF Casts, Number!Binary
  <1>3. ArithmeticExact'
    BY <1>1, <1>2 DEF ArithmeticExact, Number!ArithmeticExact
  <1>4. CastsExact'
    BY <1>1, Zenon DEF CastsExact, Number!CastsExact, ExactCast
  <1> QED
    BY <1>3, <1>4

Returns(op, t, b, ret) == Number!Becomes(t, ret) /\ Number!Record(op, t, b, ret)

LEMMA ReturnsCalled ==
  ASSUME NEW op, NEW t, NEW b, NEW ret, Returns(op, t, b, ret)
  PROVE  Called(op, t, b, ret) /\ type' = t
  <1>1. type' = t
    BY DEF Returns, Number!Becomes
  <1>2. n' \in IF ret = Undefined THEN Lowest(t) .. Highest(t)
               ELSE IF ret = Error THEN {n} ELSE {ret}
    BY Zenon DEF Returns, Number!Becomes, Lowest, Highest
  <1>3. call' = [op |-> op, t |-> t, from |-> type, a |-> n, b |-> b, ret |-> ret]
    BY DEF Returns, Number!Record
  <1> QED
    BY <1>1, <1>2, <1>3, Zenon DEF Called

ObjectOk == type \in Types /\ n \in Int /\ Holds(type, n)

(* An operation of the object's own type.                                  *)
LEMMA OperationKeeps ==
  ASSUME ObjectOk, NEW op \in Number!Binary \cup {"neg", "~"}, NEW b, NEW ret,
         Returns(op, type, b, ret),
         ret = Undefined \/ (ret \in Int /\ Holds(type, ret) /\ Exact(op, type, n, b, ret))
  PROVE  ObjectOk' /\ ArithmeticExact' /\ CastsExact'
  <1>1. Called(op, type, b, ret) /\ type' = type
    BY ReturnsCalled
  <1>2. type' \in Types /\ n' \in Int /\ Holds(type', n')
    <2>1. type' \in {type, type}
      BY <1>1
    <2> QED
      BY <1>1, <2>1, CalledKeeps DEF ObjectOk
  <1>3. ArithmeticExact' /\ CastsExact'
    BY <1>1, CallArithmetic
  <1> QED
    BY <1>2, <1>3 DEF ObjectOk, Holds, Number!Holds, Number!Lowest, Number!Highest

(* A cast to a type t, or one that fails and leaves the object alone.      *)
LEMMA CastKeeps ==
  ASSUME ObjectOk, NEW op \in Casts, NEW t \in Types, NEW b, NEW ret,
         Called(op, t, b, ret), type' \in {t, type},
         \/ ret = Undefined
         \/ ret = Error /\ type' = type
         \/ ret \in Int /\ Holds(t, ret) /\ type' = t,
         ExactCast(op, t, b, ret)
  PROVE  ObjectOk' /\ ArithmeticExact' /\ CastsExact'
  <1>1. type' \in Types /\ n' \in Int /\ Holds(type', n')
    BY CalledKeeps DEF ObjectOk
  <1>2. ArithmeticExact' /\ CastsExact'
    BY CallCast
  <1> QED
    BY <1>1, <1>2 DEF ObjectOk, Holds, Number!Holds, Number!Lowest, Number!Highest

LEMMA ApplyKeeps ==
  ASSUME ObjectOk, NEW b \in Number!Operands(type), NEW op \in Number!Binary,
         Number!Apply(op, b)
  PROVE  ObjectOk' /\ ArithmeticExact' /\ CastsExact'
  <1>1. b \in Int /\ Holds(type, b)
    <2>1. PICK x \in Samples : b = As(type, x)
      BY DEF Number!Operands, As
    <2>2. x \in Int
      BY AlgorithmsAssumption DEF Number!Assumption
    <2> QED
      BY <2>1, <2>2, AsIs DEF ObjectOk
  <1> DEFINE ret == Number!Compute(type, op, n, b)
  <1>2. ret = Undefined \/ (ret \in Int /\ Holds(type, ret) /\ Exact(op, type, n, b, ret))
    BY <1>1, ComputeExact DEF ObjectOk
  <1>3. Returns(op, type, b, ret)
    BY DEF Number!Apply, Returns
  <1> HIDE DEF ret
  <1> QED
    BY <1>2, <1>3, OperationKeeps

LEMMA UnaryKeeps ==
  ASSUME ObjectOk,
         \/ Number!Increment \/ Number!Decrement \/ Number!Negate \/ Number!Complement
  PROVE  ObjectOk' /\ ArithmeticExact' /\ CastsExact'
  <1>0. type \in Types /\ n \in Int /\ Holds(type, n) /\ 1 \in Int
    BY DEF ObjectOk
  <1>1. CASE Number!Increment
    <2> DEFINE u == U(type, n)
               ret == As(type, u + 1)
    <2>1. u \in Int /\ Same(Range2(type), u, n) /\ Range2(type) \in Nat
      BY <1>0, UIs, TypeBounds
    <2>2. Same(Range2(type), 1, 1)
      BY <2>1, SameRefl
    <2> HIDE DEF u
    <2>3. Same(Range2(type), u + 1, n + 1) /\ u + 1 \in Int /\ n + 1 \in Int
      BY <1>0, <2>1, <2>2, SameAdd
    <2>4. ret \in Int /\ Holds(type, ret) /\ Congruent(type, ret, n + 1)
      BY <1>0, <2>3, AsCongruent
    <2>5. Returns("+", type, 1, ret)
      BY <1>1 DEF Number!Increment, Returns, As, U, u
    <2> HIDE DEF ret
    <2>6. Exact("+", type, n, 1, ret)
      BY <1>0, <2>4, ExactIs
    <2>7. "+" \in Number!Binary \cup {"neg", "~"}
      BY DEF Number!Binary
    <2> QED
      BY <2>4, <2>5, <2>6, <2>7, OperationKeeps
  <1>2. CASE Number!Decrement
    <2> DEFINE u == U(type, n)
               ret == As(type, u - 1)
    <2>1. u \in Int /\ Same(Range2(type), u, n) /\ Range2(type) \in Nat
      BY <1>0, UIs, TypeBounds
    <2>2. Same(Range2(type), 1, 1)
      BY <2>1, SameRefl
    <2> HIDE DEF u
    <2>3. Same(Range2(type), u - 1, n - 1) /\ u - 1 \in Int /\ n - 1 \in Int
      BY <1>0, <2>1, <2>2, SameAdd
    <2>4. ret \in Int /\ Holds(type, ret) /\ Congruent(type, ret, n - 1)
      BY <1>0, <2>3, AsCongruent
    <2>5. Returns("-", type, 1, ret)
      BY <1>2 DEF Number!Decrement, Returns, As, U, u
    <2> HIDE DEF ret
    <2>6. Exact("-", type, n, 1, ret)
      BY <1>0, <2>4, ExactIs
    <2>7. "-" \in Number!Binary \cup {"neg", "~"}
      BY DEF Number!Binary
    <2> QED
      BY <2>4, <2>5, <2>6, <2>7, OperationKeeps
  <1>3. CASE Number!Negate
    <2> DEFINE ret == Number!Neg(type, n)
    <2>1. type.s /\ Returns("neg", type, n, ret)
      BY <1>3 DEF Number!Negate, Returns
    <2>2. ret \in Int /\ Holds(type, ret) /\ Clamped(type, -n, ret)
      BY <1>0, <2>1, NegExact
    <2> HIDE DEF ret
    <2>3. Exact("neg", type, n, n, ret)
      BY <1>0, <2>2, ExactIs
    <2> QED
      BY <2>1, <2>2, <2>3, OperationKeeps
  <1>4. CASE Number!Complement
    <2> DEFINE ret == Number!Not(type, n)
    <2>1. Returns("~", type, n, ret)
      BY <1>4 DEF Number!Complement, Returns
    <2>2. ret \in Int /\ Holds(type, ret) /\ Congruent(type, ret, -1 - n)
      BY <1>0, NotExact
    <2> HIDE DEF ret
    <2>3. Exact("~", type, n, n, ret)
      BY <1>0, <2>2, ExactIs
    <2> QED
      BY <2>1, <2>2, <2>3, OperationKeeps
  <1> QED
    BY <1>1, <1>2, <1>3, <1>4

LEMMA ConversionKeeps ==
  ASSUME ObjectOk, NEW t \in Types,
         Number!Convert(t) \/ Number!ConvertTruncating(t) \/ Number!ConvertChecked(t)
  PROVE  ObjectOk' /\ ArithmeticExact' /\ CastsExact'
  <1>0. type \in Types /\ n \in Int /\ Holds(type, n)
    BY DEF ObjectOk
  <1>1. CASE Number!Convert(t)
    <2> DEFINE ret == Number!Construct(type, t, n)
    <2>1. Returns("saturate", t, n, ret)
      BY <1>1 DEF Number!Convert, Returns
    <2>2. ret \in Int /\ Holds(t, ret) /\ Clamped(t, n, ret)
      BY <1>0, ConstructExact
    <2> HIDE DEF ret
    <2>3. Called("saturate", t, n, ret) /\ type' = t
      BY <2>1, ReturnsCalled
    <2>4. ExactCast("saturate", t, n, ret)
      BY <2>2 DEF ExactCast, Number!ExactCast, Clamped
    <2>5. "saturate" \in Casts /\ type' \in {t, type}
      BY <2>3 DEF Casts
    <2> QED
      BY <2>2, <2>3, <2>4, <2>5, CastKeeps
  <1>2. CASE Number!ConvertTruncating(t)
    <2> DEFINE ret == As(t, n)
    <2>1. Returns("truncate", t, n, ret)
      BY <1>2 DEF Number!ConvertTruncating, Returns, As
    <2>2. ret \in Int /\ Holds(t, ret) /\ Same(Range2(t), ret, n)
      BY <1>0, AsIs
    <2> HIDE DEF ret
    <2>3. Called("truncate", t, n, ret) /\ type' = t
      BY <2>1, ReturnsCalled
    <2>4. Congruent(t, ret, n)
      BY <1>0, <2>2, CongruentIs
    <2>5. ExactCast("truncate", t, n, ret)
      BY <2>2, <2>4 DEF ExactCast, Number!ExactCast, Holds, Congruent
    <2>6. "truncate" \in Casts /\ type' \in {t, type}
      BY <2>3 DEF Casts
    <2> QED
      BY <2>2, <2>3, <2>5, <2>6, CastKeeps
  <1>3. CASE Number!ConvertChecked(t)
    <2> DEFINE ret == Number!Checked(t, n)
               target == IF ret = Error THEN type ELSE t
    <2>1. Number!Becomes(target, ret) /\ Number!Record("checked", t, n, ret)
      BY <1>3 DEF Number!ConvertChecked
    <2>2. ret = (IF Holds(t, n) THEN n ELSE Error)
      BY <1>0, CheckedExact
    <2> HIDE DEF ret
    <2>3. type' = target
      BY <2>1 DEF Number!Becomes
    <2>4. n' \in IF ret = Undefined THEN Lowest(type') .. Highest(type')
                 ELSE IF ret = Error THEN {n} ELSE {ret}
      <3>1. n' \in IF ret = Undefined THEN Lowest(target) .. Highest(target)
                   ELSE IF ret = Error THEN {n} ELSE {ret}
        BY <2>1, Zenon DEF Number!Becomes, Lowest, Highest
      <3> HIDE DEF target
      <3> QED
        BY <2>3, <3>1, Zenon
    <2>5. Called("checked", t, n, ret)
      <3>1. type' = t \/ (ret = Error /\ type' = type)
        BY <2>3
      <3>2. call' = [op |-> "checked", t |-> t, from |-> type, a |-> n, b |-> n, ret |-> ret]
        BY <2>1 DEF Number!Record
      <3> QED
        BY <2>4, <3>1, <3>2, Zenon DEF Called
    <2>6. ExactCast("checked", t, n, ret)
      BY <2>2 DEF ExactCast, Number!ExactCast, Holds
    <2>7. "checked" \in Casts /\ type' \in {t, type}
      BY <2>3 DEF Casts
    <2>8. \/ ret = Error /\ type' = type
          \/ ret \in Int /\ Holds(t, ret) /\ type' = t
      <3>1. CASE ret = Error
        BY <2>3, <3>1
      <3>2. CASE ret # Error
        BY <1>0, <2>2, <2>3, <3>2
      <3> QED
        BY <3>1, <3>2
    <2> QED
      BY <2>5, <2>6, <2>7, <2>8, CastKeeps
  <1> QED
    BY <1>1, <1>2, <1>3

LEMMA LiteralKeeps ==
  ASSUME ObjectOk, NEW x \in Samples \cap Nat, Number!FromLiteral(x)
  PROVE  ObjectOk' /\ ArithmeticExact' /\ CastsExact'
  <1> DEFINE ret == Number!Literal(type, x)
  <1>0. type \in Types /\ x \in Int /\ x >= 0
    BY DEF ObjectOk
  <1>1. Returns("literal", type, x, ret)
    BY DEF Number!FromLiteral, Returns
  <1>2. ret = (IF Holds(type, x) THEN x ELSE Error)
    BY <1>0, CheckedExact
  <1> HIDE DEF ret
  <1>3. Called("literal", type, x, ret) /\ type' = type
    BY <1>1, ReturnsCalled
  <1>4. ExactCast("literal", type, x, ret)
    BY <1>2 DEF ExactCast, Number!ExactCast, Holds
  <1>5. "literal" \in Casts /\ type' \in {type, type}
    BY <1>3 DEF Casts
  <1>6. \/ ret = Error /\ type' = type
        \/ ret \in Int /\ Holds(type, ret) /\ type' = type
    BY <1>0, <1>2, <1>3
  <1> QED
    BY <1>0, <1>3, <1>4, <1>5, <1>6, CastKeeps

LEMMA TricksKeep ==
  ASSUME ObjectOk, Number!RoundUp \/ \E w \in Widths : Number!Recombine(w)
  PROVE  ObjectOk' /\ ArithmeticExact' /\ CastsExact'
  <1>0. type \in Types /\ n \in Int /\ Holds(type, n)
    BY DEF ObjectOk
  <1>1. CASE Number!RoundUp
    <2> DEFINE ret == Number!NextPower(type, n)
    <2>1. Returns("power", type, n, ret) /\ type.s
      BY <1>1 DEF Number!RoundUp, Returns, Number!Signed
    <2>2. ret \in Int /\ Holds(type, ret)
      BY <1>0, PowerInt
    <2>3. n \in 1 .. Pow2[type.w - 2] =>
            n <= ret /\ ret < 2 * n /\ \E k \in 0 .. type.w : ret = Pow2[k]
      BY <1>0, <2>1, PowerExact
    <2> HIDE DEF ret
    <2>4. Called("power", type, n, ret) /\ type' = type
      BY <2>1, ReturnsCalled
    <2>5. ExactCast("power", type, n, ret)
      BY <2>3, Zenon DEF ExactCast, Number!ExactCast, Pow2
    <2>6. "power" \in Casts /\ type' \in {type, type}
      BY <2>4 DEF Casts
    <2> QED
      BY <1>0, <2>2, <2>4, <2>5, <2>6, CastKeeps
  <1>2. ASSUME NEW w \in Widths, Number!Recombine(w)
        PROVE  ObjectOk' /\ ArithmeticExact' /\ CastsExact'
    <2> DEFINE ret == Number!FromBytes(w, Number!HighByte(w, n), Number!LowByte(w, n))
    <2>1. type = Signed(2 * w) /\ Returns("bytes", type, n, ret)
      BY <1>2 DEF Number!Recombine, Returns, Signed
    <2>2. 2 * w \in Widths
      <3>1. type.w = 2 * w
        BY <2>1 DEF Signed, Number!Signed
      <3> QED
        BY <1>0, <3>1, TypeBounds
    <2>3. ret = n
      BY <1>0, <2>1, <2>2, BytesExact
    <2> HIDE DEF ret
    <2>4. Called("bytes", type, n, ret) /\ type' = type
      BY <2>1, ReturnsCalled
    <2>5. ExactCast("bytes", type, n, ret)
      BY <2>3 DEF ExactCast, Number!ExactCast
    <2>6. "bytes" \in Casts /\ type' \in {type, type}
      BY <2>4 DEF Casts
    <2> QED
      BY <1>0, <2>3, <2>4, <2>5, <2>6, CastKeeps
  <1> QED
    BY <1>1, <1>2

LEMMA FloatsAre ==
  ASSUME NEW h \in Number!Floats \cup {-Number!Infinity, Number!Infinity, NaN}
  PROVE  h = NaN \/ (h \in Int /\ (h < Pow2[Precision] \/ \E g \in Int : h = 2 * g))
  <1> DEFINE widest == Number!Widest
  <1>1. /\ widest \in Nat /\ Precision \in Nat /\ Pow2[Precision] \in Nat
        /\ Pow2[Precision] > 0
    <2>1. /\ Widths \subseteq Nat \ {0, 1} /\ \E w \in Widths : \A v \in Widths : v <= w
          /\ Precision \in Nat
      BY AlgorithmsAssumption, Zenon DEF Number!Assumption
    <2>2. widest \in Widths
      BY <2>1 DEF Number!Widest
    <2> QED
      BY <2>1, <2>2, Pow2Exceeds
  <1>2. ASSUME NEW m \in 0 .. Pow2[Precision] - 1, NEW e \in Nat
        PROVE  /\ m * Pow2[e] \in Nat
               /\ m * Pow2[e] < Pow2[Precision] \/ \E g \in Nat : m * Pow2[e] = 2 * g
    <2>1. m \in Nat /\ m < Pow2[Precision] /\ Pow2[e] \in Nat
      BY <1>1, Pow2Exceeds
    <2>2. CASE e = 0
      BY <1>1, <2>1, <2>2, Pow2Step
    <2>3. CASE e # 0
      <3>1. e - 1 \in Nat /\ (e - 1) + 1 = e
        BY <2>3
      <3>2. Pow2[e] = 2 * Pow2[e - 1] /\ Pow2[e - 1] \in Nat
        BY <3>1, Pow2Step, Pow2Exceeds
      <3>3. m * Pow2[e - 1] \in Nat /\ m * Pow2[e] = 2 * (m * Pow2[e - 1])
        BY <2>1, <3>2
      <3> QED
        BY <2>1, <3>3
    <2> QED
      BY <2>2, <2>3
  <1> DEFINE M == {m * Pow2[e] : m \in 0 .. Pow2[Precision] - 1,
                                 e \in 0 .. widest + 2 - Precision}
  <1>3. ASSUME NEW v \in M
        PROVE  v \in Nat /\ (v < Pow2[Precision] \/ \E g \in Nat : v = 2 * g)
    <2>1. PICK m \in 0 .. Pow2[Precision] - 1, e \in 0 .. widest + 2 - Precision :
            v = m * Pow2[e]
      OBVIOUS
    <2>2. e \in Nat
      BY <1>1
    <2> QED
      BY <1>2, <2>1, <2>2
  <1>4. Number!Floats = M \cup {-m : m \in M}
    BY DEF Number!Floats, Pow2
  <1>5. Number!Infinity \in Nat /\ \E g \in Nat : Number!Infinity = 2 * g
    <2>1. widest + 2 \in Nat /\ (widest + 2) + 1 = widest + 3
      BY <1>1
    <2>2. Pow2[widest + 3] = 2 * Pow2[widest + 2] /\ Pow2[widest + 2] \in Nat
      BY <2>1, Pow2Step, Pow2Exceeds
    <2> QED
      BY <2>2 DEF Number!Infinity, Pow2
  <1> HIDE DEF M
  <1>6. CASE h \in M
    BY <1>3, <1>6
  <1>7. CASE h \in {-m : m \in M}
    <2>1. PICK m \in M : h = -m
      BY <1>7
    <2>2. m \in Nat
      BY <1>3
    <2> QED
      BY <1>1, <2>1, <2>2
  <1>8. CASE h = Number!Infinity
    BY <1>5, <1>8
  <1>9. CASE h = -Number!Infinity
    BY <1>1, <1>5, <1>9
  <1> QED
    BY <1>4, <1>6, <1>7, <1>8, <1>9

LEMMA FloatKeeps ==
  ASSUME ObjectOk, NEW h \in Number!Floats \cup {-Number!Infinity, Number!Infinity, NaN},
         Number!FromFloat(h) \/ Number!FromFloatChecked(h)
  PROVE  ObjectOk' /\ ArithmeticExact' /\ CastsExact'
  <1>0. type \in Types
    BY DEF ObjectOk
  <1>1. CASE Number!FromFloat(h)
    <2> DEFINE ret == Number!SaturateFloat(type, h)
    <2>1. Returns("saturate float", type, h, ret)
      BY <1>1 DEF Number!FromFloat, Returns
    <2>2. /\ ret \in Int /\ Holds(type, ret)
          /\ IF h = NaN THEN ret = Number!Sentinel(type)
             ELSE ret # Undefined /\ Clamped(type, Quot(h, 2), ret)
      <3>1. CASE h = NaN
        <4>1. ret = Number!Sentinel(type)
          BY <3>1 DEF Number!SaturateFloat
        <4>2. ret = Lowest(type) \/ ret = Highest(type)
          BY <4>1 DEF Number!Sentinel, Lowest, Highest
        <4> QED
          BY <1>0, <3>1, <4>1, <4>2, BoundsHold
      <3>2. CASE h # NaN
        <4>1. h \in Int
          BY <3>2, FloatsAre
        <4>2. ret \in Int /\ Holds(type, ret) /\ Clamped(type, Quot(h, 2), ret)
          BY <1>0, <4>1, SaturateFloatExact
        <4> QED
          BY <3>2, <4>2, UndefinedIsNone
      <3> QED
        BY <3>1, <3>2
    <2> HIDE DEF ret
    <2>3. Called("saturate float", type, h, ret) /\ type' = type
      BY <2>1, ReturnsCalled
    <2>4. ExactCast("saturate float", type, h, ret)
      BY <2>2 DEF ExactCast, Number!ExactCast, Clamped, Quot
    <2>5. "saturate float" \in Casts /\ type' \in {type, type}
      BY <2>3 DEF Casts
    <2> QED
      BY <1>0, <2>2, <2>3, <2>4, <2>5, CastKeeps
  <1>2. CASE Number!FromFloatChecked(h)
    <2> DEFINE ret == Number!CheckedFloat(type, h)
               fits == h # NaN /\ 2 * Lowest(type) <= h /\ h <= 2 * Highest(type)
    <2>1. Returns("checked float", type, h, ret)
      BY <1>2 DEF Number!FromFloatChecked, Returns
    <2>2. \/ fits /\ ret = Quot(h, 2) /\ ret \in Int /\ Holds(type, ret)
          \/ ~fits /\ ret \in {Error, Undefined}
      <3>1. CASE h = NaN
        <4>1. ret = Error
          BY <3>1 DEF Number!CheckedFloat
        <4> QED
          BY <3>1, <4>1
      <3>2. CASE h # NaN
        <4>1. h \in Int /\ (h < Pow2[Precision] \/ \E g \in Int : h = 2 * g)
          BY <3>2, FloatsAre
        <4>2. IF 2 * Lowest(type) <= h /\ h <= 2 * Highest(type)
              THEN ret = Quot(h, 2) /\ ret \in Int /\ Holds(type, ret)
              ELSE ret \in {Error, Undefined}
          BY <1>0, <4>1, CheckedFloatExact
        <4> HIDE DEF ret
        <4> QED
          BY <3>2, <4>2, Zenon
      <3> QED
        BY <3>1, <3>2
    <2> HIDE DEF ret
    <2>3. Called("checked float", type, h, ret) /\ type' = type
      BY <2>1, ReturnsCalled
    <2>4. IF fits THEN ret = Quot(h, 2) ELSE ret \in {Error, Undefined}
      <3> HIDE DEF fits
      <3> QED
        BY <2>2, Zenon
    <2>5. ExactCast("checked float", type, h, ret)
      BY <2>4 DEF ExactCast, Number!ExactCast, Lowest, Highest, Quot
    <2>6. "checked float" \in Casts /\ type' \in {type, type}
      BY <2>3 DEF Casts
    <2>7. \/ ret = Undefined
          \/ ret = Error /\ type' = type
          \/ ret \in Int /\ Holds(type, ret) /\ type' = type
      BY <2>2, <2>3
    <2> QED
      BY <1>0, <2>3, <2>5, <2>6, <2>7, CastKeeps
  <1> QED
    BY <1>1, <1>2

-----------------------------------------------------------------------------
(* The theorems.                                                           *)

LEMMA IdleIsExact ==
  ASSUME call = Number!NoCall
  PROVE  ArithmeticExact /\ CastsExact
  <1>1. call.op = "none"
    BY DEF Number!NoCall
  <1> QED
    BY <1>1 DEF ArithmeticExact, Number!ArithmeticExact, CastsExact, Number!CastsExact,
                Number!Binary

LEMMA NumberInit == AllInit => NumberInv
  <1> SUFFICES ASSUME AllInit PROVE NumberInv
    OBVIOUS
  <1>1. call = Number!NoCall
    BY DEF AllInit, Number!Init
  <1>2. ArithmeticExact /\ CastsExact
    BY <1>1, IdleIsExact
  <1>3. active = "number" => type \in Types /\ n \in Int /\ Holds(type, n)
    <2> SUFFICES ASSUME active = "number" PROVE type \in Types /\ n \in Int /\ Holds(type, n)
      OBVIOUS
    <2>1. type \in Types /\ n \in Number!Operands(type)
      BY DEF AllInit, Number!Init, Types
    <2>2. PICK x \in Samples : n = As(type, x)
      BY <2>1 DEF Number!Operands, As
    <2>3. x \in Int
      BY AlgorithmsAssumption DEF Number!Assumption
    <2> QED
      BY <2>1, <2>2, <2>3, AsIs
  <1> QED
    BY <1>1, <1>2, <1>3 DEF NumberInv, ObjectInv

LEMMA CallKeeps ==
  ASSUME ObjectOk, Number!Call
  PROVE  ObjectOk' /\ ArithmeticExact' /\ CastsExact'
  <1>1. CASE \E b \in Number!Operands(type), op \in Number!Binary : Number!Apply(op, b)
    BY <1>1, ApplyKeeps
  <1>2. CASE Number!Increment \/ Number!Decrement \/ Number!Negate \/ Number!Complement
    BY <1>2, UnaryKeeps
  <1>3. CASE Number!RoundUp \/ \E w \in Widths : Number!Recombine(w)
    BY <1>3, TricksKeep
  <1>4. CASE \E t \in Types :
               Number!Convert(t) \/ Number!ConvertTruncating(t) \/ Number!ConvertChecked(t)
    BY <1>4, ConversionKeeps
  <1>5. CASE \E x \in Samples \cap Nat : Number!FromLiteral(x)
    BY <1>5, LiteralKeeps
  <1>6. CASE \E h \in Number!Floats \cup {-Number!Infinity, Number!Infinity, NaN} :
               Number!FromFloat(h) \/ Number!FromFloatChecked(h)
    BY <1>6, FloatKeeps
  <1> QED
    BY <1>1, <1>2, <1>3, <1>4, <1>5, <1>6, Zenon DEF Number!Call, Types

LEMMA NumberStep == NumberInv /\ [AllNext]_allVars => NumberInv'
  <1> SUFFICES ASSUME NumberInv, [AllNext]_allVars PROVE NumberInv'
    OBVIOUS
  <1>1. CASE UNCHANGED <<active, numberVars>>
    BY <1>1 DEF NumberInv, ObjectInv, ArithmeticExact, Number!ArithmeticExact, CastsExact,
                Number!CastsExact, numberVars, Holds, Number!Holds, Number!Lowest,
                Number!Highest
  <1>2. CASE active' = active /\ active = "number" /\ Number!Next
    <2>1. ObjectOk
      BY <1>2 DEF NumberInv, ObjectInv, ObjectOk
    <2>2. CASE Number!Call
      <3>1. ObjectOk' /\ ArithmeticExact' /\ CastsExact'
        BY <2>1, <2>2, CallKeeps
      <3> QED
        BY <1>2, <3>1 DEF NumberInv, ObjectInv, ObjectOk, Holds, Number!Holds,
                          Number!Lowest, Number!Highest
    <2>3. CASE Number!Return
      <3>1. call' = Number!NoCall /\ type' = type /\ n' = n
        BY <2>3 DEF Number!Return
      <3>2. ArithmeticExact' /\ CastsExact'
        BY <3>1 DEF ArithmeticExact, Number!ArithmeticExact, CastsExact,
                    Number!CastsExact, Number!Binary, Number!NoCall
      <3> QED
        BY <1>2, <2>1, <3>1, <3>2
           DEF NumberInv, ObjectInv, ObjectOk, Holds, Number!Holds, Number!Lowest,
               Number!Highest
    <2> QED
      BY <1>2, <2>2, <2>3 DEF Number!Next
  <1> QED
    BY <1>1, <1>2 DEF AllNext, allVars

(* Every operator of the safe integers, at every width and for every       *)
(* operand, wraps, saturates, divides or shifts as its documentation says. *)
THEOREM IntegersAreExact == AllSpec => []ArithmeticExact
  <1>1. NumberInv => ArithmeticExact
    BY DEF NumberInv
  <1> QED
    BY NumberInit, NumberStep, <1>1, PTL DEF AllSpec

(* Every cast between integers and from floating point saturates, fails or *)
(* keeps the value; bytes lose nothing; rounding up finds the power.       *)
THEOREM CastsAreExact == AllSpec => []CastsExact
  <1>1. NumberInv => CastsExact
    BY DEF NumberInv
  <1> QED
    BY NumberInit, NumberStep, <1>1, PTL DEF AllSpec

(* The object holds a value of its type.                                   *)
THEOREM IntegerTypes == AllSpec => []ObjectInv
  <1>1. NumberInv => ObjectInv
    BY DEF NumberInv
  <1> QED
    BY NumberInit, NumberStep, <1>1, PTL DEF AllSpec

=============================================================================
