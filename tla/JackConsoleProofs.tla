--------------------------- MODULE JackConsoleProofs ---------------------------
(***************************************************************************)
(* What the loops of Math compute, for words of every width: multiply is    *)
(* the product, divide the integer part wherever its doubled divisor still *)
(* exceeds the dividend, sqrt the integer root.  Then what the keyboard, the line   *)
(* editor and the cursor promise, for every user, screen and buffer, and    *)
(* the numbers that are read and written, for words of every width.        *)
(*                                                                         *)
(* A loop is a function of its rounds.  That it is defined follows from a   *)
(* function that satisfies its equation (Loop); what holds at its end, from *)
(* the set of rounds at which it holds (AllRounds).                        *)
(***************************************************************************)
EXTENDS JackConsole, SequenceTheorems, WellFoundedInduction, NaturalsInduction, TLAPS

(* A set of numbers that has a member has a least one.                     *)
LEMMA LeastNumber ==
  ASSUME NEW S \in SUBSET Nat, S # {}
  PROVE  \E m \in S : \A k \in S : m <= k
<1> DEFINE Below == OpToRel(<, Nat)
<1>1. IsWellFoundedOn(Below, Nat)
  BY NatLessThanWellFounded
<1>2. ASSUME NEW k \in Nat, NEW m \in Nat, k < m PROVE <<k, m>> \in Below
  <2> DEFINE pair == <<k, m>>
  <2>1. pair \in Nat \X Nat /\ pair[1] < pair[2]
    BY <1>2
  <2> QED
    BY <2>1 DEF OpToRel
<1> HIDE DEF Below
<1>3. PICK m \in S : \A k \in S : ~(<<k, m>> \in Below)
  BY <1>1, WFMin
<1>4. ASSUME NEW k \in S PROVE m <= k
  <2>1. k \in Nat /\ m \in Nat
    BY <1>3
  <2>2. ~(<<k, m>> \in Below)
    BY <1>3
  <2>3. ~(k < m)
    BY <1>2, <2>1, <2>2
  <2> QED
    BY <2>1, <2>3
<1> QED
  BY <1>4

(* Induction: a set of numbers with 0 and the successors of its members.   *)
LEMMA AllNumbers ==
  ASSUME NEW S \in SUBSET Nat, 0 \in S, \A n \in S : n + 1 \in S
  PROVE  \A n \in Nat : n \in S
<1> DEFINE T == Nat \ S
<1>1. CASE T = {}
  BY <1>1
<1>2. CASE T # {}
  <2>1. PICK m \in T : \A k \in T : m <= k
    BY <1>2, LeastNumber
  <2>2. m # 0 /\ m - 1 \in Nat /\ m - 1 \notin T
    BY <2>1
  <2>3. m - 1 + 1 \in S
    BY <2>2
  <2> QED
    BY <2>1, <2>3
<1> QED
  BY <1>1, <1>2

(* A property of every round of a bounded loop.                            *)
LEMMA AllRounds ==
  ASSUME NEW N \in Nat, NEW S \in SUBSET (0 .. N), 0 \in S, \A n \in S : n < N => n + 1 \in S
  PROVE  \A n \in 0 .. N : n \in S
<1> DEFINE T == {n \in Nat : n <= N => n \in S}
<1>1. 0 \in T /\ \A n \in T : n + 1 \in T
  OBVIOUS
<1>2. T \in SUBSET Nat
  OBVIOUS
<1>3. \A n \in Nat : n \in T
  BY <1>1, <1>2, AllNumbers
<1> QED
  BY <1>3

(* A loop is a function: what a round makes of the locals determines them   *)
(* after every number of rounds.                                           *)
Iterates(f, S, b, G) == \A n \in S : f[n] = IF n = 0 THEN b ELSE G[n][f[n - 1]]

LEMMA Loop ==
  ASSUME NEW V, NEW b \in V, NEW G \in [Nat -> [V -> V]]
  PROVE  \E f \in [Nat -> V] : Iterates(f, Nat, b, G)
<1> DEFINE Runs(g, n) == g[0] = b /\ \A i \in 1 .. n : g[i] = G[i][g[i - 1]]
           S == {n \in Nat : \E g \in [0 .. n -> V] : Runs(g, n)}
<1>1. \A n \in Nat : n \in S
  <2>1. 0 \in S
    <3> DEFINE g == [i \in 0 .. 0 |-> b]
    <3>1. g \in [0 .. 0 -> V] /\ Runs(g, 0)
      OBVIOUS
    <3> QED
      BY <3>1
  <2>2. ASSUME NEW n \in S PROVE n + 1 \in S
    <3>1. n \in Nat
      OBVIOUS
    <3>2. PICK g \in [0 .. n -> V] : Runs(g, n)
      OBVIOUS
    <3> DEFINE h == [i \in 0 .. n + 1 |-> IF i = n + 1 THEN G[n + 1][g[n]] ELSE g[i]]
    <3>3. h \in [0 .. n + 1 -> V]
      <4>1. g[n] \in V /\ G[n + 1] \in [V -> V]
        BY <3>1
      <4> QED
        BY <3>1, <4>1
    <3>4. Runs(h, n + 1)
      <4>1. h[0] = b
        BY <3>1, <3>2
      <4>2. ASSUME NEW i \in 1 .. n + 1 PROVE h[i] = G[i][h[i - 1]]
        BY <3>1, <3>2
      <4> QED
        BY <4>1, <4>2
    <3> HIDE DEF h
    <3>5. \E k \in [0 .. n + 1 -> V] : Runs(k, n + 1)
      BY <3>3, <3>4
    <3>6. n + 1 \in Nat
      BY <3>1
    <3> HIDE DEF Runs
    <3> QED
      BY <3>5, <3>6
  <2> QED
    BY <2>1, <2>2, AllNumbers
<1> DEFINE h == [n \in Nat |-> CHOOSE g \in [0 .. n -> V] : Runs(g, n)]
<1>2. \A n \in Nat : h[n] \in [0 .. n -> V] /\ Runs(h[n], n)
  BY <1>1
<1> HIDE DEF h
<1>3. ASSUME NEW n \in Nat PROVE \A k \in Nat : k <= n => h[n + 1][k] = h[n][k]
  <2> DEFINE R == {k \in Nat : k <= n => h[n + 1][k] = h[n][k]}
  <2>1. 0 \in R
    BY <1>2
  <2>2. ASSUME NEW k \in R PROVE k + 1 \in R
    <3> SUFFICES ASSUME k + 1 <= n PROVE h[n + 1][k + 1] = h[n][k + 1]
      OBVIOUS
    <3>1. k \in Nat /\ k + 1 \in 1 .. n /\ k + 1 \in 1 .. n + 1 /\ k + 1 - 1 = k
      OBVIOUS
    <3>2. h[n + 1][k + 1] = G[k + 1][h[n + 1][k]]
      BY <1>2, <3>1
    <3>3. h[n][k + 1] = G[k + 1][h[n][k]]
      BY <1>2, <3>1
    <3>4. h[n + 1][k] = h[n][k]
      BY <3>1
    <3> QED
      BY <3>2, <3>3, <3>4
  <2>3. \A k \in Nat : k \in R
    BY <2>1, <2>2, AllNumbers
  <2> QED
    BY <2>3
<1> DEFINE f == [n \in Nat |-> h[n][n]]
<1>4. f \in [Nat -> V]
  BY <1>2
<1>5. ASSUME NEW n \in Nat PROVE f[n] = IF n = 0 THEN b ELSE G[n][f[n - 1]]
  <2>1. CASE n = 0
    BY <1>2, <2>1
  <2>2. CASE n # 0
    <3>1. n - 1 \in Nat /\ n - 1 + 1 = n /\ n \in 1 .. n
      BY <2>2
    <3>2. h[n][n] = G[n][h[n][n - 1]]
      BY <1>2, <3>1
    <3>3. h[n][n - 1] = h[n - 1][n - 1]
      BY <1>3, <3>1
    <3> QED
      BY <2>2, <3>1, <3>2, <3>3
  <2> QED
    BY <2>1, <2>2
<1> HIDE DEF f
<1> QED
  BY <1>4, <1>5 DEF Iterates

(* The same of a loop of at most N rounds.                                 *)
LEMMA BoundedLoop ==
  ASSUME NEW N \in Nat, NEW V, NEW b \in V, NEW G \in [1 .. N -> [V -> V]]
  PROVE  \E f \in [0 .. N -> V] : Iterates(f, 0 .. N, b, G)
<1> DEFINE H == [n \in Nat |-> IF n \in 1 .. N THEN G[n] ELSE [v \in V |-> v]]
<1>1. H \in [Nat -> [V -> V]]
  OBVIOUS
<1>5. \A n \in 1 .. N : H[n] = G[n]
  OBVIOUS
<1> HIDE DEF H
<1>2. PICK h \in [Nat -> V] : Iterates(h, Nat, b, H)
  BY <1>1, Loop
<1> DEFINE f == [n \in 0 .. N |-> h[n]]
<1>3. f \in [0 .. N -> V]
  OBVIOUS
<1>4. ASSUME NEW n \in 0 .. N PROVE f[n] = IF n = 0 THEN b ELSE G[n][f[n - 1]]
  <2>1. n \in Nat /\ (n # 0 => n \in 1 .. N /\ n - 1 \in 0 .. N)
    OBVIOUS
  <2> QED
    BY <1>2, <1>5, <2>1 DEF Iterates
<1> HIDE DEF f
<1> QED
  BY <1>3, <1>4 DEF Iterates

LEMMA Powers ==
  /\ TwoTo[0] = 1
  /\ \A n \in Nat : TwoTo[n + 1] = 2 * TwoTo[n]
  /\ \A n \in Nat : TwoTo[n] \in Nat \ {0}
<1> DEFINE V == Nat \ {0}
           G == [n \in Nat |-> [v \in V |-> 2 * v]]
<1>1. 1 \in V /\ G \in [Nat -> [V -> V]]
  OBVIOUS
<1>2. ASSUME NEW n \in Nat, NEW v \in V PROVE G[n][v] = 2 * v
  OBVIOUS
<1> HIDE DEF G
<1> HIDE DEF V
<1>3. PICK f \in [Nat -> V] : Iterates(f, Nat, 1, G)
  BY <1>1, Loop
<1>4. f = [n \in Nat |-> IF n = 0 THEN 1 ELSE 2 * f[n - 1]]
  <2>1. \A n \in Nat : n # 0 => n - 1 \in Nat /\ f[n - 1] \in V
    BY <1>3
  <2> QED
    BY <1>2, <1>3, <2>1 DEF Iterates
<1>5. TwoTo = [n \in Nat |-> IF n = 0 THEN 1 ELSE 2 * TwoTo[n - 1]]
  BY <1>4 DEF TwoTo
<1>6. TwoTo[0] = 1 /\ \A n \in Nat : TwoTo[n + 1] = 2 * TwoTo[n]
  BY <1>5
<1> DEFINE S == {n \in Nat : TwoTo[n] \in Nat \ {0}}
<1>7. 0 \in S /\ \A n \in S : n + 1 \in S
  BY <1>6
<1>8. \A n \in Nat : n \in S
  BY <1>7, AllNumbers
<1> QED
  BY <1>6, <1>8

-----------------------------------------------------------------------------
LEMMA PowerZero == TwoTo[0] = 1
BY Powers

LEMMA PowersGrow == \A m, n \in Nat : m <= n => TwoTo[m] <= TwoTo[n]
<1> SUFFICES ASSUME NEW m \in Nat PROVE \A n \in Nat : m <= n => TwoTo[m] <= TwoTo[n]
  OBVIOUS
<1> DEFINE S == {n \in Nat : m <= n => TwoTo[m] <= TwoTo[n]}
<1>1. 0 \in S
  BY Powers
<1>2. ASSUME NEW n \in S PROVE n + 1 \in S
  <2>1. TwoTo[n + 1] = 2 * TwoTo[n] /\ TwoTo[n] \in Nat /\ TwoTo[m] \in Nat
    BY Powers
  <2>2. CASE m <= n
    BY <2>1, <2>2
  <2>3. CASE m = n + 1
    BY <2>1, <2>3
  <2> QED
    BY <2>2, <2>3
<1>3. \A n \in Nat : n \in S
  BY <1>1, <1>2, AllNumbers
<1> QED
  BY <1>3

LEMMA PowerOfSum == \A m, n \in Nat : TwoTo[m + n] = TwoTo[m] * TwoTo[n]
<1> SUFFICES ASSUME NEW m \in Nat PROVE \A n \in Nat : TwoTo[m + n] = TwoTo[m] * TwoTo[n]
  OBVIOUS
<1> DEFINE S == {n \in Nat : TwoTo[m + n] = TwoTo[m] * TwoTo[n]}
<1>1. 0 \in S
  BY Powers
<1>2. ASSUME NEW n \in S PROVE n + 1 \in S
  <2>1. TwoTo[n + 1] = 2 * TwoTo[n] /\ TwoTo[n] \in Nat /\ TwoTo[m] \in Nat
    BY Powers
  <2>2. m + n \in Nat /\ m + (n + 1) = (m + n) + 1
    OBVIOUS
  <2>3. TwoTo[m + (n + 1)] = 2 * (TwoTo[m] * TwoTo[n])
    BY <2>2, Powers
  <2>4. \A a, b \in Nat : 2 * (a * b) = a * (2 * b)
    OBVIOUS
  <2> QED
    BY <2>1, <2>3, <2>4
<1>3. \A n \in Nat : n \in S
  BY <1>1, <1>2, AllNumbers
<1> QED
  BY <1>3

(* A number is smaller than its power.                                     *)
LEMMA PowersExceed == \A n \in Nat : n < TwoTo[n]
<1> DEFINE S == {n \in Nat : n < TwoTo[n]}
<1>1. 0 \in S
  BY Powers
<1>2. ASSUME NEW n \in S PROVE n + 1 \in S
  BY Powers
<1>3. \A n \in Nat : n \in S
  BY <1>1, <1>2, AllNumbers
<1> QED
  BY <1>3

Modulus == 2 * HalfOfWords

LEMMA Sizes ==
  /\ HalfOfWords \in Nat /\ HalfOfWords >= 32
  /\ Modulus = TwoTo[Bits] /\ Modulus \in Nat /\ Modulus = 2 * HalfOfWords
  /\ Word = 0 .. Modulus - 1
<1>1. Bits - 1 \in Nat /\ Bits = (Bits - 1) + 1 /\ 5 <= Bits - 1
  BY BitsAssumption
<1>2. TwoTo[5] = 32
  <2>1. TwoTo[1] = 2
    BY Powers
  <2>2. TwoTo[2] = 4
    BY <2>1, Powers
  <2>3. TwoTo[3] = 8
    BY <2>2, Powers
  <2>4. TwoTo[4] = 16
    BY <2>3, Powers
  <2> QED
    BY <2>4, Powers
<1>3. TwoTo[5] <= TwoTo[Bits - 1] /\ TwoTo[Bits - 1] \in Nat
  BY <1>1, PowersGrow, Powers
<1>4. TwoTo[Bits] = 2 * TwoTo[Bits - 1]
  BY <1>1, Powers
<1> QED
  BY <1>2, <1>3, <1>4 DEF Modulus, HalfOfWords, Word
LEMMA WordNumber == \A w \in Word : w \in Nat /\ w \in Int /\ w < Modulus
BY Sizes

-----------------------------------------------------------------------------
(* Congruence of integers modulo the number of words.                      *)
Same(a, b) == \E k \in Int : a - b = k * Modulus

LEMMA SameRefl == \A a \in Int : Same(a, a)
<1>1. \A a \in Int : a - a = 0 * Modulus
  BY Sizes
<1> QED
  BY <1>1 DEF Same

LEMMA SameSym == ASSUME NEW a \in Int, NEW b \in Int, Same(a, b) PROVE Same(b, a)
<1>1. PICK k \in Int : a - b = k * Modulus
  BY DEF Same
<1>2. b - a = (-k) * Modulus /\ -k \in Int
  BY <1>1, Sizes
<1> QED
  BY <1>2 DEF Same

LEMMA SameTrans ==
  ASSUME NEW a \in Int, NEW b \in Int, NEW c \in Int, Same(a, b), Same(b, c) PROVE Same(a, c)
<1>1. PICK k \in Int : a - b = k * Modulus
  BY DEF Same
<1>2. PICK l \in Int : b - c = l * Modulus
  BY DEF Same
<1>3. a - c = (k + l) * Modulus /\ k + l \in Int
  BY <1>1, <1>2, Sizes
<1> QED
  BY <1>3 DEF Same

LEMMA SameSum ==
  ASSUME NEW a \in Int, NEW b \in Int, NEW c \in Int, NEW d \in Int, Same(a, b), Same(c, d)
  PROVE  Same(a + c, b + d)
<1>1. PICK k \in Int : a - b = k * Modulus
  BY DEF Same
<1>2. PICK l \in Int : c - d = l * Modulus
  BY DEF Same
<1>3. (a + c) - (b + d) = (k + l) * Modulus /\ k + l \in Int
  BY <1>1, <1>2, Sizes
<1> QED
  BY <1>3 DEF Same

LEMMA SameTimes ==
  ASSUME NEW a \in Int, NEW b \in Int, NEW c \in Int, Same(a, b)
  PROVE  Same(a * c, b * c) /\ Same(c * a, c * b)
<1>1. PICK k \in Int : a - b = k * Modulus
  BY DEF Same
<1>2. Modulus \in Int
  BY Sizes
<1>3. \A m \in Int : a - b = k * m => a * c - b * c = (k * c) * m /\ c * a - c * b = (k * c) * m
  OBVIOUS
<1>4. a * c - b * c = (k * c) * Modulus /\ c * a - c * b = (k * c) * Modulus /\ k * c \in Int
  BY <1>1, <1>2, <1>3
<1> QED
  BY <1>4 DEF Same

LEMMA SameProduct ==
  ASSUME NEW a \in Int, NEW b \in Int, NEW c \in Int, NEW d \in Int, Same(a, b), Same(c, d)
  PROVE  Same(a * c, b * d)
<1>1. Same(a * c, b * c) /\ Same(b * c, b * d)
  BY SameTimes
<1>2. a * c \in Int /\ b * c \in Int /\ b * d \in Int
  OBVIOUS
<1> QED
  BY <1>1, <1>2, SameTrans

(* Two integers less than the number of words apart are equal.             *)
LEMMA SameClose ==
  ASSUME NEW a \in Int, NEW b \in Int, Same(a, b), a - b < Modulus, b - a < Modulus
  PROVE  a = b
<1>1. PICK k \in Int : a - b = k * Modulus
  BY DEF Same
<1>2. Modulus \in Nat /\ Modulus > 0
  BY Sizes
<1>3. \A m \in Nat : k >= 1 => k * m >= m
  OBVIOUS
<1>4. \A m \in Nat : k <= -1 => k * m <= -m
  OBVIOUS
<1>5. k = 0
  BY <1>1, <1>2, <1>3, <1>4
<1> QED
  BY <1>1, <1>2, <1>5

LEMMA SameWords == ASSUME NEW a \in Word, NEW b \in Word, Same(a, b) PROVE a = b
<1>1. a \in Int /\ b \in Int /\ a - b < Modulus /\ b - a < Modulus
  BY Sizes
<1> QED
  BY <1>1, SameClose

LEMMA AsWordSame == \A z \in Int : AsWord(z) \in Word /\ Same(z, AsWord(z))
<1> SUFFICES ASSUME NEW z \in Int PROVE AsWord(z) \in Word /\ Same(z, AsWord(z))
  OBVIOUS
<1>1. \A m \in Nat \ {0} : z % m \in 0 .. m - 1 /\ z - (z % m) = (z \div m) * m /\ z \div m \in Int
  OBVIOUS
<1>2. Modulus \in Nat \ {0}
  BY Sizes
<1> QED
  BY <1>1, <1>2, Sizes DEF AsWord, Same, Modulus

(* What a word is: the only one that is congruent.                         *)
LEMMA AsWordIs == ASSUME NEW z \in Int, NEW w \in Word, Same(z, w) PROVE AsWord(z) = w
<1>1. w \in Int /\ AsWord(z) \in Int
  BY Sizes, AsWordSame
<1>2. Same(AsWord(z), w)
  BY <1>1, AsWordSame, SameSym, SameTrans
<1> QED
  BY <1>2, AsWordSame, SameWords

(* One addition, subtraction, negation: words again, and congruent.         *)
LEMMA WordSums ==
  ASSUME NEW x \in Word, NEW y \in Word
  PROVE  /\ Add(x, y) \in Word /\ Same(Add(x, y), x + y)
         /\ Sub(x, y) \in Word /\ Same(Sub(x, y), x - y)
         /\ Neg(x) \in Word /\ Same(Neg(x), -x)
         /\ Signed(x) \in Int /\ Same(Signed(x), x)
         /\ -HalfOfWords <= Signed(x) /\ Signed(x) < HalfOfWords
<1>1. x \in Int /\ y \in Int /\ Modulus \in Int /\ HalfOfWords \in Int
  BY Sizes
<1>2. \A a, b \in Int : a - b \in {0, Modulus, -Modulus} => Same(a, b)
  <2>1. \A m \in Int : 0 = 0 * m /\ m = 1 * m /\ -m = (-1) * m
    OBVIOUS
  <2>2. 0 \in Int /\ 1 \in Int /\ -1 \in Int
    OBVIOUS
  <2> QED
    BY <1>1, <2>1, <2>2 DEF Same
<1>3. \A z \in Int : -Modulus <= z /\ z < 2 * Modulus => Wrap(z) \in Word /\ Wrap(z) - z \in {0, Modulus, -Modulus}
  BY Sizes DEF Wrap
<1>4. x + y \in Int /\ x - y \in Int /\ -x \in Int
  BY <1>1
<1>5. Add(x, y) \in Word /\ Add(x, y) - (x + y) \in {0, Modulus, -Modulus}
  BY <1>3, <1>4, Sizes DEF Add
<1>6. Sub(x, y) \in Word /\ Sub(x, y) - (x - y) \in {0, Modulus, -Modulus}
  BY <1>3, <1>4, Sizes DEF Sub
<1>7. Neg(x) \in Word /\ Neg(x) - (-x) \in {0, Modulus, -Modulus}
  BY <1>3, <1>4, Sizes DEF Neg
<1>8. Signed(x) \in Int /\ Signed(x) - x \in {0, Modulus, -Modulus}
  BY <1>1, Sizes DEF Signed, IsNegative
<1>9. \A w \in Word : w \in Int
  BY Sizes
<1>10. -HalfOfWords <= Signed(x) /\ Signed(x) < HalfOfWords
  BY Sizes DEF Signed, IsNegative
<1> HIDE DEF Same
<1> QED
  BY <1>1, <1>2, <1>4, <1>5, <1>6, <1>7, <1>8, <1>9, <1>10

(* The quotient of a number that is written with a divisor.                *)
LEMMA QuotientIs ==
  \A m, h, l \in Nat : l < m => (m * h + l) \div m = h
<1> SUFFICES ASSUME NEW m \in Nat, NEW h \in Nat, NEW l \in Nat, l < m PROVE (m * h + l) \div m = h
  OBVIOUS
<1> DEFINE z == m * h + l
           q == z \div m
<1>1. z \in Int /\ m \in Nat \ {0}
  OBVIOUS
<1>2. z = m * q + (z % m) /\ q \in Int /\ z % m \in 0 .. m - 1
  BY <1>1
<1>3. m * q - m * h < m /\ m * h - m * q < m
  BY <1>2
<1>4. m * (q - h) < m /\ m * (h - q) < m
  BY <1>2, <1>3
<1>5. \A k \in Int : k >= 1 => m * k >= m
  OBVIOUS
<1>6. q - h \in Int /\ h - q \in Int
  BY <1>2
<1>7. ~(q - h >= 1) /\ ~(h - q >= 1)
  BY <1>4, <1>5, <1>6
<1> QED
  BY <1>2, <1>6, <1>7

-----------------------------------------------------------------------------
(* multiply: after n rounds the result is the product with the n lowest     *)
(* bits of y.                                                              *)
LEMMA MultiplyIsProduct ==
  ASSUME NEW x \in Word, NEW y \in Word
  PROVE  multiply(x, y) \in Word /\ Same(multiply(x, y), x * y)
<1> DEFINE round[n \in 0 .. Bits] ==
             IF n = 0 THEN [mask |-> 1, shiftedX |-> x, result |-> 0]
             ELSE LET l == round[n - 1]
                  IN [mask     |-> 2 * l.mask,
                      shiftedX |-> Add(l.shiftedX, l.shiftedX),
                      result   |-> IF HasBit(y, l.mask) THEN Add(l.result, l.shiftedX) ELSE l.result]
           V == [mask : Int, shiftedX : Word, result : Word]
           After(l) == [mask     |-> 2 * l.mask,
                        shiftedX |-> Add(l.shiftedX, l.shiftedX),
                        result   |-> IF HasBit(y, l.mask) THEN Add(l.result, l.shiftedX) ELSE l.result]
           first == [mask |-> 1, shiftedX |-> x, result |-> 0]
           G == [n \in 1 .. Bits |-> [l \in V |-> After(l)]]
<1>1. x \in Int /\ y \in Int /\ x \in 0 .. Modulus - 1 /\ y \in 0 .. Modulus - 1 /\ 0 \in Word
  BY Sizes
<1>2. first \in V
  BY <1>1
<1>3. ASSUME NEW l \in V PROVE After(l) \in V
  <2>1. l.mask \in Int /\ l.shiftedX \in Word /\ l.result \in Word
    OBVIOUS
  <2>2. Add(l.shiftedX, l.shiftedX) \in Word /\ Add(l.result, l.shiftedX) \in Word
    BY <2>1, WordSums
  <2>3. 2 * l.mask \in Int
    BY <2>1
  <2> QED
    BY <2>1, <2>2, <2>3
<1>4. G \in [1 .. Bits -> [V -> V]]
  BY <1>3
<1>5. ASSUME NEW n \in 1 .. Bits, NEW l \in V PROVE G[n][l] = After(l)
  OBVIOUS
<1> HIDE DEF G, V, After, first
<1>6. PICK f \in [0 .. Bits -> V] : Iterates(f, 0 .. Bits, first, G)
  BY <1>2, <1>4, BitsAssumption, BoundedLoop
<1>7. f = [n \in 0 .. Bits |-> IF n = 0 THEN first ELSE After(f[n - 1])]
  <2>1. \A n \in 0 .. Bits : n # 0 => n \in 1 .. Bits /\ n - 1 \in 0 .. Bits /\ f[n - 1] \in V
    BY <1>6, BitsAssumption
  <2> QED
    BY <1>5, <1>6, <2>1 DEF Iterates
<1>8. round = [n \in 0 .. Bits |-> IF n = 0 THEN first ELSE After(round[n - 1])]
  BY <1>7 DEF round, first, After
<1>9. multiply(x, y) = round[Bits].result
  BY <1>1 DEF multiply, Endless
<1> HIDE DEF round
<1> DEFINE Inv(n, l) ==
             /\ l.mask = TwoTo[n] /\ l.shiftedX \in Word /\ l.result \in Word
             /\ Same(l.shiftedX, x * TwoTo[n])
             /\ \E high, low \in Nat : y = TwoTo[n] * high + low /\ low < TwoTo[n] /\ Same(l.result, x * low)
           S == {n \in 0 .. Bits : Inv(n, round[n])}
<1>10. 0 \in S
  <2>1. round[0] = [mask |-> 1, shiftedX |-> x, result |-> 0]
    BY <1>8, BitsAssumption DEF first
  <2>2. TwoTo[0] = 1
    BY Powers
  <2>3. y = TwoTo[0] * y + 0 /\ 0 < TwoTo[0] /\ x * TwoTo[0] = x /\ x * 0 = 0 /\ y \in Nat
    BY <1>1, <2>2, Sizes
  <2>4. Same(x, x) /\ Same(0, 0)
    BY <1>1, SameRefl
  <2>5. 0 \in 0 .. Bits
    BY BitsAssumption
  <2> QED
    BY <1>1, <2>1, <2>2, <2>3, <2>4, <2>5
<1>11. ASSUME NEW n \in S, n < Bits PROVE n + 1 \in S
  <2> DEFINE l == round[n]
  <2>1. n \in Nat /\ Inv(n, l) /\ n + 1 \in 0 .. Bits
    BY <1>11, BitsAssumption
  <2>2. round[n + 1] = After(l)
    BY <1>8, <2>1
  <2> HIDE DEF l
  <2>3. PICK high \in Nat, low \in Nat : y = TwoTo[n] * high + low /\ low < TwoTo[n] /\ Same(l.result, x * low)
    BY <2>1
  <2>4. TwoTo[n] \in Nat /\ TwoTo[n + 1] = 2 * TwoTo[n]
    BY <2>1, Powers
  <2>5. y \div TwoTo[n] = high
    BY <2>3, <2>4, QuotientIs
  <2>6. Same(Add(l.shiftedX, l.shiftedX), x * TwoTo[n + 1]) /\ Add(l.shiftedX, l.shiftedX) \in Word
    <3>1. l.shiftedX \in Word /\ l.shiftedX \in Int /\ Same(l.shiftedX, x * TwoTo[n])
      BY <2>1, WordNumber
    <3>0. \A t \in Int : x * t \in Int
      BY <1>1
    <3>7. TwoTo[n] \in Int /\ TwoTo[n + 1] \in Int
      BY <2>4
    <3>6. x * TwoTo[n] \in Int /\ x * TwoTo[n + 1] \in Int
      BY ONLY <3>0, <3>7
    <3>2. Same(Add(l.shiftedX, l.shiftedX), l.shiftedX + l.shiftedX) /\ Add(l.shiftedX, l.shiftedX) \in Word
      BY <3>1, WordSums
    <3>3. Same(l.shiftedX + l.shiftedX, x * TwoTo[n] + x * TwoTo[n])
      BY <3>1, <3>6, SameSum
    <3>4. x * TwoTo[n] + x * TwoTo[n] = x * TwoTo[n + 1]
      BY <1>1, <2>4
    <3>5. Add(l.shiftedX, l.shiftedX) \in Int /\ l.shiftedX + l.shiftedX \in Int
      BY <3>1, <3>2, WordNumber
    <3> QED
      BY <3>2, <3>3, <3>4, <3>5, <3>6, SameTrans
  <2>7. \E bit \in 0 .. 1, rest \in Nat :
          /\ high = 2 * rest + bit
          /\ HasBit(y, l.mask) <=> bit = 1
    <3>1. high = 2 * (high \div 2) + (high % 2) /\ high % 2 \in 0 .. 1 /\ high \div 2 \in Nat
      OBVIOUS
    <3>2. HasBit(y, l.mask) <=> high % 2 = 1
      BY <2>1, <2>5 DEF HasBit
    <3> QED
      BY <3>1, <3>2
  <2>8. PICK bit \in 0 .. 1, rest \in Nat : high = 2 * rest + bit /\ (HasBit(y, l.mask) <=> bit = 1)
    BY <2>7
  <2>9. /\ y = TwoTo[n + 1] * rest + (TwoTo[n] * bit + low)
        /\ TwoTo[n] * bit + low < TwoTo[n + 1]
        /\ TwoTo[n] * bit + low \in Nat
    <3>1. \A t \in Nat : t * (2 * rest + bit) + low = (2 * t) * rest + (t * bit + low)
      OBVIOUS
    <3>2. TwoTo[n] * bit <= TwoTo[n] /\ TwoTo[n] * bit \in Nat
      <4>1. \A t \in Nat : t * 0 = 0 /\ t * 1 = t /\ 0 <= t
        OBVIOUS
      <4>2. bit = 0 \/ bit = 1
        OBVIOUS
      <4> QED
        BY <2>4, <4>1, <4>2
    <3>3. y = TwoTo[n + 1] * rest + (TwoTo[n] * bit + low)
      BY <2>3, <2>4, <2>8, <3>1
    <3>6. low < TwoTo[n]
      BY <2>3
    <3>5. \A p \in Nat : p <= TwoTo[n] => p + low < 2 * TwoTo[n] /\ p + low \in Nat
      BY <2>4, <3>6
    <3>4. TwoTo[n] * bit + low < TwoTo[n + 1] /\ TwoTo[n] * bit + low \in Nat
      BY <2>4, <3>2, <3>5
    <3> QED
      BY <3>3, <3>4
  <2>10. /\ After(l).result \in Word
         /\ Same(After(l).result, x * (TwoTo[n] * bit + low))
    <3>1. l.result \in Word /\ l.result \in Int /\ l.shiftedX \in Word /\ l.shiftedX \in Int
      BY <2>1, Sizes
    <3>2. CASE bit = 0
      <4>1. After(l).result = l.result
        BY <2>8, <3>2 DEF After
      <4>2. TwoTo[n] * bit + low = low
        BY <2>4, <3>2
      <4> QED
        BY <2>3, <3>1, <4>1, <4>2
    <3>3. CASE bit = 1
      <4>1. After(l).result = Add(l.result, l.shiftedX)
        BY <2>8, <3>3 DEF After
      <4>2. Add(l.result, l.shiftedX) \in Word /\ Same(Add(l.result, l.shiftedX), l.result + l.shiftedX)
        BY <3>1, WordSums
      <4>0. \A t \in Int : x * t \in Int
        BY <1>1
      <4>10. low \in Int /\ TwoTo[n] \in Int
        BY <2>4
      <4>3. x * low \in Int /\ x * TwoTo[n] \in Int
        BY ONLY <4>0, <4>10
      <4>4. Same(l.result + l.shiftedX, x * low + x * TwoTo[n])
        BY <2>1, <2>3, <3>1, <4>3, SameSum
      <4>5. \A t \in Nat : x * low + x * t = x * (t * 1 + low)
        BY <1>1
      <4>6. x * low + x * TwoTo[n] = x * (TwoTo[n] * bit + low)
        BY <2>4, <3>3, <4>5
      <4>7. Add(l.result, l.shiftedX) \in Int /\ l.result + l.shiftedX \in Int
        BY <3>1, <4>2, Sizes
      <4>8. x * low + x * TwoTo[n] \in Int
        BY <4>3
      <4>9. Same(Add(l.result, l.shiftedX), x * low + x * TwoTo[n])
        BY <4>2, <4>4, <4>7, <4>8, SameTrans
      <4> QED
        BY <4>1, <4>2, <4>6, <4>9
    <3> QED
      BY <3>2, <3>3
  <2>11. After(l).mask = TwoTo[n + 1] /\ After(l).shiftedX = Add(l.shiftedX, l.shiftedX)
    BY <2>1, <2>4 DEF After
  <2>12. Inv(n + 1, After(l))
    BY <2>6, <2>9, <2>10, <2>11
  <2> HIDE DEF Inv
  <2> QED
    BY <2>1, <2>2, <2>12
<1>12. Inv(Bits, round[Bits])
  <2>1. \A n \in 0 .. Bits : n \in S
    <3> HIDE DEF Inv
    <3>1. S \in SUBSET (0 .. Bits) /\ Bits \in Nat
      BY BitsAssumption
    <3> HIDE DEF S
    <3> QED
      BY <1>10, <1>11, <3>1, AllRounds
  <2>2. Bits \in 0 .. Bits
    BY BitsAssumption
  <2>3. Bits \in S
    BY ONLY <2>1, <2>2
  <2> HIDE DEF Inv
  <2> QED
    BY ONLY <2>3 DEF S
<1>13. PICK high \in Nat, low \in Nat :
         y = TwoTo[Bits] * high + low /\ low < TwoTo[Bits] /\ Same(round[Bits].result, x * low)
  BY <1>12
<1>14. high = 0
  <2>1. TwoTo[Bits] = Modulus /\ Modulus \in Nat
    BY Sizes
  <2>2. \A m \in Nat : high >= 1 => m * high >= m
    OBVIOUS
  <2>3. y < Modulus
    BY WordNumber
  <2> QED
    BY <1>13, <2>1, <2>2, <2>3
<1>15. y = low
  <2>1. TwoTo[Bits] \in Int
    BY Sizes
  <2>2. \A t \in Int : t * 0 + low = low
    OBVIOUS
  <2>3. y = TwoTo[Bits] * 0 + low
    BY ONLY <1>13, <1>14
  <2> QED
    BY ONLY <2>1, <2>2, <2>3
<1> QED
  BY <1>9, <1>12, <1>13, <1>15

LEMMA MultiplyIs ==
  ASSUME NEW x \in Word, NEW y \in Word, NEW a \in Int, NEW b \in Int, Same(x, a), Same(y, b)
  PROVE  multiply(x, y) = AsWord(a * b)
<1>1. multiply(x, y) \in Word /\ Same(multiply(x, y), x * y)
  BY MultiplyIsProduct
<1>2. x \in Int /\ y \in Int /\ multiply(x, y) \in Int
  BY <1>1, WordNumber
<1>3. x * y \in Int /\ a * b \in Int
  BY <1>2
<1>4. Same(x * y, a * b)
  BY <1>2, SameProduct
<1>5. Same(a * b, multiply(x, y))
  BY <1>1, <1>2, <1>3, <1>4, SameSym, SameTrans
<1> QED
  BY <1>1, <1>3, <1>5, AsWordIs

(* multiply is the product of the signed values.                           *)
LEMMA MultiplySigned ==
  ASSUME NEW x \in Word, NEW y \in Word
  PROVE  multiply(x, y) = AsWord(Signed(x) * Signed(y))
<1>1. x \in Int /\ y \in Int
  BY WordNumber
<1>2. Signed(x) \in Int /\ Same(Signed(x), x) /\ Signed(y) \in Int /\ Same(Signed(y), y)
  BY WordSums
<1>3. Same(x, Signed(x)) /\ Same(y, Signed(y))
  BY <1>1, <1>2, SameSym
<1> QED
  BY <1>2, <1>3, MultiplyIs

(* A number that is a word is its own word.                                *)
LEMMA AsWordOfWord == \A w \in Word : AsWord(w) = w
<1> TAKE w \in Word
<1>1. w \in Int
  BY WordNumber
<1> QED
  BY <1>1, SameRefl, AsWordIs

LEMMA SmallProduct ==
  ASSUME NEW x \in Word, NEW y \in Word, x * y < Modulus
  PROVE  multiply(x, y) = x * y
<1>1. x \in Nat /\ y \in Nat
  BY WordNumber
<1>2. x * y \in Nat
  BY <1>1
<1>3. x * y \in Word
  BY <1>2, Sizes
<1>4. multiply(x, y) = AsWord(x * y)
  BY <1>1, SameRefl, MultiplyIs
<1> QED
  BY <1>3, <1>4, AsWordOfWord

-----------------------------------------------------------------------------
(* The words of the numbers below the smallest word.                       *)
LEMMA LessZero == \A x \in Word : Less(x, 0) <=> x > HalfOfWords
<1> TAKE x \in Word
<1>1. x \in Nat /\ x < 2 * HalfOfWords /\ HalfOfWords \in Nat /\ HalfOfWords > 0
  BY WordNumber, Sizes
<1> QED
  BY <1>1 DEF Less, IsPositive, Sub, Wrap

LEMMA SmallWord ==
  \A n \in Nat : n < HalfOfWords =>
    n \in Word /\ Signed(n) = n /\ ~Less(n, 0) /\ abs(n) = n /\ Sign(n) = 1 /\ Magnitude(n) = n
<1> TAKE n \in Nat
<1>1. HAVE n < HalfOfWords
<1>2. n \in Word /\ ~(n >= HalfOfWords)
  BY <1>1, Sizes
<1>3. ~Less(n, 0)
  BY <1>1, <1>2, LessZero, Sizes
<1>4. Signed(n) = n
  BY <1>2 DEF Signed, IsNegative
<1> QED
  BY <1>2, <1>3, <1>4 DEF abs, Sign, Magnitude

LEMMA MagnitudeIs ==
  \A x \in Word : Magnitude(x) \in Nat /\ Magnitude(x) <= HalfOfWords
                  /\ (Magnitude(x) = 0 <=> x = 0)
<1> TAKE x \in Word
<1>1. x \in Nat /\ x < 2 * HalfOfWords /\ HalfOfWords \in Nat /\ HalfOfWords > 0
  BY WordNumber, Sizes
<1> QED
  BY <1>1 DEF Magnitude, Signed, IsNegative

LEMMA AbsIs ==
  ASSUME NEW x \in Word, Magnitude(x) < HalfOfWords
  PROVE  abs(x) = Magnitude(x) /\ Sign(x) \in Word
         /\ Same(Sign(x), IF Signed(x) < 0 THEN -1 ELSE 1)
<1>1. x \in Nat /\ x < 2 * HalfOfWords /\ HalfOfWords \in Nat /\ HalfOfWords >= 32 /\ 1 \in Word
  BY WordNumber, Sizes
<1>2. Neg(1) \in Word /\ Same(Neg(1), -1)
  BY <1>1, WordSums
<1>3. Same(1, 1)
  BY SameRefl
<1>4. (Signed(x) < 0 <=> Less(x, 0)) /\ (Signed(x) < 0 <=> x >= HalfOfWords)
  <2>1. Signed(x) < 0 <=> x >= HalfOfWords
    BY <1>1 DEF Signed, IsNegative
  <2>2. x # HalfOfWords
    BY <1>1 DEF Magnitude, Signed, IsNegative
  <2> QED
    BY <1>1, <2>1, <2>2, LessZero
<1>5. abs(x) = Magnitude(x)
  <2>1. CASE Less(x, 0)
    <3>1. Magnitude(x) = 2 * HalfOfWords - x
      BY <1>1, <1>4, <2>1 DEF Magnitude, Signed, IsNegative
    <3>2. Neg(x) = 2 * HalfOfWords - x
      BY <1>1, <1>4, <2>1 DEF Neg, Wrap
    <3> QED
      BY <2>1, <3>1, <3>2 DEF abs
  <2>2. CASE ~Less(x, 0)
    BY <1>1, <1>4, <2>2 DEF Magnitude, Signed, abs, IsNegative
  <2> QED
    BY <2>1, <2>2
<1> QED
  BY <1>1, <1>2, <1>3, <1>4, <1>5 DEF Sign

LEMMA LessSmall ==
  \A m, n \in Nat : m < HalfOfWords /\ n < HalfOfWords => (Less(m, n) <=> m < n)
BY Sizes DEF Less, IsPositive, Sub, Wrap

LEMMA GreaterSmall ==
  \A m, n \in Nat : m <= HalfOfWords /\ n < HalfOfWords => (Greater(m, n) <=> m > n)
BY Sizes DEF Greater, IsNegative, Sub, Wrap

LEMMA AbsWord == \A x \in Word : abs(x) \in Word
<1> TAKE x \in Word
<1>1. Neg(x) \in Word
  BY WordSums
<1> QED
  BY <1>1 DEF abs

(* What a word is that a doubled divisor overflowed into.                  *)
LEMMA AbsOver == \A w \in Word : w >= HalfOfWords => abs(w) = 2 * HalfOfWords - w
<1> TAKE w \in Word
<1>1. HAVE w >= HalfOfWords
<1>2. w \in Nat /\ w < 2 * HalfOfWords /\ HalfOfWords \in Nat /\ HalfOfWords > 0
  BY WordNumber, Sizes
<1>3. Neg(w) = 2 * HalfOfWords - w
  BY <1>1, <1>2 DEF Neg, Wrap
<1> QED
  BY <1>1, <1>2, <1>3, LessZero DEF abs

LEMMA SmallWords == {0, 1, 2, 10} \subseteq Word
BY Sizes

-----------------------------------------------------------------------------
(* How often the divisor is doubled until it exceeds the dividend; it may   *)
(* overflow then, but does not come down to the dividend again.            *)
IsDepth(D, a, b) ==
  /\ D \in 0 .. Bits /\ a < b * TwoTo[D]
  /\ \A k \in Nat : k < D => b * TwoTo[k] <= a
  /\ \A k \in Nat : k <= D => b * TwoTo[k] \in Nat /\ b * TwoTo[k] + a < Modulus

LEMMA DivisibleTyped ==
  ASSUME NEW x \in Word, NEW y \in Word, Divisible(x, y)
  PROVE  /\ Magnitude(x) \in Nat /\ Magnitude(x) < HalfOfWords
         /\ Magnitude(y) \in Nat \ {0} /\ Magnitude(y) < HalfOfWords
BY MagnitudeIs DEF Divisible

LEMMA DepthExists ==
  ASSUME NEW x \in Word, NEW y \in Word, Divisible(x, y)
  PROVE  \E D \in 0 .. Bits : IsDepth(D, Magnitude(x), Magnitude(y))
<1> DEFINE a == Magnitude(x)
           b == Magnitude(y)
           S == {k \in Nat : a < b * TwoTo[k]}
<1>1. a \in Nat /\ a < HalfOfWords /\ b \in Nat \ {0} /\ b < HalfOfWords
  BY DivisibleTyped
<1>2. \A k \in 0 .. Bits : TwoTo[k] <= a \div b => b * TwoTo[k + 1] + a < Modulus
  BY DEF Divisible, Modulus
<1> HIDE DEF a, b
<1>3. \A k \in Nat : TwoTo[k] \in Nat \ {0} /\ b * TwoTo[k] \in Nat /\ b * TwoTo[k] >= TwoTo[k]
  <2> TAKE k \in Nat
  <2>1. TwoTo[k] \in Nat \ {0}
    BY Powers
  <2>2. \A t \in Nat : b * t \in Nat /\ b * t >= t
    BY <1>1
  <2> QED
    BY <2>1, <2>2
<1>4. S \in SUBSET Nat /\ S # {}
  <2>1. a \in S
    BY <1>1, <1>3, PowersExceed
  <2> QED
    BY <2>1
<1>5. PICK D \in S : \A k \in S : D <= k
  BY <1>4, LeastNumber
<1>6. ASSUME NEW k \in Nat, k < D PROVE b * TwoTo[k] <= a /\ k < Bits - 1 /\ b * TwoTo[k + 1] + a < Modulus
  <2>1. b * TwoTo[k] <= a
    BY <1>1, <1>3, <1>5, <1>6
  <2>2. TwoTo[k] < TwoTo[Bits - 1]
    <3>1. TwoTo[k] \in Nat /\ b * TwoTo[k] \in Nat /\ b * TwoTo[k] >= TwoTo[k]
      BY ONLY <1>3, k \in Nat
    <3> DEFINE t == TwoTo[k]
               u == b * TwoTo[k]
    <3>2. t \in Nat /\ u \in Nat /\ u >= t /\ u <= a
      BY ONLY <3>1, <2>1
    <3> HIDE DEF t, u
    <3>3. HalfOfWords \in Nat
      BY Sizes
    <3>4. t < HalfOfWords
      BY ONLY <1>1, <3>2, <3>3
    <3> QED
      BY ONLY <3>4 DEF t, HalfOfWords
  <2>3. Bits - 1 \in Nat
    BY BitsAssumption
  <2>4. k < Bits - 1
    BY <1>3, <2>2, <2>3, PowersGrow
  <2>5. TwoTo[k] <= a \div b
    <3>1. \A t \in Nat : b * t <= a => t <= a \div b
      <4> SUFFICES ASSUME NEW t \in Nat, b * t <= a PROVE t <= a \div b
        OBVIOUS
      <4>1. a = b * (a \div b) + (a % b) /\ a % b < b /\ a \div b \in Int
        BY <1>1
      <4>2. \A q \in Int : q + 1 <= t => b * (q + 1) <= b * t
        BY <1>1
      <4>3. \A q \in Int : b * (q + 1) = b * q + b
        BY <1>1
      <4> QED
        BY <1>1, <4>1, <4>2, <4>3
    <3> QED
      BY <1>3, <2>1, <3>1
  <2>6. k \in 0 .. Bits
    BY <2>4, BitsAssumption
  <2> QED
    BY <1>2, <2>1, <2>4, <2>5, <2>6
<1>7. D \in 0 .. Bits
  <2>1. D # 0 => D - 1 \in Nat /\ D - 1 < D
    BY <1>5
  <2> QED
    BY <1>5, <1>6, <2>1, BitsAssumption
<1>8. ASSUME NEW k \in Nat, k <= D PROVE b * TwoTo[k] + a < Modulus
  <2>1. CASE k = 0
    <3>1. b * TwoTo[k] = b
      BY <1>1, <2>1, Powers
    <3> QED
      BY <1>1, <3>1, Sizes
  <2>2. CASE k # 0
    <3>1. k - 1 \in Nat /\ k - 1 < D /\ k = (k - 1) + 1
      BY <1>5, <1>8, <2>2
    <3> QED
      BY <1>6, <3>1
  <2> QED
    BY <2>1, <2>2
<1>9. a < b * TwoTo[D]
  BY <1>5
<1> QED
  BY <1>3, <1>6, <1>7, <1>8, <1>9 DEF IsDepth, a, b

(* Whether a call is the last one: its divisor, as a word, exceeds the      *)
(* dividend.                                                               *)
LEMMA LastIs ==
  ASSUME NEW a \in Nat, a < HalfOfWords, NEW c \in Nat, c + a < Modulus, NEW args,
         abs(args[1]) = a, abs(args[2]) = abs(c)
  PROVE  IsLast(args) <=> a < c
<1>1. HalfOfWords \in Nat /\ Modulus = 2 * HalfOfWords
  BY Sizes
<1>2. CASE c < HalfOfWords
  <2>1. abs(c) = c
    BY <1>2, SmallWord
  <2>2. Greater(c, a) <=> c > a
    BY <1>1, <1>2, GreaterSmall
  <2> QED
    BY <2>1, <2>2 DEF IsLast
<1>3. CASE c >= HalfOfWords
  <2> DEFINE m == 2 * HalfOfWords - c
  <2>1. c \in Word
    BY <1>1, Sizes
  <2>2. abs(c) = m
    BY <1>3, <2>1, AbsOver
  <2>3. m \in Nat /\ m <= HalfOfWords /\ m > a /\ a < c
    BY <1>1, <1>3
  <2> HIDE DEF m
  <2>4. Greater(m, a)
    BY <2>3, GreaterSmall
  <2> QED
    BY <2>2, <2>3, <2>4 DEF IsLast
<1> QED
  BY <1>1, <1>2, <1>3

(* The calls of divide inside one another: the dividend stays, the divisor  *)
(* doubles, and the last one is the first whose divisor exceeds it.        *)
LEMMA CallsAre ==
  ASSUME NEW x \in Word, NEW y \in Word, Divisible(x, y),
         NEW D \in 0 .. Bits, IsDepth(D, Magnitude(x), Magnitude(y))
  PROVE  /\ Len(Calls(x, y)) = D + 1
         /\ Calls(x, y)[1] = <<x, y>>
         /\ \A i \in 2 .. D + 1 : Calls(x, y)[i] = <<Magnitude(x), Magnitude(y) * TwoTo[i - 1]>>
         /\ IsLast(Last(Calls(x, y)))
<1> DEFINE calls[n \in 0 .. MaxDepth] ==
             IF n = 0 THEN <<<<x, y>>>>
             ELSE LET s    == calls[n - 1]
                      args == Last(s)
                  IN IF Len(s) < n \/ IsLast(args) THEN s
                     ELSE Append(s, <<abs(args[1]), multiply(2, abs(args[2]))>>)
           V == {s \in Seq(Word \X Word) : s # <<>>}
           After(s, n) == IF Len(s) < n \/ IsLast(Last(s)) THEN s
                          ELSE Append(s, <<abs(Last(s)[1]), multiply(2, abs(Last(s)[2]))>>)
           first == <<<<x, y>>>>
           G == [n \in 1 .. MaxDepth |-> [s \in V |-> After(s, n)]]
           a == Magnitude(x)
           b == Magnitude(y)
<1>1. a \in Nat /\ a < HalfOfWords /\ b \in Nat \ {0} /\ b < HalfOfWords /\ abs(x) = a /\ abs(y) = b
  BY DivisibleTyped, AbsIs
<1>2. first \in V
  OBVIOUS
<1>3. ASSUME NEW n \in 1 .. MaxDepth, NEW s \in V PROVE After(s, n) \in V
  <2>1. s \in Seq(Word \X Word) /\ Len(s) \in Nat /\ Len(s) >= 1
    BY EmptySeq
  <2>2. Last(s) \in Word \X Word
    BY <2>1 DEF Last
  <2>3. Last(s)[1] \in Word /\ Last(s)[2] \in Word
    BY <2>2
  <2>4. abs(Last(s)[1]) \in Word /\ abs(Last(s)[2]) \in Word /\ 2 \in Word
    BY <2>3, AbsWord, SmallWords
  <2>5. multiply(2, abs(Last(s)[2])) \in Word
    BY <2>4, MultiplyIsProduct
  <2>6. <<abs(Last(s)[1]), multiply(2, abs(Last(s)[2]))>> \in Word \X Word
    BY <2>4, <2>5
  <2> QED
    BY <2>1, <2>6
<1>4. G \in [1 .. MaxDepth -> [V -> V]]
  BY <1>3
<1>5. \A n \in 1 .. MaxDepth : \A s \in V : G[n][s] = After(s, n)
  OBVIOUS
<1> HIDE DEF G, V, After, first
<1>6. MaxDepth \in Nat
  BY BitsAssumption DEF MaxDepth
<1>7. PICK f \in [0 .. MaxDepth -> V] : Iterates(f, 0 .. MaxDepth, first, G)
  BY <1>2, <1>4, <1>6, BoundedLoop
<1>8. f = [n \in 0 .. MaxDepth |-> IF n = 0 THEN first ELSE After(f[n - 1], n)]
  <2>1. \A n \in 0 .. MaxDepth : n # 0 => n \in 1 .. MaxDepth /\ n - 1 \in 0 .. MaxDepth /\ f[n - 1] \in V
    BY <1>6, <1>7
  <2> QED
    BY <1>5, <1>7, <2>1 DEF Iterates
<1>9. calls = [n \in 0 .. MaxDepth |-> IF n = 0 THEN first ELSE After(calls[n - 1], n)]
  BY <1>8 DEF calls, first, After
<1>10. Calls(x, y) = calls[MaxDepth]
  BY DEF Calls
<1> HIDE DEF calls
<1> DEFINE Reached(n) == IF n < D THEN n ELSE D
           Inv(n, s) ==
             /\ s \in Seq(Word \X Word) /\ Len(s) = Reached(n) + 1 /\ s[1] = <<x, y>>
             /\ \A i \in 2 .. Reached(n) + 1 : s[i] = <<a, b * TwoTo[i - 1]>>
             /\ n >= D => IsLast(Last(s))
           S == {n \in 0 .. MaxDepth : Inv(n, calls[n])}
<1>11. 0 \in S
  <2>1. calls[0] = <<<<x, y>>>> /\ 0 \in 0 .. MaxDepth
    BY <1>6, <1>9 DEF first
  <2>2. Reached(0) = 0
    OBVIOUS
  <2>3. <<<<x, y>>>> \in Seq(Word \X Word) /\ Len(<<<<x, y>>>>) = 1 /\ <<<<x, y>>>>[1] = <<x, y>>
    OBVIOUS
  <2>5. 0 >= D => IsLast(Last(<<<<x, y>>>>))
    <3>1. HAVE 0 >= D
    <3>2. TwoTo[0] = 1 /\ b * 1 = b /\ D = 0
      BY <1>1, <3>1, PowerZero
    <3>3. a < b
      BY <3>2 DEF IsDepth
    <3>4. abs(b) = b /\ b + a < Modulus
      BY <1>1, Sizes, SmallWord
    <3> DEFINE args == <<x, y>>
    <3>5. abs(args[1]) = a /\ abs(args[2]) = abs(b) /\ Last(<<args>>) = args
      BY <1>1, <3>4 DEF Last
    <3> HIDE DEF args, a, b
    <3>6. IsLast(args)
      BY <1>1, <3>3, <3>4, <3>5, LastIs
    <3> QED
      BY <3>5, <3>6 DEF args
  <2> HIDE DEF Reached
  <2>4. Inv(0, <<<<x, y>>>>)
    BY <2>2, <2>3, <2>5
  <2> HIDE DEF Inv
  <2> QED
    BY <2>1, <2>4
<1>12. ASSUME NEW n \in S, n < MaxDepth PROVE n + 1 \in S
  <2> DEFINE s == calls[n]
             last == Reached(n) + 1
  <2>1. n \in Nat /\ n + 1 \in 0 .. MaxDepth /\ Inv(n, s)
    <3> HIDE DEF Inv
    <3>1. n \in 0 .. MaxDepth /\ Inv(n, calls[n]) /\ n < MaxDepth
      BY <1>12
    <3> HIDE DEF S, calls
    <3>2. n \in Nat /\ n + 1 \in 0 .. MaxDepth
      BY <1>6, <3>1
    <3> QED
      BY <3>1, <3>2
  <2>2. calls[n + 1] = After(s, n + 1)
    BY <1>9, <2>1
  <2> HIDE DEF s
  <2>3. Reached(n) \in Nat /\ Reached(n) <= D /\ D \in Nat
    BY <2>1
  <2>9. /\ n >= D => Reached(n) = D /\ Reached(n + 1) = D
        /\ n < D => Reached(n) = n /\ Reached(n + 1) = n + 1
    BY <2>1, <2>3
  <2> HIDE DEF Reached
  <2>4. /\ abs(s[last][1]) = a /\ abs(s[last][2]) = abs(b * TwoTo[Reached(n)])
        /\ b * TwoTo[Reached(n)] \in Nat /\ b * TwoTo[Reached(n)] + a < Modulus
    <3>1. b * TwoTo[Reached(n)] \in Nat /\ b * TwoTo[Reached(n)] + a < Modulus
      BY <2>3 DEF IsDepth
    <3>2. CASE last = 1
      <4>1. s[last][1] = x /\ s[last][2] = y
        BY <2>1, <3>2
      <4>3. Reached(n) = 0
        BY <2>3, <3>2
      <4>4. TwoTo[0] = 1
        BY Powers
      <4>2. TwoTo[Reached(n)] = 1 /\ b * 1 = b /\ abs(b) = b
        BY <1>1, <4>3, <4>4, SmallWord
      <4> QED
        BY <1>1, <3>1, <4>1, <4>2
    <3>3. CASE last # 1
      <4>1. last \in 2 .. Reached(n) + 1 /\ last - 1 = Reached(n)
        BY <2>3, <3>3
      <4>2. s[last] = <<a, b * TwoTo[Reached(n)]>>
        BY <2>1, <4>1
      <4>3. s[last][1] = a /\ s[last][2] = b * TwoTo[Reached(n)]
        BY <4>2
      <4> QED
        BY <1>1, <3>1, <4>3, SmallWord
    <3> QED
      BY <3>2, <3>3
  <2>5. Last(s) = s[last] /\ Len(s) = last
    BY <2>1 DEF Last
  <2>6. IsLast(Last(s)) <=> a < b * TwoTo[Reached(n)]
    <3> DEFINE c == b * TwoTo[Reached(n)]
               args == s[last]
    <3>1. c \in Nat /\ c + a < Modulus /\ abs(args[1]) = a /\ abs(args[2]) = abs(c)
      BY <2>4
    <3> HIDE DEF a, c, args
    <3>2. IsLast(args) <=> a < c
      BY <1>1, <3>1, LastIs
    <3> QED
      BY <2>5, <3>2 DEF c, args
  <2>7. CASE n >= D
    <3>1. Reached(n) = D /\ Reached(n + 1) = D
      BY <2>7, <2>9
    <3>2. IsLast(Last(s))
      BY <2>6, <3>1 DEF IsDepth
    <3>3. calls[n + 1] = s
      BY <2>2, <3>2 DEF After
    <3> QED
      BY <2>1, <3>1, <3>2, <3>3
  <2>8. CASE n < D
    <3>1. Reached(n) = n /\ Reached(n + 1) = n + 1 /\ last = n + 1
      BY <2>8, <2>9
    <3>2. ~IsLast(Last(s)) /\ ~(Len(s) < n + 1)
      <4>1. b * TwoTo[n] <= a
        BY <2>1, <2>8 DEF IsDepth
      <4> QED
        BY <1>1, <2>1, <2>4, <2>5, <2>6, <3>1, <4>1
    <3>9. b * TwoTo[n] \in Nat /\ b * TwoTo[n] < HalfOfWords
      <4> DEFINE t == b * TwoTo[n]
      <4>1. t <= a /\ t \in Nat
        BY <2>1, <2>4, <2>8, <3>1 DEF IsDepth
      <4>2. a \in Nat /\ a < HalfOfWords
        BY <1>1
      <4> HIDE DEF t, a
      <4>3. t \in Nat /\ t < HalfOfWords
        BY <4>1, <4>2, Sizes
      <4> QED
        BY <4>3 DEF t
    <3>10. abs(s[last][1]) = a /\ abs(s[last][2]) = b * TwoTo[n]
      BY <2>4, <3>1, <3>9, SmallWord
    <3>3. multiply(2, b * TwoTo[n]) = b * TwoTo[n + 1]
      <4>1. 2 \in Word /\ b * TwoTo[n] \in Word /\ b * TwoTo[n] \in Nat
        BY <3>9, SmallWord, SmallWords
      <4>2. \A t \in Nat : 2 * (b * t) = b * (2 * t)
        BY <1>1
      <4>3. 2 * (b * TwoTo[n]) = b * TwoTo[n + 1]
        <5>1. TwoTo[n + 1] = 2 * TwoTo[n] /\ TwoTo[n] \in Nat
          BY <2>1, Powers
        <5> QED
          BY <4>2, <5>1
      <4>4. 2 * (b * TwoTo[n]) < Modulus
        BY <3>9, Sizes
      <4> QED
        BY <4>1, <4>3, <4>4, SmallProduct
    <3> DEFINE new == <<a, b * TwoTo[n + 1]>>
    <3>4. calls[n + 1] = Append(s, new)
      BY <2>2, <2>5, <3>1, <3>2, <3>3, <3>10 DEF After
    <3>11. b * TwoTo[n + 1] \in Nat /\ b * TwoTo[n + 1] + a < Modulus
      <4>1. n + 1 \in Nat /\ n + 1 <= D
        BY <2>1, <2>3, <2>8
      <4> QED
        BY <4>1 DEF IsDepth
    <3>5. new \in Word \X Word
      <4>1. b * TwoTo[n + 1] \in Word /\ a \in Word
        <5> DEFINE t == b * TwoTo[n + 1]
        <5>1. t \in Nat /\ t + a < Modulus
          BY <3>11
        <5>2. a \in Nat /\ a < HalfOfWords
          BY <1>1
        <5> HIDE DEF t, a
        <5>3. t \in Word /\ a \in Word
          BY <5>1, <5>2, Sizes, SmallWord
        <5> QED
          BY <5>3 DEF t
      <4> QED
        BY <4>1
    <3>12. n + 1 >= D => IsLast(new)
      <4> DEFINE c == b * TwoTo[n + 1]
      <4>1. HAVE n + 1 >= D
      <4>2. n + 1 = D
        BY <2>1, <2>3, <2>8, <4>1
      <4>3. a < c
        BY <4>2 DEF IsDepth
      <4>4. c \in Nat /\ c + a < Modulus /\ abs(new[1]) = a /\ abs(new[2]) = abs(c)
        BY <1>1, <3>11, SmallWord
      <4> HIDE DEF a, c, new
      <4> QED
        BY <1>1, <4>3, <4>4, LastIs
    <3> HIDE DEF new
    <3>6. /\ Append(s, new) \in Seq(Word \X Word) /\ Len(Append(s, new)) = n + 2
          /\ \A i \in 1 .. n + 1 : Append(s, new)[i] = s[i]
          /\ Append(s, new)[n + 2] = new
      <4>1. s \in Seq(Word \X Word) /\ Len(s) = n + 1 /\ n \in Nat
        BY <2>1, <3>1
      <4> QED
        BY <3>5, <4>1, AppendProperties
    <3>7. Inv(n + 1, Append(s, new))
      <4>1. \A i \in 2 .. n + 2 : Append(s, new)[i] = <<a, b * TwoTo[i - 1]>>
        <5> TAKE i \in 2 .. n + 2
        <5>1. CASE i = n + 2
          <6>1. i - 1 = n + 1
            BY <2>1, <5>1
          <6> QED
            BY <3>6, <5>1, <6>1 DEF new
        <5>2. CASE i # n + 2
          <6>1. i \in 2 .. Reached(n) + 1 /\ i \in 1 .. n + 1
            BY <2>1, <3>1, <5>2
          <6> QED
            BY <2>1, <3>6, <6>1
        <5> QED
          BY <5>1, <5>2
      <4>2. Append(s, new)[1] = <<x, y>>
        BY <2>1, <3>6
      <4>3. Reached(n + 1) + 1 = n + 2
        BY <2>1, <3>1
      <4>4. n + 1 >= D => IsLast(Last(Append(s, new)))
        BY <3>6, <3>12 DEF Last
      <4> QED
        BY <3>6, <4>1, <4>2, <4>3, <4>4
    <3> HIDE DEF Inv
    <3> QED
      BY <2>1, <3>4, <3>7
  <2> QED
    BY <2>1, <2>3, <2>7, <2>8
<1>13. Inv(MaxDepth, calls[MaxDepth])
  <2> HIDE DEF Inv
  <2>1. S \in SUBSET (0 .. MaxDepth)
    OBVIOUS
  <2> HIDE DEF S
  <2>2. \A n \in 0 .. MaxDepth : n \in S
    BY <1>6, <1>11, <1>12, <2>1, AllRounds
  <2> USE DEF S
  <2> QED
    BY <1>6, <2>2
<1>14. Reached(MaxDepth) = D /\ MaxDepth >= D
  BY BitsAssumption DEF MaxDepth
<1> QED
  BY <1>10, <1>13, <1>14

(* A number and what a division leaves of it.                              *)
LEMMA RestIs ==
  ASSUME NEW z \in Nat, NEW m \in Nat \ {0}
  PROVE  z = m * (z \div m) + (z % m) /\ z % m \in Nat /\ z % m < m /\ z \div m \in Int
OBVIOUS

(* One return of divide: from the integer part by twice the divisor to that *)
(* by the divisor.                                                         *)
Doubled(a, q, c) == IF odd(a, q, c) THEN Add(multiply(2, q), 1) ELSE multiply(2, q)

LEMMA DoubledIs ==
  ASSUME NEW a \in Nat, NEW c \in Nat \ {0}, a < HalfOfWords, c < HalfOfWords,
         NEW q, q = a \div (2 * c)
  PROVE  Doubled(a, q, c) = a \div c /\ a \div c \in Nat /\ a \div c <= a
<1> DEFINE r == a % (2 * c)
<1>1. a = (2 * c) * q + r /\ r \in Nat /\ r < 2 * c /\ q \in Int
  <2> DEFINE m == 2 * c
  <2>1. m \in Nat \ {0}
    OBVIOUS
  <2> HIDE DEF m
  <2>2. a = m * (a \div m) + (a % m) /\ a % m \in Nat /\ a % m < m /\ a \div m \in Int
    BY <2>1, RestIs
  <2> QED
    BY <2>2 DEF m
<1> HIDE DEF r
<1>2. q \in Nat
  <2>1. \A k \in Int : k <= -1 => (2 * c) * k <= -(2 * c)
    OBVIOUS
  <2> QED
    BY <1>1, <2>1
<1> DEFINE p == q * c
<1>3. p \in Nat /\ p >= q /\ a = 2 * p + r
  <2>1. (2 * c) * q = 2 * (q * c)
    BY <1>2
  <2>2. q * c >= q /\ q * c \in Nat
    BY <1>2
  <2> QED
    BY <1>1, <2>1, <2>2
<1>4. (2 * q) * c = 2 * p
  BY <1>2
<1>5. c * (2 * q) = 2 * p /\ c * (2 * q + 1) = 2 * p + c
  BY <1>2
<1> HIDE DEF p
<1>14. r \in Nat /\ r < 2 * c /\ q \in Nat
  BY <1>1, <1>2
<1>6. HalfOfWords \in Nat /\ HalfOfWords >= 32 /\ Modulus = 2 * HalfOfWords
  BY Sizes
<1>7. multiply(2, q) = 2 * q /\ 2 * q \in Word /\ 2 * q < HalfOfWords
  <2>1. 2 * q < HalfOfWords /\ 2 * q \in Nat /\ q < HalfOfWords /\ 2 * q < Modulus
    BY <1>3, <1>6, <1>14
  <2>2. 2 \in Word /\ q \in Word /\ 2 * q \in Word
    BY <1>14, <2>1, SmallWord, SmallWords
  <2> QED
    BY <2>1, <2>2, SmallProduct
<1>8. multiply(2 * q, c) = 2 * p /\ 2 * p \in Word
  <2>1. c \in Word /\ c \in Nat
    BY <1>6, SmallWord
  <2>2. 2 * p \in Nat /\ 2 * p < HalfOfWords
    BY <1>3, <1>6, <1>14
  <2>3. (2 * q) * c < Modulus
    BY <1>4, <1>6, <2>2
  <2> QED
    BY <1>4, <1>7, <2>1, <2>2, <2>3, SmallProduct, SmallWord
<1>9. Sub(a, 2 * p) = r
  <2>1. a - 2 * p = r /\ r >= 0 /\ r < 2 * HalfOfWords
    BY <1>3, <1>6, <1>14
  <2> QED
    BY <1>6, <1>14, <2>1 DEF Sub, Wrap
<1>10. odd(a, q, c) <=> c <= r
  <2>1. r < HalfOfWords /\ c < HalfOfWords /\ r \in Nat /\ c \in Nat
    BY <1>3, <1>6, <1>14
  <2>2. Less(r, c) <=> r < c
    BY <2>1, LessSmall
  <2> QED
    BY <1>7, <1>8, <1>9, <2>1, <2>2 DEF odd
<1>11. Doubled(a, q, c) = IF c <= r THEN 2 * q + 1 ELSE 2 * q
  <2>1. Add(2 * q, 1) = 2 * q + 1
    BY <1>2, <1>6, <1>7 DEF Add, Wrap
  <2> QED
    BY <1>7, <1>10, <2>1 DEF Doubled
<1>12. CASE c <= r
  <2>1. r - c \in Nat /\ r - c < c /\ 2 * q + 1 \in Nat
    BY <1>14, <1>12
  <2>2. a = c * (2 * q + 1) + (r - c)
    BY <1>3, <1>5, <1>14
  <2>3. a \div c = 2 * q + 1
    BY <2>1, <2>2, QuotientIs
  <2>4. 2 * q + 1 <= a
    BY <1>3, <1>12, <1>14
  <2> QED
    BY <1>11, <1>12, <2>1, <2>3, <2>4
<1>13. CASE ~(c <= r)
  <2>1. r < c /\ 2 * q \in Nat
    BY <1>14, <1>13
  <2>2. a = c * (2 * q) + r
    BY <1>3, <1>5
  <2>3. a \div c = 2 * q
    BY <1>14, <2>1, <2>2, QuotientIs
  <2>4. 2 * q <= a
    BY <1>3, <1>14
  <2> QED
    BY <1>11, <1>13, <2>1, <2>3, <2>4
<1> QED
  BY <1>12, <1>13

(* divide is the integer part of the quotient wherever the doubled divisor  *)
(* exceeds the dividend also when it overflows.                            *)
LEMMA DivideIs ==
  ASSUME NEW x \in Word, NEW y \in Word, Divisible(x, y)
  PROVE  divide(x, y) = IntegerPart(x, y)
<1> DEFINE a == Magnitude(x)
           b == Magnitude(y)
<1>1. a \in Nat /\ a < HalfOfWords /\ b \in Nat \ {0} /\ b < HalfOfWords /\ abs(x) = a /\ abs(y) = b
  BY DivisibleTyped, AbsIs
<1>2. PICK D \in 0 .. Bits : IsDepth(D, a, b)
  BY DepthExists
<1> DEFINE calls == Calls(x, y)
           returned[n \in 0 .. Len(calls) - 1] ==
             IF n = 0 THEN IF IsLast(Last(calls)) THEN 0 ELSE Endless
             ELSE LET q    == returned[n - 1]
                      args == calls[Len(calls) - n]
                  IN IF q = Endless THEN Endless
                     ELSE multiply(multiply(IF odd(abs(args[1]), q, abs(args[2])) THEN Add(multiply(2, q), 1)
                                                                                 ELSE multiply(2, q),
                                            Sign(args[1])), Sign(args[2]))
<1>3. divide(x, y) = IF Endless \in {x, y} THEN Endless ELSE returned[Len(calls) - 1]
  BY DEF divide, Returned
<1>4. /\ Len(calls) = D + 1 /\ calls[1] = <<x, y>>
      /\ \A i \in 2 .. D + 1 : calls[i] = <<a, b * TwoTo[i - 1]>>
      /\ IsLast(Last(calls))
  BY <1>2, CallsAre
<1> DEFINE After(q, n) ==
             IF q = Endless THEN Endless
             ELSE multiply(multiply(Doubled(abs(calls[D + 1 - n][1]), q, abs(calls[D + 1 - n][2])),
                                    Sign(calls[D + 1 - n][1])), Sign(calls[D + 1 - n][2]))
           G == [n \in 1 .. D |-> [q \in Word |-> After(q, n)]]
           first == IF IsLast(Last(calls)) THEN 0 ELSE Endless
<1> HIDE DEF calls
<1>5. ASSUME NEW i \in 1 .. D
      PROVE  /\ calls[i][1] \in Word /\ calls[i][2] \in Word
             /\ abs(calls[i][1]) = a /\ abs(calls[i][2]) = b * TwoTo[i - 1]
             /\ b * TwoTo[i - 1] \in Nat /\ b * TwoTo[i - 1] < HalfOfWords
  <2>1. b * TwoTo[i - 1] \in Nat /\ b * TwoTo[i - 1] < HalfOfWords
    <3>1. i - 1 \in Nat /\ i - 1 < D /\ i - 1 <= D
      OBVIOUS
    <3>2. b * TwoTo[i - 1] \in Nat /\ b * TwoTo[i - 1] <= a
      BY <1>2, <3>1 DEF IsDepth
    <3> QED
      BY <1>1, <3>2, Sizes
  <2>2. CASE i = 1
    <3>1. calls[i][1] = x /\ calls[i][2] = y
      BY <1>4, <2>2
    <3>2. TwoTo[i - 1] = 1 /\ b * 1 = b
      BY <1>1, <2>2, Powers
    <3> QED
      BY <1>1, <2>1, <3>1, <3>2
  <2>3. CASE i # 1
    <3>1. calls[i] = <<a, b * TwoTo[i - 1]>>
      BY <1>4, <2>3
    <3>2. calls[i][1] = a /\ calls[i][2] = b * TwoTo[i - 1]
      BY <3>1
    <3> QED
      BY <1>1, <2>1, <3>2, SmallWord
  <2> QED
    BY <2>2, <2>3
<1>6. first = 0
  BY <1>4
<1>7. ASSUME NEW n \in 1 .. D, NEW q \in Word PROVE After(q, n) \in Word
  <2>1. D + 1 - n \in 1 .. D /\ q # Endless
    BY WordNumber DEF Endless
  <2> DEFINE i == D + 1 - n
  <2>2. calls[i][1] \in Word /\ calls[i][2] \in Word
    BY <1>5, <2>1
  <2> HIDE DEF i
  <2>3. Doubled(abs(calls[i][1]), q, abs(calls[i][2])) \in Word
    BY SmallWords, MultiplyIsProduct, WordSums DEF Doubled
  <2>4. Sign(calls[i][1]) \in Word /\ Sign(calls[i][2]) \in Word
    BY SmallWords, WordSums DEF Sign
  <2>5. multiply(multiply(Doubled(abs(calls[i][1]), q, abs(calls[i][2])), Sign(calls[i][1])), Sign(calls[i][2])) \in Word
    BY <2>3, <2>4, MultiplyIsProduct
  <2> QED
    BY <2>1, <2>5 DEF i
<1>8. G \in [1 .. D -> [Word -> Word]]
  BY <1>7
<1>9. \A n \in 1 .. D : \A q \in Word : G[n][q] = After(q, n)
  OBVIOUS
<1> HIDE DEF G, After, first
<1>10. PICK f \in [0 .. D -> Word] : Iterates(f, 0 .. D, 0, G)
  <2>1. D \in Nat /\ 0 \in Word
    BY SmallWords
  <2> QED
    BY <1>8, <2>1, BoundedLoop
<1>11. f = [n \in 0 .. D |-> IF n = 0 THEN first ELSE After(f[n - 1], n)]
  <2>1. \A n \in 0 .. D : n # 0 => n \in 1 .. D /\ n - 1 \in 0 .. D /\ f[n - 1] \in Word
    BY <1>10
  <2> QED
    BY <1>6, <1>9, <1>10, <2>1 DEF Iterates
<1>12. D = Len(calls) - 1 /\ \A n \in 0 .. D : D + 1 - n = Len(calls) - n
  BY <1>4
<1>13. f = [n \in 0 .. Len(calls) - 1 |->
             IF n = 0 THEN IF IsLast(Last(calls)) THEN 0 ELSE Endless
             ELSE LET q    == f[n - 1]
                      args == calls[Len(calls) - n]
                  IN IF q = Endless THEN Endless
                     ELSE multiply(multiply(IF odd(abs(args[1]), q, abs(args[2])) THEN Add(multiply(2, q), 1)
                                                                                 ELSE multiply(2, q),
                                            Sign(args[1])), Sign(args[2]))]
  BY <1>11, <1>12, ZenonT(60) DEF first, After, Doubled
<1>14. returned = [n \in 0 .. D |-> IF n = 0 THEN first ELSE After(returned[n - 1], n)]
  BY <1>12, <1>13, ZenonT(60) DEF returned, first, After, Doubled
<1> HIDE DEF returned
<1> DEFINE Quot(n) == a \div (b * TwoTo[D - n])
           Inv(n, v) ==
             /\ v \in Word
             /\ n < D => v = Quot(n)
             /\ n = D => v = IntegerPart(x, y)
           S == {n \in 0 .. D : Inv(n, returned[n])}
<1>15. 0 \in S
  <2>1. returned[0] = 0 /\ 0 \in Word /\ 0 \in 0 .. D
    BY <1>6, <1>14, SmallWords
  <2>2. a < b * TwoTo[D] /\ b * TwoTo[D] \in Nat
    BY <1>2 DEF IsDepth
  <2>3. \A m \in Nat : a < m => a \div m = 0
    <3> TAKE m \in Nat
    <3>1. HAVE a < m
    <3>2. a = m * 0 + a
      BY <1>1
    <3> QED
      BY <1>1, <3>1, <3>2, QuotientIs
  <2>4. Quot(0) = 0
    BY <2>2, <2>3
  <2>5. 0 = D => IntegerPart(x, y) = 0
    <3>1. HAVE 0 = D
    <3>5. TwoTo[0] = 1 /\ b * 1 = b
      BY <1>1, PowerZero
    <3>2. b * TwoTo[D] = b
      BY <3>1, <3>5
    <3>3. a \div b = 0
      BY <1>1, <2>2, <2>3, <3>2
    <3>6. 0 \in Word
      BY SmallWords
    <3>4. AsWord(0) = 0
      BY <3>6, AsWordOfWord
    <3>7. \A z \in Int : -z = 0 - z
      OBVIOUS
    <3>9. a \div b \in Int
      BY <1>1
    <3>8. -(a \div b) = 0
      BY <3>3, <3>7, <3>9
    <3> QED
      BY <3>3, <3>4, <3>8 DEF IntegerPart
  <2> HIDE DEF Quot
  <2> QED
    BY <2>1, <2>4, <2>5
<1>16. ASSUME NEW n \in S, n < D PROVE n + 1 \in S
  <2> DEFINE i == D - n
             c == b * TwoTo[i - 1]
             q == returned[n]
             v == a \div c
  <2>1. n \in Nat /\ n + 1 \in 0 .. D /\ n + 1 \in 1 .. D /\ i \in 1 .. D /\ i \in Nat /\ D + 1 - (n + 1) = i /\ q = Quot(n) /\ q \in Word
    BY <1>16
  <2>2. returned[n + 1] = After(q, n + 1)
    BY <1>14, <2>1
  <2>3. i - 1 \in Nat /\ i = (i - 1) + 1 /\ i <= D /\ D - (n + 1) = i - 1
    BY <2>1, <1>16
  <2> HIDE DEF q, i
  <2>4. calls[i][1] \in Word /\ calls[i][2] \in Word /\ abs(calls[i][1]) = a /\ abs(calls[i][2]) = c /\ c \in Nat /\ c < HalfOfWords
    BY <1>5, <2>1
  <2>5. c > 0 /\ 2 * c = b * TwoTo[i]
    <3>1. TwoTo[i - 1] \in Nat \ {0} /\ TwoTo[i] = 2 * TwoTo[i - 1]
      BY <2>3, Powers
    <3>3. \A t \in Nat \ {0} : b * t > 0 /\ 2 * (b * t) = b * (2 * t)
      BY <1>1
    <3> QED
      BY <3>1, <3>3
  <2>6. q = a \div (2 * c)
    BY <2>1, <2>5 DEF i
  <2>7. Doubled(a, q, c) = v /\ v \in Nat /\ v <= a
    <3>1. c \in Nat \ {0}
      BY <2>4, <2>5
    <3> HIDE DEF c
    <3> QED
      BY <1>1, <2>4, <2>5, <2>6, <3>1, DoubledIs
  <2>8. returned[n + 1] = multiply(multiply(v, Sign(calls[i][1])), Sign(calls[i][2]))
    <3>1. q # Endless
      BY <2>1, WordNumber DEF Endless
    <3> QED
      BY <2>1, <2>2, <2>4, <2>7, <3>1 DEF After
  <2>9. v = Quot(n + 1)
    BY <2>3
  <2> HIDE DEF c, v
  <2>10. v \in Word /\ v < HalfOfWords
    <3>1. a \in Nat /\ a < HalfOfWords
      BY <1>1
    <3> HIDE DEF a
    <3>2. v \in Nat /\ v < HalfOfWords
      BY <2>7, <3>1, Sizes
    <3> QED
      BY <3>2, SmallWord
  <2>11. CASE n + 1 < D
    <3>1. i \in 2 .. D + 1
      BY <2>1, <2>3, <2>11 DEF i
    <3>2. calls[i] = <<a, c>>
      BY <1>4, <3>1 DEF c
    <3>3. calls[i][1] = a /\ calls[i][2] = c
      BY <3>2
    <3>4. Sign(a) = 1 /\ Sign(c) = 1
      BY <1>1, <2>4, SmallWord
    <3>5. multiply(v, 1) = v
      <4>1. v * 1 = v /\ v < Modulus
        BY <2>7, <2>10, Sizes
      <4> QED
        BY <2>10, <4>1, SmallWords, SmallProduct
    <3>6. returned[n + 1] = v
      BY <2>8, <3>3, <3>4, <3>5
    <3> HIDE DEF Quot
    <3> QED
      BY <2>1, <2>9, <2>10, <2>11, <3>6
  <2>12. CASE n + 1 = D
    <3>1. i = 1 /\ TwoTo[i - 1] = 1
      <4>1. i = 1 /\ i - 1 = 0
        BY <2>1, <2>12 DEF i
      <4> QED
        BY <4>1, PowerZero
    <3>2. calls[i][1] = x /\ calls[i][2] = y
      BY <1>4, <3>1
    <3>3. v = a \div b
      BY <1>1, <3>1 DEF v, c
    <3> DEFINE sx == IF Signed(x) < 0 THEN -1 ELSE 1
               sy == IF Signed(y) < 0 THEN -1 ELSE 1
    <3>4. sx \in Int /\ sy \in Int /\ Sign(x) \in Word /\ Sign(y) \in Word /\ Same(Sign(x), sx) /\ Same(Sign(y), sy)
      BY <1>1, AbsIs
    <3>5. (v * sx) * sy = IF (Signed(x) < 0) = (Signed(y) < 0) THEN v ELSE -v
      BY <2>7
    <3> HIDE DEF sx, sy
    <3>6. multiply(v, Sign(x)) = AsWord(v * sx)
      <4>1. v \in Int /\ Same(v, v) /\ v \in Word
        BY <2>7, <2>10, SameRefl
      <4>2. sx \in Int /\ Sign(x) \in Word /\ Same(Sign(x), sx)
        BY <3>4
      <4> QED
        BY ONLY <4>1, <4>2, MultiplyIs, ZenonT(60)
    <3>7. v * sx \in Int /\ (v * sx) * sy \in Int
      BY <2>7, <3>4
    <3>8. AsWord(v * sx) \in Word /\ AsWord(v * sx) \in Int /\ Same(AsWord(v * sx), v * sx)
      BY <3>7, AsWordSame, SameSym, WordNumber
    <3>9. multiply(AsWord(v * sx), Sign(y)) = AsWord((v * sx) * sy)
      BY <3>4, <3>7, <3>8, MultiplyIs
    <3>10. returned[n + 1] = AsWord((v * sx) * sy)
      BY <2>8, <3>2, <3>6, <3>9
    <3>11. returned[n + 1] = IntegerPart(x, y)
      BY <3>3, <3>5, <3>10 DEF IntegerPart
    <3>12. returned[n + 1] \in Word
      BY <3>7, <3>10, AsWordSame
    <3> QED
      BY <2>1, <2>12, <3>11, <3>12
  <2> QED
    BY <2>1, <2>11, <2>12
<1>17. Inv(D, returned[D])
  <2> HIDE DEF Inv
  <2>1. S \in SUBSET (0 .. D) /\ D \in Nat
    OBVIOUS
  <2> HIDE DEF S
  <2>2. \A n \in 0 .. D : n \in S
    BY <1>15, <1>16, <2>1, AllRounds
  <2> USE DEF S
  <2> QED
    BY <2>1, <2>2
<1>18. Endless \notin {x, y}
  BY WordNumber DEF Endless
<1> QED
  BY <1>3, <1>12, <1>17, <1>18

-----------------------------------------------------------------------------
(* A square fits when it is at most the number: one that overflows into a   *)
(* negative word does not.                                                 *)
LEMMA FitsIs ==
  ASSUME NEW a \in Nat, a < HalfOfWords, NEW sq \in Nat \ {0}, sq < Modulus
  PROVE  fits(sq, a) <=> sq <= a
<1>1. HalfOfWords \in Nat /\ HalfOfWords >= 32 /\ Modulus = 2 * HalfOfWords
  BY Sizes
<1>2. CASE sq < HalfOfWords
  <2>1. Greater(sq, 0) <=> sq > 0
    BY <1>1, <1>2, GreaterSmall
  <2>2. Less(sq, a) <=> sq < a
    BY <1>2, LessSmall
  <2> QED
    BY <2>1, <2>2 DEF fits
<1>3. CASE sq >= HalfOfWords
  <2>1. CASE sq = HalfOfWords
    <3>1. ~Less(sq, a)
      BY <1>1, <2>1 DEF Less, IsPositive, Sub, Wrap
    <3> QED
      BY <1>1, <2>1, <3>1 DEF fits
  <2>2. CASE sq > HalfOfWords
    <3>1. ~Greater(sq, 0)
      BY <1>1, <2>2 DEF Greater, IsNegative, Sub, Wrap
    <3> QED
      BY <1>1, <2>2, <3>1 DEF fits
  <2> QED
    BY <1>1, <1>3, <2>1, <2>2
<1> QED
  BY <1>1, <1>2, <1>3

(* sqrt is the integer root.                                               *)
LEMMA SqrtIs ==
  ASSUME NEW x \in Word
  PROVE  IsRoot(sqrt(x), x)
<1> DEFINE a == Magnitude(x)
           h == Bits \div 2
<1> SUFFICES ASSUME a < HalfOfWords
             PROVE  sqrt(x) * sqrt(x) <= a /\ a < (sqrt(x) + 1) * (sqrt(x) + 1)
  BY DEF IsRoot
<1>1. a \in Nat /\ abs(x) = a
  BY MagnitudeIs, AbsIs
<1>2. h \in Nat /\ h >= 3 /\ Bits = h + h
  BY BitsAssumption
<1>3. HalfOfWords \in Nat /\ HalfOfWords >= 32 /\ Modulus = 2 * HalfOfWords
  BY Sizes
<1>4. TwoTo[h] \in Nat /\ TwoTo[h] * TwoTo[h] = Modulus /\ TwoTo[h] <= HalfOfWords
  <2>1. TwoTo[h + h] = TwoTo[h] * TwoTo[h]
    BY <1>2, PowerOfSum
  <2>2. TwoTo[Bits] = Modulus
    BY Sizes
  <2>3. h <= Bits - 1 /\ Bits - 1 \in Nat
    BY <1>2
  <2>4. TwoTo[h] <= TwoTo[Bits - 1] /\ TwoTo[h] \in Nat
    BY <1>2, <2>3, PowersGrow, Powers
  <2> QED
    BY <1>2, <2>1, <2>2, <2>4 DEF HalfOfWords
<1> DEFINE root[n \in 0 .. Bits \div 2] ==
             IF n = 0 THEN 0
             ELSE LET y == root[n - 1]
                      s == Add(y, TwoTo[Bits \div 2 - n])
                  IN IF fits(multiply(s, s), abs(x)) THEN s ELSE y
           After(y, n) == IF fits(multiply(Add(y, TwoTo[Bits \div 2 - n]), Add(y, TwoTo[Bits \div 2 - n])), abs(x))
                          THEN Add(y, TwoTo[Bits \div 2 - n]) ELSE y
           G == [n \in 1 .. h |-> [y \in Word |-> After(y, n)]]
<1>5. ASSUME NEW n \in 1 .. h PROVE h - n \in Nat /\ TwoTo[h - n] \in Nat \ {0} /\ TwoTo[h - n] \in Word
  <2>1. h - n \in Nat /\ h - n <= h
    BY <1>2
  <2>2. TwoTo[h - n] \in Nat \ {0} /\ TwoTo[h - n] <= TwoTo[h]
    BY <1>2, <2>1, PowersGrow, Powers
  <2> QED
    BY <1>3, <1>4, <2>1, <2>2, Sizes
<1>6. ASSUME NEW n \in 1 .. h, NEW y \in Word PROVE After(y, n) \in Word
  <2>1. Add(y, TwoTo[h - n]) \in Word
    BY <1>5, WordSums
  <2> QED
    BY <2>1
<1>7. G \in [1 .. h -> [Word -> Word]]
  BY <1>6
<1>8. \A n \in 1 .. h : \A y \in Word : G[n][y] = After(y, n)
  OBVIOUS
<1> HIDE DEF G, After
<1>9. PICK f \in [0 .. h -> Word] : Iterates(f, 0 .. h, 0, G)
  <2>1. 0 \in Word
    BY SmallWords
  <2> HIDE DEF h
  <2> QED
    BY <1>2, <1>7, <2>1, BoundedLoop
<1>10. f = [n \in 0 .. h |-> IF n = 0 THEN 0 ELSE After(f[n - 1], n)]
  <2>1. \A n \in 0 .. h : n # 0 => n \in 1 .. h /\ n - 1 \in 0 .. h /\ f[n - 1] \in Word
    BY <1>2, <1>9
  <2> QED
    BY <1>8, <1>9, <2>1 DEF Iterates
<1>11. root = [n \in 0 .. h |-> IF n = 0 THEN 0 ELSE After(root[n - 1], n)]
  BY <1>10 DEF root, After
<1>12. sqrt(x) = root[h]
  BY DEF sqrt
<1> HIDE DEF root, h, a
<1> DEFINE Inv(n, y) ==
             /\ y \in Nat /\ y * y <= a /\ a < (y + TwoTo[h - n]) * (y + TwoTo[h - n])
             /\ y + TwoTo[h - n] <= TwoTo[h]
           S == {n \in 0 .. h : Inv(n, root[n])}
<1>13. 0 \in S
  <2>1. root[0] = 0 /\ h - 0 = h /\ 0 \in 0 .. h
    BY <1>2, <1>11
  <2>2. 0 + TwoTo[h] = TwoTo[h] /\ 0 * 0 = 0 /\ a < TwoTo[h] * TwoTo[h]
    BY <1>1, <1>3, <1>4 DEF a
  <2>3. Inv(0, 0)
    BY <1>1, <1>4, <2>1, <2>2
  <2> HIDE DEF Inv
  <2> QED
    BY <2>1, <2>3
<1>14. ASSUME NEW n \in S, n < h PROVE n + 1 \in S
  <2> DEFINE y == root[n]
             t == TwoTo[h - (n + 1)]
             s == y + t
  <2>1. n \in Nat /\ n + 1 \in 0 .. h /\ n + 1 \in 1 .. h /\ Inv(n, y)
    BY <1>2, <1>14
  <2>2. root[n + 1] = After(y, n + 1)
    BY <1>11, <2>1
  <2>3. t \in Nat \ {0} /\ t \in Word /\ TwoTo[h - n] = 2 * t
    <3>1. h - n = (h - (n + 1)) + 1 /\ h - (n + 1) \in Nat
      BY <1>2, <2>1
    <3> QED
      BY <1>5, <2>1, <3>1, Powers
  <2>4. y \in Nat /\ y * y <= a /\ a < (y + 2 * t) * (y + 2 * t) /\ y + 2 * t <= TwoTo[h]
    BY <2>1, <2>3
  <2> HIDE DEF y, t
  <2>5. s \in Nat \ {0} /\ s < TwoTo[h] /\ y + 2 * t = s + t
    BY <1>4, <2>3, <2>4
  <2>6. s < HalfOfWords /\ y < HalfOfWords
    BY <1>3, <1>4, <2>3, <2>4
  <2>7. s * s < Modulus /\ s * s \in Nat \ {0}
    <3>1. \A u, v \in Nat : u < v => u * u < v * v
      <4> SUFFICES ASSUME NEW u \in Nat, NEW v \in Nat, u < v PROVE u * u < v * v
        OBVIOUS
      <4>1. u * u <= u * v /\ u * v < v * v
        OBVIOUS
      <4> QED
        BY <4>1
    <3>2. s \in Nat /\ s * s \in Nat \ {0}
      BY <2>5
    <3> QED
      BY <1>4, <2>5, <3>1, <3>2
  <2>8. Add(y, t) = s /\ s \in Word /\ y \in Word
    <3>1. s \in Nat /\ y \in Nat
      BY <2>4, <2>5
    <3>2. s \in Word /\ y \in Word
      BY <2>6, <3>1, SmallWord
    <3>3. Wrap(s) = s
      <4>1. s < Modulus
        BY <1>3, <2>6, <3>1, Sizes
      <4> HIDE DEF s
      <4> QED
        BY <3>1, <4>1, Sizes DEF Wrap
    <3>4. Add(y, t) = Wrap(s)
      BY DEF Add
    <3> QED
      BY <3>2, <3>3, <3>4
  <2> HIDE DEF s
  <2>9. multiply(s, s) = s * s
    BY <2>7, <2>8, SmallProduct
  <2>10. fits(multiply(s, s), abs(x)) <=> s * s <= a
    <3>1. \A sq \in Nat \ {0} : sq < Modulus => (fits(sq, a) <=> sq <= a)
      BY <1>1, FitsIs DEF a
    <3> QED
      BY <1>1, <2>7, <2>9, <3>1
  <2>11. root[n + 1] = IF s * s <= a THEN s ELSE y
    BY <2>2, <2>8, <2>10 DEF After, t, h
  <2>12. CASE s * s <= a
    <3>1. root[n + 1] = s /\ a < (s + t) * (s + t) /\ s + t <= TwoTo[h] /\ s \in Nat
      BY <2>4, <2>5, <2>11, <2>12
    <3>2. Inv(n + 1, s)
      BY <2>12, <3>1 DEF t
    <3> HIDE DEF Inv
    <3> QED
      BY <2>1, <3>1, <3>2
  <2>13. CASE ~(s * s <= a)
    <3>1. root[n + 1] = y /\ s = y + t
      BY <2>11, <2>13 DEF s
    <3>4. a < s * s
      BY <1>1, <2>7, <2>13
    <3>5. s <= TwoTo[h]
      BY <1>4, <2>5
    <3>2. a < (y + t) * (y + t) /\ y + t <= TwoTo[h]
      BY <3>1, <3>4, <3>5
    <3>3. Inv(n + 1, y)
      BY <2>4, <3>2 DEF t
    <3> HIDE DEF Inv
    <3> QED
      BY <2>1, <3>1, <3>3
  <2> QED
    BY <2>12, <2>13
<1>15. Inv(h, root[h])
  <2> HIDE DEF Inv
  <2>1. S \in SUBSET (0 .. h)
    OBVIOUS
  <2> HIDE DEF S
  <2>2. \A n \in 0 .. h : n \in S
    BY <1>2, <1>13, <1>14, <2>1, AllRounds
  <2> USE DEF S
  <2> QED
    BY <1>2, <2>2
<1>16. h - h = 0 /\ TwoTo[0] = 1
  BY <1>2, PowerZero
<1> QED
  BY <1>12, <1>15, <1>16

-----------------------------------------------------------------------------
(* The cursor.  One step back from the left end leaves the row of the       *)
(* cursor, also the first one; the character printed there leads back.     *)
Screen == (0 .. Cols - 1) \X (0 .. Rows - 1)
Beside == (0 .. Cols - 1) \X (-1 .. Rows - 1)

LEMMA PrintedOnScreen == \A c \in Screen : printChar(c) \in Screen
BY ConsoleAssumption DEF Screen, printChar, incrementCursor

LEMMA BackIsBeside ==
  \A c \in Screen : /\ decreaseCursor(c) \in Beside
                    /\ decreaseCursor(c)[2] = -1 => decreaseCursor(c)[1] = Cols - 1
BY ConsoleAssumption DEF Screen, Beside, decreaseCursor

LEMMA ReturnsToScreen ==
  \A c \in Beside : (c[2] = -1 => c[1] = Cols - 1) => printChar(c) \in Screen
BY ConsoleAssumption DEF Screen, Beside, printChar, incrementCursor

LEMMA BackSpaceOnScreen == \A c \in Screen : printChar(backSpace_(c)) \in Screen
<1> TAKE c \in Screen
<1>1. printChar(decreaseCursor(c)) \in Screen
  BY BackIsBeside, ReturnsToScreen
<1> DEFINE d == printChar(decreaseCursor(c))
<1> HIDE DEF d
<1>2. d \in Screen => printChar(decreaseCursor(d)) \in Screen
  BY BackIsBeside, ReturnsToScreen
<1> QED
  BY <1>1, <1>2 DEF backSpace_, d

LEMMA MessageOnScreen == \A c \in Screen : \A n \in Nat : Printed(c, n) \in Screen
<1> TAKE c \in Screen
<1> TAKE n \in Nat
<1> DEFINE at[k \in 0 .. n] == IF k = 0 THEN c ELSE printChar(at[k - 1])
           G == [k \in 1 .. n |-> [d \in Screen |-> printChar(d)]]
<1>1. G \in [1 .. n -> [Screen -> Screen]]
  BY PrintedOnScreen
<1>2. \A k \in 1 .. n : \A d \in Screen : G[k][d] = printChar(d)
  OBVIOUS
<1> HIDE DEF G
<1>3. PICK f \in [0 .. n -> Screen] : Iterates(f, 0 .. n, c, G)
  BY <1>1, BoundedLoop
<1>4. f = [k \in 0 .. n |-> IF k = 0 THEN c ELSE printChar(f[k - 1])]
  <2>1. \A k \in 0 .. n : k # 0 => k \in 1 .. n /\ k - 1 \in 0 .. n /\ f[k - 1] \in Screen
    BY <1>3
  <2> QED
    BY <1>2, <1>3, <2>1 DEF Iterates
<1> DEFINE Runs(h) == h = [k \in 0 .. n |-> IF k = 0 THEN c ELSE printChar(h[k - 1])]
<1>5. Runs(at)
  <2>1. Runs(f)
    BY <1>4
  <2> QED
    BY <2>1 DEF at
<1>6. Printed(c, n) = at[n]
  BY DEF Printed
<1> HIDE DEF at
<1> DEFINE S == {k \in 0 .. n : at[k] \in Screen}
<1>7. 0 \in S /\ \A k \in S : k < n => k + 1 \in S
  BY <1>5, PrintedOnScreen
<1>8. S \in SUBSET (0 .. n)
  OBVIOUS
<1> HIDE DEF S
<1>9. \A k \in 0 .. n : k \in S
  BY <1>7, <1>8, AllRounds
<1> USE DEF S
<1> QED
  BY <1>6, <1>9

-----------------------------------------------------------------------------
(* What a session is.                                                      *)
IsSession ==
  /\ session \in Sessions
  /\ plan \in Seq(Nat \ {0}) /\ patient \in BOOLEAN
  /\ session.start \in Screen
  /\ operandX \in Word /\ operandY \in Word

LEMMA SessionIs == session \in Sessions => IsSession
<1> SUFFICES ASSUME session \in Sessions PROVE IsSession
  OBVIOUS
<1>1. session \in Session
  BY SessionsAssumption
<1> QED
  BY <1>1 DEF IsSession, Session, plan, patient, Screen, operandX, operandY

LEMMA SessionSteps == ASSUME [Next]_vars PROVE session' = session
BY DEF Next, vars, Press, Release, Program, readLine, KeyDown, KeyUp, Waits, Finished

(* The type invariant, and what it needs to be inductive: where the cursor  *)
(* is, and of which keys the history consists.                             *)
Consistent ==
  /\ IsSession
  /\ TypeOK
  /\ seen \in Seq(Range(plan))
  /\ pc = "release" => seen # <<>>
  /\ cursor \in Screen

LEMMA PlanKeys == ASSUME IsSession PROVE
  /\ Range(plan) \subseteq Nat \ {0} /\ Len(plan) \in Nat
  /\ \A i \in 1 .. Len(plan) : plan[i] \in Range(plan)
BY DEF IsSession, Range

LEMMA TypedInit == Init => Consistent
<1> SUFFICES ASSUME Init PROVE Consistent
  OBVIOUS
<1>1. IsSession
  BY SessionIs DEF Init
<1>2. session.start = <<cursorX, cursorY>>
  BY <1>1 DEF Init, IsSession, Screen
<1>3. Len(plan) \in Nat
  BY <1>1 DEF IsSession
<1>4. TypeOK
  BY <1>3 DEF Init, TypeOK
<1> QED
  BY <1>1, <1>2, <1>4 DEF Init, Consistent, cursor, IsSession

LEMMA TypedNext == ASSUME Consistent, [Next]_vars PROVE Consistent'
<1>1. session' = session /\ plan' = plan /\ patient' = patient /\ IsSession'
  BY SessionSteps DEF Consistent, IsSession, plan, patient, operandX, operandY
<1>2. Range(plan) \subseteq Nat \ {0} /\ Len(plan) \in Nat /\ (\A i \in 1 .. Len(plan) : plan[i] \in Range(plan))
      /\ 0 \notin Range(plan)
  BY PlanKeys DEF Consistent
<1>3. cursor = <<cursorX, cursorY>> /\ cursor' = <<cursorX', cursorY'>>
  BY DEF cursor
<1>4. \A c \in Screen : CursorAt(c) => cursor' = c
  BY <1>3 DEF CursorAt, Screen
<1> USE DEF Consistent, TypeOK
<1>5. CASE Press
  <2>1. pressed' = pressed + 1 /\ pressed' \in 0 .. Len(plan) /\ pressed + 1 \in 1 .. Len(plan)
    BY <1>2, <1>5 DEF Press
  <2>2. key' \in Range(plan)
    BY <1>2, <1>5, <2>1 DEF Press
  <2>3. pc' = pc /\ char' = char /\ seen' = seen /\ cursor' = cursor
    BY <1>5 DEF Press
  <2> QED
    BY <1>1, <2>1, <2>2, <2>3
<1>6. CASE Release
  BY <1>1, <1>2, <1>3, <1>6 DEF Release
<1>7. CASE readLine
  <2>1. CursorAt(Printed(cursor, IF Loops THEN Message + 1 ELSE Message))
    BY <1>7 DEF readLine
  <2>2. (IF Loops THEN Message + 1 ELSE Message) \in Nat
    BY ConsoleAssumption
  <2>3. cursor' \in Screen
    BY <1>4, <2>1, <2>2, MessageOnScreen
  <2> QED
    BY <1>1, <1>7, <2>3 DEF readLine
<1>8. CASE KeyDown
  <2>1. key \in Range(plan) /\ seen' = Append(seen, key)
    BY <1>8 DEF KeyDown
  <2>2. seen' \in Seq(Range(plan)) /\ seen' # <<>> /\ Last(seen') = key
    <3>1. Len(seen') = Len(seen) + 1 /\ seen'[Len(seen) + 1] = key /\ seen' \in Seq(Range(plan)) /\ seen' # <<>>
      BY <2>1, AppendProperties
    <3> QED
      BY <3>1 DEF Last
  <2> QED
    BY <1>1, <1>3, <1>8, <2>1, <2>2 DEF KeyDown
<1>9. CASE KeyUp
  <2>1. Echo \in Screen
    BY PrintedOnScreen, BackSpaceOnScreen DEF Echo
  <2>2. printChar(Echo) \in Screen /\ printChar(printChar(backSpace_(Echo))) \in Screen
    BY <2>1, PrintedOnScreen, BackSpaceOnScreen
  <2>3. cursor' \in Screen
    BY <1>4, <1>9, <2>1, <2>2 DEF KeyUp
  <2>4. pc' \in {"done", "poll"}
    BY <1>9 DEF KeyUp
  <2> QED
    BY <1>1, <1>9, <2>3, <2>4 DEF KeyUp
<1>10. CASE UNCHANGED vars
  BY <1>1, <1>3, <1>10 DEF vars
<1> QED
  BY <1>5, <1>6, <1>7, <1>8, <1>9, <1>10 DEF Next, Program, Waits, Finished

LEMMA TypedAlways == Spec => []Consistent
BY TypedInit, TypedNext, PTL DEF Spec

(* Output.jack: the cursor rests on the screen.                            *)
THEOREM CursorStaysOnScreen == Spec => []CursorAtRest
<1>1. Consistent => CursorAtRest
  BY DEF Consistent, CursorAtRest, Screen, cursor
<1> QED
  BY <1>1, TypedAlways, PTL

(* Math.jack: the functions compute what they promise.                     *)
THEOREM MathIsRight == Spec => []MathRight
<1>1. Consistent => MathRight
  BY MultiplySigned, DivideIs, SqrtIs DEF Consistent, IsSession, MathRight
<1> QED
  BY <1>1, TypedAlways, PTL

-----------------------------------------------------------------------------
(* Keys.  The keys that were taken from the keyboard are some of those that *)
(* were pressed, in their order; a key that is down while it is polled was  *)
(* not taken.                                                              *)
Taken == IF pc = "poll" /\ key # 0 THEN pressed - 1 ELSE pressed

Chosen(s, n) ==
  \E at \in [1 .. Len(s) -> 1 .. n] :
    /\ \A i, j \in 1 .. Len(s) : i < j => at[i] < at[j]
    /\ \A i \in 1 .. Len(s) : s[i] = plan[at[i]]

Keyboard_ ==
  /\ key # 0 => pressed > 0 /\ key = plan[pressed]
  /\ pc = "start" => seen = <<>>
  /\ pc = "done" /\ Loops => seen # <<>> /\ Last(seen) = newLine
  /\ patient => /\ pc = "start" => pressed = 0
                /\ pc = "done" => key = 0
                /\ seen = SubSeq(plan, 1, Taken)
  /\ Chosen(seen, Taken)

LEMMA NoneChosen == \A n \in Nat : Chosen(<<>>, n)
<1> TAKE n \in Nat
<1>1. Len(<<>>) = 0
  OBVIOUS
<1> DEFINE at == [i \in 1 .. 0 |-> 1]
<1>2. at \in [1 .. 0 -> 1 .. n]
  OBVIOUS
<1>3. \A i \in 1 .. 0 : FALSE
  OBVIOUS
<1> HIDE DEF at
<1> QED
  BY <1>1, <1>2, <1>3 DEF Chosen

LEMMA MoreToChoose ==
  ASSUME NEW s, NEW m \in Int, NEW n \in Int, m <= n, Chosen(s, m) PROVE Chosen(s, n)
<1>1. PICK at \in [1 .. Len(s) -> 1 .. m] :
         /\ \A i, j \in 1 .. Len(s) : i < j => at[i] < at[j]
         /\ \A i \in 1 .. Len(s) : s[i] = plan[at[i]]
  BY DEF Chosen
<1>2. at \in [1 .. Len(s) -> 1 .. n]
  OBVIOUS
<1> QED
  BY <1>1, <1>2 DEF Chosen

LEMMA ChooseNext ==
  ASSUME NEW V, NEW s \in Seq(V), NEW n \in Nat, Chosen(s, n), plan[n + 1] \in V
  PROVE  Chosen(Append(s, plan[n + 1]), n + 1)
<1> DEFINE t == Append(s, plan[n + 1])
<1>1. PICK at \in [1 .. Len(s) -> 1 .. n] :
         /\ \A i, j \in 1 .. Len(s) : i < j => at[i] < at[j]
         /\ \A i \in 1 .. Len(s) : s[i] = plan[at[i]]
  BY DEF Chosen
<1>2. Len(s) \in Nat /\ Len(t) = Len(s) + 1 /\ (\A i \in 1 .. Len(s) : t[i] = s[i]) /\ t[Len(s) + 1] = plan[n + 1]
  BY AppendProperties, LenProperties
<1> HIDE DEF t
<1> DEFINE to == [i \in 1 .. Len(s) + 1 |-> IF i = Len(s) + 1 THEN n + 1 ELSE at[i]]
<1>3. to \in [1 .. Len(t) -> 1 .. n + 1]
  <2>1. \A i \in 1 .. Len(s) + 1 : i # Len(s) + 1 => i \in 1 .. Len(s) /\ at[i] \in 1 .. n + 1
    <3>1. \A i \in 1 .. Len(s) + 1 : i # Len(s) + 1 => i \in 1 .. Len(s)
      BY ONLY <1>2
    <3>2. \A i \in 1 .. Len(s) : at[i] \in 1 .. n + 1
      BY <1>1
    <3> QED
      BY <3>1, <3>2
  <2> QED
    BY <1>2, <2>1
<1>4. ASSUME NEW i \in 1 .. Len(t), NEW j \in 1 .. Len(t), i < j PROVE to[i] < to[j]
  <2>0. i \in Int /\ j \in Int /\ 1 <= i /\ i < j /\ j <= Len(s) + 1 /\ Len(s) \in Nat
    BY <1>2, <1>4
  <2>3. i \in 1 .. Len(s) /\ i # Len(s) + 1
    BY ONLY <2>0
  <2>1. i \in 1 .. Len(s) /\ at[i] \in 1 .. n /\ i # Len(s) + 1
    BY <2>3
  <2>2. CASE j = Len(s) + 1
    BY <1>2, <2>1, <2>2
  <2>4. CASE j \in 1 .. Len(s)
    BY <1>1, <1>2, <1>4, <2>1, <2>4
  <2>5. j = Len(s) + 1 \/ j \in 1 .. Len(s)
    BY ONLY <2>0
  <2> QED
    BY <2>2, <2>4, <2>5
<1>5. \A i \in 1 .. Len(t) : t[i] = plan[to[i]]
  BY <1>1, <1>2
<1> HIDE DEF to
<1> QED
  BY <1>3, <1>4, <1>5 DEF Chosen, t

LEMMA KeyboardInit == Init => Keyboard_
<1> SUFFICES ASSUME Init PROVE Keyboard_
  OBVIOUS
<1>1. IsSession
  BY SessionIs DEF Init
<1>2. Taken = 0 /\ seen = <<>> /\ pressed = 0 /\ key = 0 /\ pc = "start"
  BY DEF Init, Taken
<1>3. SubSeq(plan, 1, 0) = <<>>
  BY SubSeqEmpty
<1> QED
  BY <1>2, <1>3, NoneChosen DEF Keyboard_

LEMMA KeyboardNext == ASSUME Consistent, Consistent', Keyboard_, [Next]_vars PROVE Keyboard_'
<1>1. session' = session /\ plan' = plan /\ patient' = patient /\ IsSession
  BY SessionSteps DEF Consistent, IsSession, plan, patient
<1>2. \A s, n : Chosen(s, n)' <=> Chosen(s, n)
  BY <1>1 DEF Chosen
<1>3. pressed \in Nat /\ pressed <= Len(plan) /\ Len(plan) \in Nat /\ Taken \in Int /\ Taken <= pressed /\ seen \in Seq(Range(plan))
  BY PlanKeys DEF Consistent, TypeOK, Taken
<1>4. \A i \in 1 .. Len(plan) : plan[i] # 0 /\ plan[i] \in Range(plan)
  BY <1>1, PlanKeys
<1>5. Loops' = Loops
  BY DEF Loops
<1>6. CASE Press
  <2>1. pressed' = pressed + 1 /\ key' = plan[pressed'] /\ pc' = pc /\ seen' = seen /\ key' # 0 /\ pressed' \in Nat
    BY <1>3, <1>4, <1>6 DEF Press
  <2>2. Taken <= Taken' /\ Taken' \in Int /\ (patient => Taken' = Taken)
    BY <1>3, <1>6, <2>1 DEF Taken, Press
  <2>3. Chosen(seen, Taken')
    BY <1>3, <2>2, MoreToChoose DEF Keyboard_
  <2>4. Chosen(seen, Taken)'
    BY <1>2, <2>1, <2>3
  <2>5. patient => pc = "poll"
    BY <1>6 DEF Press
  <2>6. patient' => (pc' = "start" => pressed' = 0) /\ (pc' = "done" => key' = 0) /\ seen' = SubSeq(plan', 1, Taken')
    BY <1>1, <2>1, <2>2, <2>5 DEF Keyboard_
  <2>7. key' # 0 => pressed' > 0 /\ key' = plan'[pressed']
    BY <1>1, <1>3, <2>1
  <2> QED
    BY <1>5, <2>1, <2>4, <2>6, <2>7 DEF Keyboard_
<1>7. CASE Release
  <2>1. pressed' = pressed /\ key' = 0 /\ pc' = pc /\ seen' = seen
    BY <1>7 DEF Release
  <2>2. Taken <= Taken' /\ Taken' \in Int /\ (patient => Taken' = Taken)
    BY <1>3, <1>7, <2>1 DEF Taken, Release
  <2>3. Chosen(seen, Taken')
    BY <1>3, <2>2, MoreToChoose DEF Keyboard_
  <2>4. Chosen(seen, Taken)'
    BY <1>2, <2>1, <2>3
  <2> QED
    BY <1>1, <1>5, <2>1, <2>2, <2>4 DEF Keyboard_
<1>8. CASE readLine
  <2>1. pressed' = pressed /\ key' = key /\ pc = "start" /\ pc' = (IF Loops THEN "poll" ELSE "done") /\ seen' = seen /\ seen = <<>>
    BY <1>8 DEF readLine, Keyboard_
  <2>2. Taken' \in Nat
    BY <1>3, <2>1 DEF Taken, Keyboard_
  <2>3. Chosen(seen, Taken)'
    BY <1>2, <2>1, <2>2, NoneChosen
  <2>4. patient => pressed = 0 /\ key = 0
    BY <2>1 DEF Keyboard_
  <2>5. patient' => (pc' = "start" => pressed' = 0) /\ (pc' = "done" => key' = 0) /\ seen' = SubSeq(plan', 1, Taken')
    BY <1>1, <2>1, <2>4, SubSeqEmpty DEF Taken
  <2> QED
    BY <1>1, <1>5, <2>1, <2>3, <2>5 DEF Keyboard_
<1>9. CASE KeyDown
  <2>1. pressed' = pressed /\ key' = key /\ key # 0 /\ pc = "poll" /\ pc' = "release" /\ seen' = Append(seen, key)
    BY <1>9 DEF KeyDown
  <2>2. pressed > 0 /\ key = plan[pressed] /\ Taken = pressed - 1 /\ Taken' = pressed /\ Taken \in Nat /\ Taken + 1 = pressed
    BY <1>3, <2>1 DEF Keyboard_, Taken
  <2>3. plan[pressed] \in Range(plan)
    BY <1>3, <1>4, <2>2
  <2>4. Chosen(seen', Taken')
    <3>1. Chosen(Append(seen, plan[Taken + 1]), Taken + 1)
      BY <1>3, <2>2, <2>3, ChooseNext DEF Keyboard_
    <3> QED
      BY <2>1, <2>2, <3>1
  <2>5. Chosen(seen, Taken)'
    BY <1>2, <2>4
  <2>6. patient => seen' = SubSeq(plan, 1, pressed)
    <3>1. HAVE patient
    <3>2. seen = SubSeq(plan, 1, pressed - 1)
      BY <2>2, <3>1 DEF Keyboard_
    <3>3. pressed \in 1 .. Len(plan) /\ 1 \in 1 .. Len(plan) /\ plan \in Seq(Nat \ {0}) /\ pressed \in 1 .. Len(plan)
      BY <1>1, <1>3, <2>2 DEF IsSession
    <3>4. SubSeq(plan, 1, pressed) = SubSeq(plan, 1, pressed - 1) \o <<plan[pressed]>>
      BY <3>3, SubSeqRecursiveSecond
    <3>5. Append(seen, key) = seen \o <<key>>
      BY <1>3, <2>2, <2>3, AppendIsConcat
    <3> QED
      BY <2>1, <2>2, <3>2, <3>4, <3>5
  <2> QED
    BY <1>1, <1>5, <2>1, <2>2, <2>5, <2>6 DEF Keyboard_
<1>10. CASE KeyUp
  <2>1. pressed' = pressed /\ key' = key /\ key = 0 /\ pc = "release" /\ pc' \in {"poll", "done"} /\ seen' = seen
    BY <1>10 DEF KeyUp, no_key
  <2>2. Taken' = Taken
    BY <2>1 DEF Taken
  <2>3. Chosen(seen, Taken)'
    BY <1>2, <2>1, <2>2 DEF Keyboard_
  <2>4. pc' = "done" => seen' # <<>> /\ Last(seen') = newLine
    <3>1. pc' = "done" => char = newLine
      BY <1>10 DEF KeyUp
    <3> QED
      BY <2>1, <3>1 DEF Consistent, TypeOK
  <2> QED
    BY <1>1, <1>5, <2>1, <2>2, <2>3, <2>4 DEF Keyboard_
<1>11. CASE UNCHANGED vars
  <2>1. pressed' = pressed /\ key' = key /\ pc' = pc /\ seen' = seen
    BY <1>11 DEF vars
  <2>2. Taken' = Taken
    BY <2>1 DEF Taken
  <2>3. Chosen(seen, Taken)'
    BY <1>2, <2>1, <2>2 DEF Keyboard_
  <2> QED
    BY <1>1, <1>5, <2>1, <2>2, <2>3 DEF Keyboard_
<1> QED
  BY <1>6, <1>7, <1>8, <1>9, <1>10, <1>11 DEF Next, Program, Waits, Finished

LEMMA KeyboardAlways == Spec => [](Consistent /\ Keyboard_)
<1>1. Init => Consistent /\ Keyboard_
  BY TypedInit, KeyboardInit
<1>2. Consistent /\ Keyboard_ /\ [Next]_vars => (Consistent /\ Keyboard_)'
  BY TypedNext, KeyboardNext
<1> QED
  BY <1>1, <1>2, PTL DEF Spec

(* Keyboard.jack: no key is read twice or out of order, and every key of a  *)
(* patient user is read.                                                   *)
THEOREM EveryKeyOnce == Spec => []KeysRead
<1>1. ASSUME Consistent, Keyboard_ PROVE KeysRead
  <2>1. pressed \in Nat /\ pressed <= Len(plan) /\ Len(plan) \in Nat /\ Taken \in Int /\ Taken <= pressed /\ seen \in Seq(Range(plan)) /\ Taken >= 0
    BY <1>1, PlanKeys DEF Consistent, TypeOK, Taken, Keyboard_
  <2>2. plan \in Seq(Nat \ {0}) /\ patient \in BOOLEAN /\ DOMAIN seen = 1 .. Len(seen)
    BY <1>1, <2>1 DEF Consistent, IsSession
  <2> DEFINE t == SubSeq(plan, 1, pressed)
  <2>3. Len(t) = pressed /\ DOMAIN t = 1 .. pressed /\ \A i \in 1 .. pressed : t[i] = plan[i]
    <3>1. \A i \in 1 .. pressed : plan[i] \in Nat \ {0}
      BY <2>1, <2>2
    <3>2. t \in Seq(Nat \ {0}) /\ Len(t) = (IF 1 <= pressed THEN pressed - 1 + 1 ELSE 0)
           /\ \A i \in 1 .. pressed - 1 + 1 : t[i] = plan[1 + i - 1]
      BY <2>1, <3>1, SubSeqProperties
    <3>3. DOMAIN t = 1 .. Len(t)
      BY <3>2
    <3> HIDE DEF t
    <3> QED
      BY <2>1, <3>2, <3>3
  <2> HIDE DEF t
  <2>4. ~patient => IsSubsequence(seen, t)
    <3>1. Chosen(seen, pressed)
      BY <1>1, <2>1, MoreToChoose DEF Keyboard_
    <3>2. PICK at \in [1 .. Len(seen) -> 1 .. pressed] :
            /\ \A i, j \in 1 .. Len(seen) : i < j => at[i] < at[j]
            /\ \A i \in 1 .. Len(seen) : seen[i] = plan[at[i]]
      BY <3>1 DEF Chosen
    <3>3. at \in [DOMAIN seen -> DOMAIN t] /\ \A i, j \in DOMAIN seen : i < j => at[i] < at[j]
      BY <2>2, <2>3, <3>2
    <3>4. \A i \in DOMAIN seen : seen[i] = t[at[i]]
      BY <2>2, <2>3, <3>2
    <3> QED
      BY ONLY <3>3, <3>4 DEF IsSubsequence
  <2>5. patient => IsPrefix(seen, t)
    <3>1. HAVE patient
    <3>2. seen = SubSeq(plan, 1, Taken)
      BY <1>1, <3>1 DEF Keyboard_
    <3>3. \A i \in 1 .. Taken : plan[i] \in Nat \ {0}
      BY <2>1, <2>2
    <3>4. Len(seen) = (IF 1 <= Taken THEN Taken - 1 + 1 ELSE 0) /\ \A i \in 1 .. Taken - 1 + 1 : seen[i] = plan[1 + i - 1]
      BY <2>1, <3>2, <3>3, SubSeqProperties
    <3>5. Len(seen) = Taken /\ \A i \in 1 .. Len(seen) : seen[i] = t[i]
      BY <2>1, <2>3, <3>4
    <3>6. SubSeq(seen, 1, Len(seen)) = SubSeq(t, 1, Len(seen))
      BY <2>1, <3>5
    <3> QED
      BY <2>1, <2>3, <3>5, <3>6 DEF IsPrefix
  <2>6. patient /\ pc = "done" /\ Loops => seen = plan
    <3>1. HAVE patient /\ pc = "done" /\ Loops
    <3>2. seen = SubSeq(plan, 1, pressed) /\ seen # <<>> /\ Last(seen) = newLine
      BY <1>1, <3>1 DEF Keyboard_, Taken
    <3>3. seen = t
      BY <3>2 DEF t
    <3>4. pressed > 0
      BY <2>1, <2>3, <3>2, <3>3
    <3>5. plan[pressed] = newLine
      BY <2>1, <2>3, <3>2, <3>3, <3>4 DEF Last
    <3>6. session \in Sessions /\ DOMAIN session.plan = 1 .. Len(plan)
      BY <1>1, <2>2 DEF Consistent, IsSession, plan
    <3>7. pressed = Len(plan)
      BY <2>1, <3>4, <3>5, <3>6, SessionsAssumption DEF plan
    <3> QED
      BY <2>2, <3>2, <3>7, SubSeqFull
  <2> QED
    BY <2>2, <2>4, <2>5, <2>6 DEF KeysRead, t
<1> QED
  BY <1>1, KeyboardAlways, PTL

-----------------------------------------------------------------------------
(* Lines.  What a line of keys stands for, key by key.                     *)
IsLine(line, keys, n) == line[0] = <<>> /\ \A i \in 1 .. n : line[i] = Apply(line[i - 1], keys[i])

AreKeys(keys, n) == \A i \in 1 .. n : keys[i] \in Nat
Agree(keys, more, n) == \A i \in 1 .. n : keys[i] = more[i]

LEMMA ApplyTyped == \A line \in Seq(Nat), k \in Nat : Apply(line, k) \in Seq(Nat)
BY DEF Apply, Front

LEMMA EditedIs ==
  ASSUME NEW n \in Nat, NEW keys, AreKeys(keys, n)
  PROVE  \E line \in [0 .. n -> Seq(Nat)] : IsLine(line, keys, n) /\ Edited(keys, n) = line[n]
<1> DEFINE line[i \in 0 .. n] == IF i = 0 THEN <<>> ELSE Apply(line[i - 1], keys[i])
           V == Seq(Nat)
           G == [i \in 1 .. n |-> [v \in V |-> Apply(v, keys[i])]]
<1>1. G \in [1 .. n -> [V -> V]] /\ <<>> \in V
  <2>1. \A i \in 1 .. n : \A v \in V : Apply(v, keys[i]) \in V
    BY ApplyTyped DEF AreKeys
  <2>2. <<>> \in V
    OBVIOUS
  <2> HIDE DEF V
  <2> QED
    BY <2>1, <2>2
<1>2. \A i \in 1 .. n : \A v \in V : G[i][v] = Apply(v, keys[i])
  OBVIOUS
<1> HIDE DEF G, V
<1>3. PICK f \in [0 .. n -> V] : Iterates(f, 0 .. n, <<>>, G)
  BY <1>1, BoundedLoop
<1>4. f = [i \in 0 .. n |-> IF i = 0 THEN <<>> ELSE Apply(f[i - 1], keys[i])]
  <2>1. \A i \in 0 .. n : i # 0 => i \in 1 .. n /\ i - 1 \in 0 .. n /\ f[i - 1] \in V
    BY <1>3
  <2> QED
    BY <1>2, <1>3, <2>1 DEF Iterates
<1> DEFINE Runs(h) == h = [i \in 0 .. n |-> IF i = 0 THEN <<>> ELSE Apply(h[i - 1], keys[i])]
<1>5. Runs(line)
  <2>1. Runs(f)
    BY <1>4
  <2> QED
    BY <2>1 DEF line
<1>6. Edited(keys, n) = line[n]
  BY DEF Edited
<1> HIDE DEF line
<1>7. IsLine(line, keys, n)
  BY <1>5 DEF IsLine
<1> DEFINE S == {i \in 0 .. n : line[i] \in V}
<1>8. 0 \in S
  BY <1>1, <1>5
<1>9. ASSUME NEW i \in S, i < n PROVE i + 1 \in S
  <2>1. i + 1 \in 1 .. n /\ line[i + 1] = Apply(line[i], keys[i + 1]) /\ keys[i + 1] \in Nat /\ line[i] \in V
    BY <1>5, <1>9 DEF AreKeys
  <2>2. line[i + 1] \in V
    BY <2>1, ApplyTyped DEF V
  <2> QED
    BY <2>1, <2>2
<1>10. S \in SUBSET (0 .. n)
  OBVIOUS
<1> HIDE DEF S
<1>11. \A i \in 0 .. n : i \in S
  BY <1>8, <1>9, <1>10, AllRounds
<1> USE DEF S
<1>12. line \in [0 .. n -> Seq(Nat)]
  BY <1>5, <1>11 DEF V
<1> QED
  BY <1>6, <1>7, <1>12

LEMMA LineUnique ==
  ASSUME NEW m \in Nat, NEW n \in Nat, n <= m, NEW keys, NEW more,
         NEW f \in [0 .. n -> Seq(Nat)], NEW g \in [0 .. m -> Seq(Nat)],
         IsLine(f, keys, n), IsLine(g, more, m), Agree(keys, more, n)
  PROVE  f[n] = g[n]
<1> DEFINE S == {i \in 0 .. n : f[i] = g[i]}
<1>1. 0 \in S /\ \A i \in S : i < n => i + 1 \in S
  BY DEF IsLine, Agree
<1>2. S \in SUBSET (0 .. n)
  OBVIOUS
<1> HIDE DEF S
<1>3. \A i \in 0 .. n : i \in S
  BY <1>1, <1>2, AllRounds
<1> QED
  BY <1>3 DEF S

(* One more key.                                                           *)
LEMMA EditedMore ==
  ASSUME NEW keys \in Seq(Nat), NEW k \in Nat
  PROVE  /\ \A n \in 0 .. Len(keys) : Edited(Append(keys, k), n) = Edited(keys, n)
         /\ EditedLine(keys) \in Seq(Nat)
         /\ EditedLine(Append(keys, k)) = Apply(EditedLine(keys), k)
<1> DEFINE more == Append(keys, k)
           N == Len(keys)
<1>1. N \in Nat /\ Len(more) = N + 1 /\ more[N + 1] = k /\ \A i \in 1 .. N : more[i] = keys[i] /\ keys[i] \in Nat
  BY AppendProperties, LenProperties, ElementOfSeq
<1> HIDE DEF more, N
<1>2. PICK g \in [0 .. N + 1 -> Seq(Nat)] : IsLine(g, more, N + 1) /\ Edited(more, N + 1) = g[N + 1]
  <2>1. AreKeys(more, N + 1)
    BY <1>1 DEF AreKeys
  <2>2. N + 1 \in Nat
    BY <1>1
  <2> QED
    BY ONLY <2>1, <2>2, EditedIs
<1>3. ASSUME NEW n \in 0 .. N PROVE Edited(more, n) = g[n] /\ Edited(keys, n) = g[n]
  <2>0. n \in Nat /\ n <= N + 1 /\ N + 1 \in Nat /\ \A i \in 1 .. n : i \in 1 .. N
    BY <1>1
  <2>1. AreKeys(more, n) /\ AreKeys(keys, n) /\ Agree(more, more, n) /\ Agree(keys, more, n)
    BY <1>1, <2>0 DEF AreKeys, Agree
  <2>2. PICK e \in [0 .. n -> Seq(Nat)] : IsLine(e, more, n) /\ Edited(more, n) = e[n]
    BY <2>0, <2>1, EditedIs
  <2>3. PICK f \in [0 .. n -> Seq(Nat)] : IsLine(f, keys, n) /\ Edited(keys, n) = f[n]
    BY <2>0, <2>1, EditedIs
  <2>4. e[n] = g[n]
    BY ONLY <1>2, <2>0, <2>1, <2>2, LineUnique
  <2>5. f[n] = g[n]
    BY ONLY <1>2, <2>0, <2>1, <2>3, LineUnique
  <2> QED
    BY <2>2, <2>3, <2>4, <2>5
<1>4. EditedLine(keys) = g[N]
  BY <1>1, <1>3 DEF EditedLine, N
<1>5. EditedLine(more) = g[N + 1]
  BY <1>1, <1>2 DEF EditedLine
<1>6. g[N + 1] = Apply(g[N], k)
  <2>1. N + 1 \in 1 .. N + 1 /\ N + 1 - 1 = N
    BY <1>1
  <2> QED
    BY <1>1, <1>2, <2>1 DEF IsLine
<1>7. g[N] \in Seq(Nat)
  BY <1>1, <1>2
<1> QED
  BY <1>3, <1>4, <1>5, <1>6, <1>7 DEF more, N

LEMMA EmptyLine == EditedLine(<<>>) = <<>>
<1>1. PICK line \in [0 .. 0 -> Seq(Nat)] : IsLine(line, <<>>, 0) /\ Edited(<<>>, 0) = line[0]
  <2>1. AreKeys(<<>>, 0)
    BY DEF AreKeys
  <2> QED
    BY <2>1, EditedIs
<1>2. Len(<<>>) = 0
  OBVIOUS
<1> QED
  BY <1>1, <1>2 DEF IsLine, EditedLine

LEMMA FitsMore ==
  ASSUME NEW keys \in Seq(Nat), NEW k \in Nat, Fits(Append(keys, k))
  PROVE  /\ Fits(keys)
         /\ IF k = backSpace THEN Len(EditedLine(keys)) \in 1 .. MaxLength - 1 ELSE Len(EditedLine(keys)) < MaxLength
<1> DEFINE more == Append(keys, k)
           N == Len(keys)
<1>1. N \in Nat /\ DOMAIN keys = 1 .. N /\ DOMAIN more = 1 .. N + 1 /\ more[N + 1] = k /\ \A i \in 1 .. N : more[i] = keys[i]
  BY AppendProperties, LenProperties
<1>2. \A i \in 1 .. N + 1 : i - 1 \in 0 .. N /\ Edited(more, i - 1) = Edited(keys, i - 1)
  BY <1>1, EditedMore
<1>3. \A i \in 1 .. N + 1 : LET length == Len(Edited(keys, i - 1))
                            IN IF more[i] = backSpace THEN length \in 1 .. MaxLength - 1 ELSE length < MaxLength
  BY <1>1, <1>2 DEF Fits
<1> HIDE DEF more
<1>4. Fits(keys)
  BY <1>1, <1>3 DEF Fits
<1>5. N + 1 \in 1 .. N + 1 /\ N + 1 - 1 = N
  BY <1>1
<1> QED
  BY <1>1, <1>3, <1>4, <1>5 DEF EditedLine

(* The string that holds a line.                                           *)
Holds(s, line) ==
  /\ s \in [currentLength : Nat, array : [Around -> Int]]
  /\ Kept(s)
  /\ s.currentLength = Len(line) /\ Len(line) <= MaxLength
  /\ \A j \in 1 .. Len(line) : s.array[j - 1] = line[j]

LEMMA Places == MaxLength \in Nat /\ (\A j \in Inside : j \in Around /\ j \in Nat) /\ Inside = 0 .. MaxLength - 1
BY ConsoleAssumption DEF Inside, Around, Margin

LEMMA Prefix ==
  ASSUME NEW t \in Seq(Nat), NEW n \in Nat, n <= Len(t)
  PROVE  Len(SubSeq(t, 1, n)) = n /\ \A j \in 1 .. n : SubSeq(t, 1, n)[j] = t[j]
<1>1. \A i \in 1 .. n : t[i] \in Nat
  OBVIOUS
<1>2. \A i \in 1 .. n - 1 + 1 : SubSeq(t, 1, n)[i] = t[1 + i - 1]
  BY <1>1, SubSeqProperties
<1>3. Len(SubSeq(t, 1, n)) = IF 1 <= n THEN n - 1 + 1 ELSE 0
  BY <1>1, SubSeqProperties
<1> QED
  BY <1>2, <1>3

StringOf(n, a) == [currentLength |-> n, array |-> a]
Erased(s)      == [s EXCEPT !.currentLength = @ - 1]

LEMMA StringChanges ==
  ASSUME NEW a \in [Around -> Int], NEW n \in Nat, NEW c \in Nat
  PROVE  /\ setCharAt(StringOf(n, a), n, c) = StringOf(n, [a EXCEPT ![n] = c])
         /\ Longer(StringOf(n, a)) = StringOf(n + 1, a)
         /\ Erased(StringOf(n, a)) = StringOf(n - 1, a)
<1>1. ASSUME NEW s, s = [currentLength |-> n, array |-> a]
      PROVE  /\ setCharAt(s, n, c) = [currentLength |-> n, array |-> [a EXCEPT ![n] = c]]
             /\ Longer(s) = [currentLength |-> n + 1, array |-> a]
             /\ Erased(s) = [currentLength |-> n - 1, array |-> a]
  BY <1>1 DEF setCharAt, Longer, Erased
<1> QED
  BY <1>1 DEF StringOf

LEMMA HoldsIs ==
  ASSUME NEW s, NEW line \in Seq(Nat), Holds(s, line)
  PROVE  s.array \in [Around -> Int] /\ s = StringOf(Len(line), s.array)
BY DEF Holds, StringOf

LEMMA HoldsNone == Holds(NewString, <<>>)
BY Places DEF Holds, NewString, Kept, Other

LEMMA HoldsMore ==
  ASSUME NEW s, NEW line \in Seq(Nat), NEW c \in Nat, Holds(s, line), Len(line) < MaxLength
  PROVE  Holds(appendChar(s, c), Append(line, c))
<1> DEFINE n == Len(line)
           t == appendChar(s, c)
           more == Append(line, c)
<1>1. n \in Nat /\ Len(more) = n + 1 /\ more[n + 1] = c /\ \A j \in 1 .. n : more[j] = line[j]
  BY AppendProperties, LenProperties
<1> DEFINE a == s.array
           b == [a EXCEPT ![n] = c]
<1>2. a \in [Around -> Int] /\ s = StringOf(n, a)
  BY HoldsIs
<1>3. n \in Inside /\ n \in Around
  BY <1>1, Places
<1> HIDE DEF a, n
<1>4. b \in [Around -> Int] /\ \A j \in Around : b[j] = IF j = n THEN c ELSE a[j]
  BY <1>1, <1>2, <1>3
<1>5. t = StringOf(n + 1, b)
  <2>1. setCharAt(s, n, c) = StringOf(n, b)
    BY <1>1, <1>2, StringChanges
  <2> HIDE DEF b
  <2>2. Longer(StringOf(n, b)) = StringOf(n + 1, b)
    BY <1>1, <1>4, StringChanges
  <2>3. s.currentLength = n
    BY DEF Holds, n
  <2> QED
    BY <2>1, <2>2, <2>3 DEF appendChar
<1> HIDE DEF t, more, b
<1>6. t \in [currentLength : Nat, array : [Around -> Int]] /\ t.currentLength = n + 1 /\ t.array = b
  BY <1>1, <1>4, <1>5 DEF StringOf
<1>7. Kept(t)
  BY <1>3, <1>4, <1>6 DEF Holds, Kept, a
<1>8. ASSUME NEW j \in 1 .. n + 1 PROVE t.array[j - 1] = more[j]
  <2>1. j - 1 \in Around
    BY <1>1, Places DEF n
  <2>2. CASE j = n + 1
    BY <1>1, <1>3, <1>4, <1>6, <2>1, <2>2
  <2>3. CASE j \in 1 .. n
    BY <1>1, <1>4, <1>6, <2>1, <2>3 DEF Holds, a, n
  <2> QED
    BY <1>1, <2>2, <2>3
<1>9. n + 1 <= MaxLength
  BY <1>1, Places DEF n
<1> QED
  BY <1>1, <1>6, <1>7, <1>8, <1>9 DEF Holds, t, more

LEMMA HoldsLess ==
  ASSUME NEW s, NEW line \in Seq(Nat), Holds(s, line), Len(line) \in 1 .. MaxLength - 1
  PROVE  Holds(eraseLastChar(s), Front(line))
<1> DEFINE n == Len(line)
           t == eraseLastChar(s)
           less == Front(line)
<1>1. n \in Nat /\ n - 1 \in Nat /\ Len(less) = n - 1 /\ \A j \in 1 .. n - 1 : less[j] = line[j]
  <2>1. n \in Nat /\ n - 1 \in Nat /\ n - 1 <= n
    OBVIOUS
  <2>2. Len(less) = n - 1 /\ \A j \in 1 .. n - 1 : less[j] = line[j]
    BY <2>1, Prefix DEF Front
  <2> QED
    BY <2>1, <2>2
<1> DEFINE a == s.array
           b == [a EXCEPT ![n] = 0]
<1>2. a \in [Around -> Int] /\ s = StringOf(n, a)
  BY HoldsIs
<1>3. n \in Inside /\ n \in Around
  BY <1>1, Places
<1> HIDE DEF a, n
<1>4. b \in [Around -> Int] /\ \A j \in Around : b[j] = IF j = n THEN 0 ELSE a[j]
  BY <1>1, <1>2, <1>3
<1>5. t = StringOf(n - 1, b)
  <2>1. setCharAt(s, n, 0) = StringOf(n, b)
    BY <1>1, <1>2, StringChanges
  <2> HIDE DEF b
  <2>2. Erased(StringOf(n, b)) = StringOf(n - 1, b)
    BY <1>1, <1>4, StringChanges
  <2>3. s.currentLength = n
    BY DEF Holds, n
  <2>4. t = Erased(setCharAt(s, n, 0))
    BY <2>3 DEF eraseLastChar, Erased
  <2> QED
    BY <2>1, <2>2, <2>4
<1> HIDE DEF t, less, b
<1>6. t \in [currentLength : Nat, array : [Around -> Int]] /\ t.currentLength = n - 1 /\ t.array = b
  BY <1>1, <1>4, <1>5 DEF StringOf
<1>7. Kept(t)
  BY <1>3, <1>4, <1>6 DEF Holds, Kept, a
<1>8. ASSUME NEW j \in 1 .. n - 1 PROVE t.array[j - 1] = less[j]
  <2>1. j - 1 \in Around /\ j \in 1 .. n /\ j - 1 # n
    BY <1>1, Places DEF n
  <2>2. a[j - 1] = line[j]
    BY <2>1 DEF Holds, a, n
  <2> QED
    BY <1>1, <1>4, <1>6, <2>1, <2>2
<1>9. n - 1 <= MaxLength
  BY <1>1, Places DEF n
<1> QED
  BY <1>1, <1>6, <1>7, <1>8, <1>9 DEF Holds, t, less

(* The buffer holds what the keys that were handled make of the line.       *)
Editing == Fits(Handled) => Holds(buffer, EditedLine(Handled))

LEMMA FrontOfNone == Front(<<>>) = <<>>
<1>1. Len(<<>>) - 1 = -1 /\ -1 \in Int /\ 1 \in Int /\ -1 < 1
  OBVIOUS
<1> QED
  BY <1>1, SubSeqEmpty DEF Front

LEMMA EditingInit == Init => Editing
<1> SUFFICES ASSUME Init PROVE Editing
  OBVIOUS
<1>1. Handled = <<>> /\ buffer = NewString
  BY DEF Init, Handled
<1> QED
  BY <1>1, EmptyLine, HoldsNone DEF Editing

LEMMA EditingNext == ASSUME Consistent, Consistent', Keyboard_, Editing, [Next]_vars PROVE Editing'
<1>1. Range(plan) \subseteq Nat /\ seen \in Seq(Nat) /\ 0 \notin Range(plan)
  BY PlanKeys, SeqMonotonic DEF Consistent
<1>2. \A keys : (Fits(keys))' <=> Fits(keys)
  OBVIOUS
<1>3. ASSUME Handled' = Handled, buffer' = buffer PROVE Editing'
  BY <1>3 DEF Editing
<1>4. CASE Press
  BY <1>3, <1>4 DEF Press, Handled
<1>5. CASE Release
  BY <1>3, <1>5 DEF Release, Handled
<1>6. CASE readLine
  <2>1. pc = "start" /\ pc' \in {"poll", "done"} /\ seen' = seen /\ seen = <<>> /\ buffer' = buffer
    BY <1>6 DEF readLine, Keyboard_
  <2>2. Handled' = Handled
    BY <2>1, FrontOfNone DEF Handled
  <2> QED
    BY <1>3, <2>1, <2>2
<1>7. CASE KeyDown
  <2>1. pc = "poll" /\ pc' = "release" /\ seen' = Append(seen, key) /\ buffer' = buffer /\ key \in Nat
    BY <1>1, <1>7 DEF KeyDown, Consistent, TypeOK
  <2>2. Front(seen') = seen
    <3>1. Len(seen') = Len(seen) + 1 /\ Len(seen) \in Nat
      BY <1>1, <2>1
    <3>2. SubSeq(Append(seen, key), 1, Len(seen)) = seen
      BY <1>1, <2>1
    <3> QED
      BY <2>1, <3>1, <3>2 DEF Front
  <2>3. Handled' = Handled
    BY <2>1, <2>2 DEF Handled
  <2> QED
    BY <1>3, <2>1, <2>3
<1>8. CASE KeyUp
  <2>1. pc = "release" /\ seen' = seen /\ seen # <<>> /\ char = Last(seen)
    BY <1>8 DEF KeyUp, Consistent, TypeOK
  <2> DEFINE h == Front(seen)
  <2>2. h \in Seq(Nat) /\ char \in Nat /\ seen = Append(h, char)
    <3>1. Len(seen) \in Nat /\ Len(seen) > 0 /\ char \in Nat
      BY <1>1, <2>1 DEF Last
    <3> QED
      BY <1>1, <2>1, <3>1 DEF Front, Last
  <2>3. Handled = h
    BY <2>1 DEF Handled
  <2> HIDE DEF h
  <2>4. CASE char = newLine
    <3>1. pc' = "done" /\ buffer' = buffer
      BY <1>8, <2>4 DEF KeyUp, newLine, backSpace
    <3>2. Handled' = h
      BY <2>1, <3>1 DEF Handled, h
    <3> QED
      BY <1>3, <2>3, <3>1, <3>2
  <2>5. CASE char # newLine
    <3>1. pc' = "poll" /\ buffer' = (IF char = backSpace THEN eraseLastChar(buffer) ELSE appendChar(buffer, char))
      BY <1>8, <2>5 DEF KeyUp
    <3>2. Handled' = Append(h, char)
      BY <2>1, <2>2, <3>1 DEF Handled
    <3> SUFFICES ASSUME Fits(Append(h, char)) PROVE Holds(buffer', EditedLine(Append(h, char)))
      BY <3>2 DEF Editing
    <3>3. Fits(h) /\ IF char = backSpace THEN Len(EditedLine(h)) \in 1 .. MaxLength - 1 ELSE Len(EditedLine(h)) < MaxLength
      BY <2>2, FitsMore
    <3>4. EditedLine(h) \in Seq(Nat) /\ EditedLine(Append(h, char)) = Apply(EditedLine(h), char)
      BY <2>2, EditedMore
    <3>5. Holds(buffer, EditedLine(h))
      BY <2>3, <3>3 DEF Editing
    <3>6. CASE char = backSpace
      <4>1. Len(EditedLine(h)) \in 1 .. MaxLength - 1
        BY <3>3, <3>6
      <4>2. EditedLine(h) # <<>>
        BY <4>1
      <4>3. EditedLine(Append(h, char)) = Front(EditedLine(h))
        BY <3>4, <3>6, <4>2 DEF Apply
      <4>4. Holds(eraseLastChar(buffer), Front(EditedLine(h)))
        BY <3>4, <3>5, <4>1, HoldsLess
      <4> QED
        BY <3>1, <3>6, <4>3, <4>4
    <3>7. CASE char # backSpace
      <4>1. EditedLine(Append(h, char)) = Append(EditedLine(h), char)
        BY <3>4, <3>7 DEF Apply
      <4>2. Holds(appendChar(buffer, char), Append(EditedLine(h), char))
        BY <2>2, <3>3, <3>4, <3>5, <3>7, HoldsMore
      <4> QED
        BY <3>1, <3>7, <4>1, <4>2
    <3> QED
      BY <3>6, <3>7
  <2> QED
    BY <2>4, <2>5
<1>9. CASE UNCHANGED vars
  BY <1>3, <1>9 DEF vars, Handled
<1> QED
  BY <1>4, <1>5, <1>6, <1>7, <1>8, <1>9 DEF Next, Program, Waits, Finished

-----------------------------------------------------------------------------
(* Powers of ten, as those of two.                                         *)
LEMMA Tens ==
  /\ TenTo[0] = 1
  /\ \A n \in Nat : TenTo[n + 1] = 10 * TenTo[n]
  /\ \A n \in Nat : TenTo[n] \in Nat \ {0}
<1> DEFINE V == Nat \ {0}
           G == [n \in Nat |-> [v \in V |-> 10 * v]]
<1>1. 1 \in V /\ G \in [Nat -> [V -> V]]
  OBVIOUS
<1>2. ASSUME NEW n \in Nat, NEW v \in V PROVE G[n][v] = 10 * v
  OBVIOUS
<1> HIDE DEF G
<1> HIDE DEF V
<1>3. PICK f \in [Nat -> V] : Iterates(f, Nat, 1, G)
  BY <1>1, Loop
<1>4. f = [n \in Nat |-> IF n = 0 THEN 1 ELSE 10 * f[n - 1]]
  <2>1. \A n \in Nat : n # 0 => n - 1 \in Nat /\ f[n - 1] \in V
    BY <1>3
  <2> QED
    BY <1>2, <1>3, <2>1 DEF Iterates
<1>5. TenTo = [n \in Nat |-> IF n = 0 THEN 1 ELSE 10 * TenTo[n - 1]]
  BY <1>4 DEF TenTo
<1>6. TenTo[0] = 1 /\ \A n \in Nat : TenTo[n + 1] = 10 * TenTo[n]
  BY <1>5
<1> DEFINE S == {n \in Nat : TenTo[n] \in Nat \ {0}}
<1>7. 0 \in S /\ \A n \in S : n + 1 \in S
  BY <1>6
<1>8. \A n \in Nat : n \in S
  BY <1>7, AllNumbers
<1> QED
  BY <1>6, <1>8

LEMMA TenZero == TenTo[0] = 1
BY Tens

LEMMA TensGrow == \A m, n \in Nat : m <= n => TenTo[m] <= TenTo[n]
<1> SUFFICES ASSUME NEW m \in Nat PROVE \A n \in Nat : m <= n => TenTo[m] <= TenTo[n]
  OBVIOUS
<1> DEFINE S == {n \in Nat : m <= n => TenTo[m] <= TenTo[n]}
<1>1. 0 \in S
  BY Tens
<1>2. ASSUME NEW n \in S PROVE n + 1 \in S
  <2>1. TenTo[n + 1] = 10 * TenTo[n] /\ TenTo[n] \in Nat /\ TenTo[m] \in Nat
    BY Tens
  <2>2. CASE m <= n
    BY <2>1, <2>2
  <2>3. CASE m = n + 1
    BY <2>1, <2>3
  <2> QED
    BY <2>2, <2>3
<1>3. \A n \in Nat : n \in S
  BY <1>1, <1>2, AllNumbers
<1> QED
  BY <1>3

(* Dividing by ten.                                                        *)
LEMMA TenthIs == \A n \in Nat : n \div 10 \in Nat /\ 10 * (n \div 10) <= n /\ n < 10 * (n \div 10) + 10
OBVIOUS

LEMMA TenIsSmall == 10 \in Word /\ 10 < HalfOfWords /\ Magnitude(10) = 10
BY Sizes, SmallWord, SmallWords

LEMMA DivisibleLess ==
  ASSUME NEW a \in Nat, NEW b \in Nat, a <= b, b < HalfOfWords, Divisible(b, 10)
  PROVE  Divisible(a, 10) /\ a \in Word
<1>1. Magnitude(a) = a /\ Magnitude(b) = b /\ Magnitude(10) = 10 /\ HalfOfWords \in Nat /\ a \in Word
  BY SmallWord, TenIsSmall, Sizes
<1>2. a \div 10 <= b \div 10 /\ a \div 10 \in Nat /\ b \div 10 \in Nat
  BY TenthIs
<1>3. \A k \in 0 .. Bits : TwoTo[k] \in Nat
  BY BitsAssumption, Powers
<1>4. ASSUME NEW k \in 0 .. Bits, TwoTo[k] <= Magnitude(a) \div Magnitude(10)
      PROVE  Magnitude(10) * TwoTo[k + 1] + Magnitude(a) < 2 * HalfOfWords
  <2>1. TwoTo[k] <= Magnitude(b) \div Magnitude(10)
    BY <1>1, <1>2, <1>3, <1>4
  <2>2. Magnitude(10) * TwoTo[k + 1] + Magnitude(b) < 2 * HalfOfWords
    BY <2>1 DEF Divisible
  <2>3. TwoTo[k + 1] \in Nat
    BY BitsAssumption, Powers
  <2> QED
    BY <1>1, <2>2, <2>3
<1> QED
  BY <1>1, <1>4 DEF Divisible

LEMMA TenthOfWord ==
  ASSUME NEW a \in Nat, a < HalfOfWords, Divisible(a, 10)
  PROVE  divide(a, 10) = a \div 10 /\ a \div 10 \in Word /\ a \div 10 <= a
<1>1. Magnitude(a) = a /\ Signed(a) = a /\ a \in Word /\ Magnitude(10) = 10 /\ Signed(10) = 10 /\ 10 \in Word
  BY SmallWord, TenIsSmall
<1>2. a \div 10 \in Nat /\ a \div 10 <= a /\ a \div 10 < HalfOfWords
  BY TenthIs, Sizes
<1>3. divide(a, 10) = AsWord(a \div 10)
  <2>1. divide(a, 10) = IntegerPart(a, 10)
    BY <1>1, DivideIs
  <2> QED
    BY <1>1, <2>1 DEF IntegerPart
<1>4. a \div 10 \in Word
  BY <1>2, SmallWord
<1> QED
  BY <1>2, <1>3, <1>4, AsWordOfWord

-----------------------------------------------------------------------------
(* Numbers as text: how many digits are among the first characters, and    *)
(* what they are worth.                                                    *)
DigitsOf(t, n) == IF n >= 1 /\ t[1] = Minus THEN n - 1 ELSE n
IsValue(v, t)  == v[0] = 0 /\ \A n \in 1 .. Len(t) : v[n] = IF t[n] = Minus THEN v[n - 1] ELSE 10 * v[n - 1] + t[n] - 48

LEMMA NumberIs ==
  ASSUME NEW t \in Seq(Nat), Number(t)
  PROVE  /\ Len(t) \in Nat \ {0}
         /\ \A n \in 1 .. Len(t) : t[n] \in Nat /\ (t[n] # Minus => t[n] - 48 \in 0 .. 9) /\ (t[n] = Minus => n = 1 /\ Len(t) > 1)
         /\ \A n \in 0 .. Len(t) : DigitsOf(t, n) \in Nat
         /\ \A n \in 0 .. Len(t) - 1 : DigitsOf(t, n + 1) = IF t[n + 1] = Minus THEN DigitsOf(t, n) ELSE DigitsOf(t, n) + 1
         /\ DigitsOf(t, 0) = 0
         /\ DigitsOf(t, Len(t)) = Len(t) - (IF Positive_(t) THEN 0 ELSE 1)
         /\ DigitsOf(t, Len(t)) = DigitsOf(t, Len(t) - 1) + 1
<1>1. Len(t) \in Nat \ {0} /\ DOMAIN t = 1 .. Len(t) /\ t[Len(t)] # Minus
  BY DEF Number, Last
<1>2. \A n \in 1 .. Len(t) : t[n] \in Nat /\ (t[n] # Minus => t[n] - 48 \in 0 .. 9) /\ (t[n] = Minus => n = 1 /\ Len(t) > 1)
  BY <1>1 DEF Number, Digit, Minus
<1> DEFINE N == Len(t)
           negative == t[1] = Minus
<1>3. N \in Nat \ {0} /\ (negative => N > 1) /\ (t[N] # Minus) /\ (t[1] = Minus <=> negative) /\ (Positive_(t) <=> ~negative)
      /\ \A n \in 1 .. N : t[n] = Minus => n = 1
  BY <1>1, <1>2 DEF Positive_
<1>4. \A n : DigitsOf(t, n) = IF n >= 1 /\ negative THEN n - 1 ELSE n
  BY DEF DigitsOf
<1> HIDE DEF N, negative
<1>5. \A n \in 0 .. N : DigitsOf(t, n) \in Nat
  BY <1>3, <1>4
<1>6. ASSUME NEW n \in 0 .. N - 1 PROVE DigitsOf(t, n + 1) = IF t[n + 1] = Minus THEN DigitsOf(t, n) ELSE DigitsOf(t, n) + 1
  <2>1. t[n + 1] = Minus <=> n = 0 /\ negative
    BY <1>3
  <2> QED
    BY <1>3, <1>4, <2>1
<1>7. DigitsOf(t, 0) = 0 /\ DigitsOf(t, N) = N - (IF Positive_(t) THEN 0 ELSE 1)
  BY <1>3, <1>4
<1>8. DigitsOf(t, N) = DigitsOf(t, N - 1) + 1
  BY <1>3, <1>4
<1> QED
  BY <1>1, <1>2, <1>5, <1>6, <1>7, <1>8 DEF N

LEMMA ValueIs ==
  ASSUME NEW t \in Seq(Nat), Number(t)
  PROVE  \E v \in [0 .. Len(t) -> Nat] :
           IsValue(v, t) /\ ValueOf(t) = IF Positive_(t) THEN v[Len(t)] ELSE -v[Len(t)]
<1> DEFINE magnitude[n \in 0 .. Len(t)] ==
             IF n = 0 THEN 0
             ELSE IF t[n] = Minus THEN magnitude[n - 1] ELSE 10 * magnitude[n - 1] + t[n] - 48
           N == Len(t)
           After(v, n) == IF t[n] = Minus THEN v ELSE 10 * v + t[n] - 48
           G == [n \in 1 .. N |-> [v \in Nat |-> After(v, n)]]
<1>1. N \in Nat
  OBVIOUS
<1>2. ASSUME NEW n \in 1 .. N, NEW v \in Nat PROVE After(v, n) \in Nat
  <2>1. t[n] \in Nat /\ (t[n] # Minus => t[n] - 48 \in 0 .. 9)
    BY NumberIs
  <2> DEFINE c == t[n]
  <2>2. c \in Nat /\ (c # Minus => c - 48 \in 0 .. 9) /\ v \in Nat
    BY ONLY <2>1, v \in Nat
  <2> HIDE DEF c
  <2>3. c # Minus => 10 * v + c - 48 \in Nat
    BY ONLY <2>2
  <2> QED
    BY ONLY <2>2, <2>3 DEF c, After
<1>3. G \in [1 .. N -> [Nat -> Nat]] /\ \A n \in 1 .. N : \A v \in Nat : G[n][v] = After(v, n)
  BY <1>2
<1> HIDE DEF G, After, N
<1>4. PICK f \in [0 .. N -> Nat] : Iterates(f, 0 .. N, 0, G)
  BY <1>1, <1>3, BoundedLoop
<1>5. f = [n \in 0 .. N |-> IF n = 0 THEN 0 ELSE After(f[n - 1], n)]
  <2>1. \A n \in 0 .. N : n # 0 => n \in 1 .. N /\ n - 1 \in 0 .. N /\ f[n - 1] \in Nat
    BY <1>1, <1>4
  <2> QED
    BY <1>3, <1>4, <2>1 DEF Iterates
<1>6. magnitude = [n \in 0 .. N |-> IF n = 0 THEN 0 ELSE After(magnitude[n - 1], n)]
  BY <1>5 DEF magnitude, After, N
<1>7. ValueOf(t) = IF Positive_(t) THEN magnitude[N] ELSE -magnitude[N]
  BY DEF ValueOf, N
<1> HIDE DEF magnitude
<1>8. IsValue(magnitude, t)
  <2>1. magnitude[0] = 0
    BY <1>1, <1>6
  <2>2. \A n \in 1 .. N : n \in 0 .. N /\ n # 0
    BY <1>1
  <2>3. \A n \in 1 .. N : magnitude[n] = After(magnitude[n - 1], n)
    BY <1>6, <2>2
  <2> QED
    BY <2>1, <2>3 DEF IsValue, After, N
<1> DEFINE S == {n \in 0 .. N : magnitude[n] \in Nat}
<1>9. 0 \in S
  BY <1>1, <1>6
<1>13. ASSUME NEW n \in S, n < N PROVE n + 1 \in S
  <2>1. n + 1 \in 1 .. N /\ n + 1 \in 0 .. N /\ n + 1 # 0 /\ n + 1 - 1 = n /\ magnitude[n] \in Nat
    BY <1>1, <1>13
  <2>2. magnitude[n + 1] = After(magnitude[n], n + 1)
    BY <1>6, <2>1
  <2> QED
    BY <1>2, <2>1, <2>2
<1>10. S \in SUBSET (0 .. N)
  OBVIOUS
<1> HIDE DEF S
<1>11. \A n \in 0 .. N : n \in S
  BY <1>1, <1>9, <1>10, <1>13, AllRounds
<1> USE DEF S
<1>12. magnitude \in [0 .. N -> Nat]
  BY <1>6, <1>11
<1> QED
  BY <1>7, <1>8, <1>12 DEF N

(* The weight of the first digit.                                          *)
LEMMA WeightIs ==
  ASSUME NEW t \in Seq(Nat), Number(t), TenTo[DigitsOf(t, Len(t) - 1)] < HalfOfWords
  PROVE  weight(SubSeq(t, 1, Len(t) - 1)) = TenTo[DigitsOf(t, Len(t) - 1)]
<1> DEFINE front == SubSeq(t, 1, Len(t) - 1)
           N == Len(t) - 1
           base[n \in 0 .. Len(front)] ==
             IF n = 0 THEN 1
             ELSE IF front[n] = Minus THEN base[n - 1] ELSE multiply(10, base[n - 1])
           After(v, n) == IF t[n] = Minus THEN v ELSE multiply(10, v)
           G == [n \in 1 .. N |-> [v \in Word |-> After(v, n)]]
<1>1. N \in Nat /\ N <= Len(t) /\ N + 1 = Len(t)
  BY NumberIs
<1>2. Len(front) = N /\ \A n \in 1 .. N : front[n] = t[n]
  BY <1>1, Prefix
<1>3. \A n \in 1 .. N : \A v \in Word : After(v, n) \in Word
  BY TenIsSmall, MultiplyIsProduct
<1>4. G \in [1 .. N -> [Word -> Word]] /\ \A n \in 1 .. N : \A v \in Word : G[n][v] = After(v, n)
  BY <1>3
<1>5. 1 \in Word
  BY SmallWords
<1> HIDE DEF G, After, N
<1>6. PICK f \in [0 .. N -> Word] : Iterates(f, 0 .. N, 1, G)
  BY <1>1, <1>4, <1>5, BoundedLoop
<1>7. f = [n \in 0 .. N |-> IF n = 0 THEN 1 ELSE After(f[n - 1], n)]
  <2>1. \A n \in 0 .. N : n # 0 => n \in 1 .. N /\ n - 1 \in 0 .. N /\ f[n - 1] \in Word
    BY <1>1, <1>6
  <2> QED
    BY <1>4, <1>6, <2>1 DEF Iterates
<1> HIDE DEF front
<1>8. f = [n \in 0 .. Len(front) |-> IF n = 0 THEN 1 ELSE IF front[n] = Minus THEN f[n - 1] ELSE multiply(10, f[n - 1])]
  <2>1. \A n \in 0 .. N : n # 0 => n \in 1 .. N /\ front[n] = t[n]
    BY <1>1, <1>2
  <2> QED
    BY <1>2, <1>7, <2>1 DEF After
<1>9. base = [n \in 0 .. Len(front) |-> IF n = 0 THEN 1 ELSE IF front[n] = Minus THEN base[n - 1] ELSE multiply(10, base[n - 1])]
  BY <1>8 DEF base
<1>10. weight(front) = base[N]
  BY <1>2 DEF weight
<1> HIDE DEF base
<1> DEFINE S == {n \in 0 .. N : base[n] = TenTo[DigitsOf(t, n)]}
<1>11. 0 \in S
  BY <1>1, <1>9, <1>2, NumberIs, TenZero
<1>12. ASSUME NEW n \in S, n < N PROVE n + 1 \in S
  <2> DEFINE d == DigitsOf(t, n)
  <2>1. n \in Nat /\ n + 1 \in 1 .. N /\ n + 1 \in 0 .. N /\ n \in 0 .. Len(t) - 1 /\ n \in 0 .. Len(t)
    BY <1>1, <1>12
  <2>2. d \in Nat /\ DigitsOf(t, n + 1) = IF t[n + 1] = Minus THEN d ELSE d + 1
    BY <2>1, NumberIs
  <2>3. base[n + 1] = IF t[n + 1] = Minus THEN base[n] ELSE multiply(10, base[n])
    <3> DEFINE m == n + 1
    <3>1. m \in 0 .. Len(front) /\ m # 0 /\ m - 1 = n /\ front[m] = t[m]
      BY <1>1, <1>2, <2>1
    <3> HIDE DEF m
    <3>2. base[m] = IF front[m] = Minus THEN base[m - 1] ELSE multiply(10, base[m - 1])
      BY ONLY <1>9, <3>1
    <3> QED
      BY ONLY <3>1, <3>2 DEF m
  <2>4. base[n] = TenTo[d]
    BY <1>12
  <2>5. CASE t[n + 1] = Minus
    BY <2>1, <2>2, <2>3, <2>4, <2>5
  <2>6. CASE t[n + 1] # Minus
    <3>0. DigitsOf(t, n + 1) = d + 1
      BY <2>2, <2>6
    <3>1. DigitsOf(t, n + 1) = d + 1 /\ TenTo[d + 1] = 10 * TenTo[d] /\ TenTo[d] \in Nat
      <4> HIDE DEF d
      <4> QED
        BY <2>2, <3>0, Tens
    <3>2. DigitsOf(t, n + 1) <= DigitsOf(t, N) /\ DigitsOf(t, N) \in Nat
      BY <1>1, <2>1, NumberIs DEF DigitsOf
    <3>3. TenTo[d + 1] <= TenTo[DigitsOf(t, N)]
      BY <2>2, <3>1, <3>2, TensGrow
    <3>4. 10 * TenTo[d] < HalfOfWords
      <4>1. TenTo[DigitsOf(t, N)] < HalfOfWords
        BY DEF N
      <4>2. TenTo[DigitsOf(t, N)] \in Nat /\ HalfOfWords \in Nat
        BY <3>2, Tens, Sizes
      <4> QED
        BY <3>1, <3>3, <4>1, <4>2
    <3> DEFINE w == TenTo[d]
    <3>5. w \in Nat /\ 10 * w < HalfOfWords /\ w < HalfOfWords /\ 10 * w < Modulus
      BY <3>1, <3>4, Sizes
    <3> HIDE DEF w
    <3>6. multiply(10, w) = 10 * w
      BY <3>5, SmallWord, TenIsSmall, SmallProduct
    <3> QED
      BY <2>1, <2>3, <2>4, <2>6, <3>1, <3>6 DEF w
  <2> QED
    BY <2>5, <2>6
<1>13. S \in SUBSET (0 .. N)
  OBVIOUS
<1> HIDE DEF S
<1>14. \A n \in 0 .. N : n \in S
  BY <1>1, <1>11, <1>12, <1>13, AllRounds
<1>15. base[N] = TenTo[DigitsOf(t, N)]
  BY <1>1, <1>14 DEF S
<1> QED
  BY <1>10, <1>15 DEF N, front

(* The text of a number whose weight is a word that can be divided by ten   *)
(* is read as the word of the number.                                      *)
LEMMA TensDivided == \A j \in Nat : TenTo[j + 1] \div 10 = TenTo[j]
<1> TAKE j \in Nat
<1>1. TenTo[j + 1] = 10 * TenTo[j] /\ TenTo[j] \in Nat
  BY Tens
<1>2. (10 * TenTo[j] + 0) \div 10 = TenTo[j]
  BY <1>1, QuotientIs
<1>3. 10 * TenTo[j] + 0 = 10 * TenTo[j]
  BY <1>1
<1> QED
  BY <1>1, <1>2, <1>3

LEMMA DigitAdded ==
  ASSUME NEW m \in Nat, NEW e \in 0 .. 9, NEW b \in Nat, b \in Word, NEW sum \in Word, Same(sum, m * (10 * b))
  PROVE  /\ Add(sum, multiply(AsWord(e), b)) \in Word
         /\ Same(Add(sum, multiply(AsWord(e), b)), (10 * m + e) * b)
<1>1. e \in Word /\ AsWord(e) = e /\ e \in Int
  BY Sizes, SmallWord, AsWordOfWord
<1> DEFINE p == multiply(e, b)
           q == e * b
           r == m * (10 * b)
<1>2. p \in Word /\ Same(p, q) /\ p \in Int
  BY <1>1, MultiplyIsProduct, WordNumber
<1>3. q \in Int /\ r \in Int /\ (10 * m + e) * b = r + q /\ sum \in Int
  BY WordNumber
<1>4. Add(sum, p) \in Word /\ Same(Add(sum, p), sum + p) /\ Add(sum, p) \in Int
  BY <1>2, WordSums, WordNumber
<1>5. Same(sum, r)
  OBVIOUS
<1> HIDE DEF p, q, r
<1>6. Same(sum + p, r + q) /\ sum + p \in Int /\ r + q \in Int
  BY <1>2, <1>3, <1>5, SameSum
<1>7. Same(Add(sum, p), r + q)
  BY <1>4, <1>6, SameTrans
<1> QED
  BY <1>1, <1>3, <1>4, <1>7 DEF p

LEMMA IntValueIs ==
  ASSUME NEW s, NEW t \in Seq(Nat), Chars(s) = t, Number(t),
         TenTo[DigitsOf(t, Len(t) - 1)] < HalfOfWords, Divisible(TenTo[DigitsOf(t, Len(t) - 1)], 10)
  PROVE  intValue(s) = AsWord(ValueOf(t))
<1> DEFINE N     == Len(t)
           M     == DigitsOf(t, N - 1)
           front == SubSeq(t, 1, Len(t) - 1)
           Small == 0 .. TenTo[M]
           V     == [sum : Word, base : Small]
           first == [sum |-> 0, base |-> weight(front)]
           After(l, n) == IF t[n] = Minus THEN l
                          ELSE [sum  |-> Add(l.sum, multiply(AsWord(t[n] - 48), l.base)),
                                base |-> divide(l.base, 10)]
           read[n \in 0 .. Len(t)] == IF n = 0 THEN first ELSE LET l == read[n - 1]
                 c == t[n]
             IN IF c = Minus THEN l
                ELSE [sum  |-> Add(l.sum, multiply(AsWord(c - 48), l.base)),
                      base |-> divide(l.base, 10)]
           G == [n \in 1 .. N |-> [l \in V |-> After(l, n)]]
<1>1. N \in Nat \ {0} /\ N - 1 \in 0 .. N /\ M \in Nat /\ DigitsOf(t, N) = M + 1 /\ DigitsOf(t, 0) = 0
  BY NumberIs
<1>2. TenTo[M] \in Nat \ {0} /\ TenTo[M] < HalfOfWords /\ Divisible(TenTo[M], 10)
  BY <1>1, Tens
<1>3. ASSUME NEW b \in Small
      PROVE  b \in Nat /\ b \in Word /\ divide(b, 10) = b \div 10 /\ b \div 10 \in Small
  <2>1. b \in Nat /\ b <= TenTo[M] /\ b < HalfOfWords /\ HalfOfWords \in Nat
    BY <1>2, Sizes
  <2>2. Divisible(b, 10) /\ b \in Word
    BY <1>2, <2>1, DivisibleLess
  <2>3. divide(b, 10) = b \div 10 /\ b \div 10 <= b
    BY <2>1, <2>2, TenthOfWord
  <2>4. b \div 10 \in Nat
    BY <2>1, TenthIs
  <2> QED
    BY <1>2, <2>1, <2>2, <2>3, <2>4
<1>4. first \in V /\ weight(front) = TenTo[M]
  <2>1. weight(front) = TenTo[M]
    BY WeightIs
  <2> QED
    BY <1>2, <2>1, SmallWords
<1> HIDE DEF Small
<1>5. ASSUME NEW n \in 1 .. N, t[n] # Minus
      PROVE  t[n] - 48 \in 0 .. 9 /\ AsWord(t[n] - 48) \in Word
  <2>1. t[n] - 48 \in 0 .. 9
    BY <1>5, NumberIs
  <2> QED
    BY <2>1, AsWordSame
<1>6. ASSUME NEW n \in 1 .. N, NEW l \in V PROVE After(l, n) \in V
  <2>1. CASE t[n] = Minus
    BY <2>1
  <2>2. CASE t[n] # Minus
    <3>1. l.sum \in Word /\ l.base \in Small /\ l.base \in Word /\ divide(l.base, 10) \in Small
      BY <1>3
    <3>2. multiply(AsWord(t[n] - 48), l.base) \in Word
      BY <1>5, <2>2, <3>1, MultiplyIsProduct
    <3>3. Add(l.sum, multiply(AsWord(t[n] - 48), l.base)) \in Word
      BY <3>1, <3>2, WordSums
    <3> QED
      BY <2>2, <3>1, <3>3
  <2> QED
    BY <2>1, <2>2
<1>7. G \in [1 .. N -> [V -> V]] /\ \A n \in 1 .. N : \A l \in V : G[n][l] = After(l, n)
  BY <1>6
<1> HIDE DEF G, After, first, V, N
<1>8. PICK f \in [0 .. N -> V] : Iterates(f, 0 .. N, first, G)
  BY <1>1, <1>4, <1>7, BoundedLoop
<1>9. f = [n \in 0 .. N |-> IF n = 0 THEN first ELSE After(f[n - 1], n)]
  <2>1. \A n \in 0 .. N : n # 0 => n \in 1 .. N /\ n - 1 \in 0 .. N /\ f[n - 1] \in V
    BY <1>1, <1>8
  <2> QED
    BY <1>7, <1>8, <2>1 DEF Iterates
<1>10. read = [n \in 0 .. N |-> IF n = 0 THEN first ELSE After(read[n - 1], n)]
  BY <1>9 DEF read, After, N
<1>11. intValue(s) = IF Contains(front, Minus) THEN multiply(read[N].sum, Neg(1)) ELSE read[N].sum
  BY DEF intValue, N, first
<1> HIDE DEF read, front
<1>12. PICK v \in [0 .. N -> Nat] : IsValue(v, t) /\ ValueOf(t) = IF Positive_(t) THEN v[N] ELSE -v[N]
  BY ValueIs DEF N
<1> DEFINE d(n) == DigitsOf(t, n)
           Inv(n, l) ==
             /\ l.sum \in Word /\ l.base \in Small
             /\ d(n) <= M => l.base = TenTo[M - d(n)]
             /\ Same(l.sum, v[n] * TenTo[M + 1 - d(n)])
           S == {n \in 0 .. N : Inv(n, read[n])}
<1>13. 0 \in S
  <2>1. read[0] = first /\ first.sum = 0 /\ first.base = TenTo[M]
    BY <1>1, <1>4, <1>10 DEF first
  <2>2. v[0] = 0 /\ d(0) = 0 /\ M - 0 = M
    BY <1>1, <1>12 DEF IsValue
  <2>3. TenTo[M + 1 - 0] \in Int
    <3> DEFINE i == M + 1 - 0
    <3>1. i \in Nat
      BY <1>1
    <3> HIDE DEF i
    <3>2. TenTo[i] \in Int
      <4>1. \A n \in Nat : TenTo[n] \in Nat
        BY Tens
      <4> QED
        BY <3>1, <4>1
    <3> QED
      BY <3>2 DEF i
  <2>4. Same(0, v[0] * TenTo[M + 1 - 0])
    <3>1. v[0] * TenTo[M + 1 - 0] = 0
      BY <2>2, <2>3
    <3> QED
      BY <3>1, SameRefl
  <2>5. TenTo[M] \in Small
    BY <1>2 DEF Small
  <2> QED
    BY <1>1, <2>1, <2>2, <2>4, <2>5, SmallWords
<1>14. ASSUME NEW n \in S, n < N PROVE n + 1 \in S
  <2> DEFINE l == read[n]
             m == v[n]
             k == d(n)
  <2>1. n \in Nat /\ n + 1 \in 1 .. N /\ n + 1 \in 0 .. N /\ n + 1 # 0 /\ n + 1 - 1 = n /\ n \in 0 .. N - 1 /\ n \in 0 .. N
    BY <1>1, <1>14
  <2>2. read[n + 1] = After(l, n + 1)
    BY <1>10, <2>1
  <2>3. l.sum \in Word /\ l.base \in Small /\ (k <= M => l.base = TenTo[M - k]) /\ Same(l.sum, m * TenTo[M + 1 - k])
    OBVIOUS
  <2>4. k \in Nat /\ d(n + 1) = IF t[n + 1] = Minus THEN k ELSE k + 1
    BY <2>1, NumberIs DEF N
  <2>5. v[n + 1] = IF t[n + 1] = Minus THEN m ELSE 10 * m + t[n + 1] - 48
    BY <1>12, <2>1 DEF IsValue, N
  <2>6. m \in Nat
    BY <1>12, <2>1
  <2> HIDE DEF l, m, k, d
  <2>7. CASE t[n + 1] = Minus
    <3>1. read[n + 1] = l /\ v[n + 1] = m /\ d(n + 1) = k
      BY <2>2, <2>4, <2>5, <2>7 DEF After
    <3>2. Inv(n + 1, read[n + 1])
      BY <2>3, <3>1
    <3> HIDE DEF Inv
    <3> QED
      BY <2>1, <3>2
  <2>8. CASE t[n + 1] # Minus
    <3> DEFINE e == t[n + 1] - 48
               j == M - k
               b == TenTo[j]
    <3>1. e \in 0 .. 9 /\ t[n + 1] \in Nat
      BY <2>1, <2>8, NumberIs DEF N
    <3>2. d(n + 1) = k + 1 /\ k <= M
      <4>1. d(n + 1) <= DigitsOf(t, N)
        BY <1>1, <2>1 DEF DigitsOf, d
      <4> QED
        BY <1>1, <2>4, <2>8, <4>1
    <3>3. j \in Nat /\ M + 1 - k = j + 1 /\ M + 1 - (k + 1) = j /\ M - (k + 1) = j - 1
      <4>1. M \in Nat /\ k \in Nat /\ k <= M
        BY <1>1, <2>4, <3>2
      <4> HIDE DEF M
      <4> QED
        BY <4>1
    <3>4. l.base = b /\ b \in Nat /\ TenTo[j + 1] = 10 * b
      <4>1. l.base = b
        BY <2>3, <3>2
      <4>2. \A i \in Nat : TenTo[i] \in Nat /\ TenTo[i + 1] = 10 * TenTo[i]
        BY Tens
      <4> QED
        BY <3>3, <4>1, <4>2
    <3>5. b \in Word /\ divide(b, 10) = b \div 10 /\ b \div 10 \in Small
      BY <1>3, <2>3, <3>4
    <3>6. Same(l.sum, m * (10 * b))
      BY <2>3, <3>3, <3>4
    <3>7. v[n + 1] = 10 * m + e
      <4>1. \A i, c \in Nat : 10 * i + c - 48 = 10 * i + (c - 48)
        OBVIOUS
      <4> QED
        BY <2>5, <2>6, <2>8, <3>1, <4>1
    <3>8. read[n + 1] = [sum |-> Add(l.sum, multiply(AsWord(e), b)), base |-> b \div 10]
      BY <2>2, <2>8, <3>4, <3>5 DEF After
    <3>9. j >= 1 => b \div 10 = TenTo[j - 1]
      <4>1. HAVE j >= 1
      <4>2. j - 1 \in Nat /\ j = (j - 1) + 1
        BY <3>3, <4>1
      <4>3. TenTo[(j - 1) + 1] \div 10 = TenTo[j - 1]
        BY <4>2, TensDivided
      <4> QED
        BY <4>2, <4>3
    <3> HIDE DEF e, b, j
    <3>10. Add(l.sum, multiply(AsWord(e), b)) \in Word /\ Same(Add(l.sum, multiply(AsWord(e), b)), (10 * m + e) * b)
      BY <2>3, <2>6, <3>1, <3>4, <3>5, <3>6, DigitAdded
    <3> DEFINE r == read[n + 1]
    <3>11. r.sum \in Word /\ r.base \in Small /\ Same(r.sum, v[n + 1] * b) /\ r.base = b \div 10
      BY <3>5, <3>7, <3>8, <3>10
    <3>12. d(n + 1) <= M => r.base = TenTo[M - d(n + 1)]
      <4>1. HAVE d(n + 1) <= M
      <4>2. j >= 1
        BY <1>1, <2>4, <3>2, <4>1 DEF j
      <4> QED
        BY <3>2, <3>3, <3>9, <3>11, <4>2
    <3>13. Same(r.sum, v[n + 1] * TenTo[M + 1 - d(n + 1)])
      BY <3>2, <3>3, <3>11 DEF b
    <3> HIDE DEF r
    <3>14. Inv(n + 1, r)
      BY <3>11, <3>12, <3>13
    <3> HIDE DEF Inv
    <3> QED
      BY <2>1, <3>14 DEF r
  <2> QED
    BY <2>7, <2>8
<1>15. Inv(N, read[N])
  <2> HIDE DEF Inv
  <2>1. S \in SUBSET (0 .. N)
    OBVIOUS
  <2> HIDE DEF S
  <2>2. \A n \in 0 .. N : n \in S
    BY <1>1, <1>13, <1>14, <2>1, AllRounds
  <2> USE DEF S
  <2> QED
    BY <1>1, <2>2
<1>16. read[N].sum \in Word /\ Same(read[N].sum, v[N]) /\ v[N] \in Nat
  <2>1. M + 1 - (M + 1) = 0 /\ v[N] \in Nat
    BY <1>1, <1>12
  <2>2. v[N] * TenTo[0] = v[N]
    BY <2>1, TenZero
  <2> QED
    BY <1>1, <1>15, <2>1, <2>2
<1>17. Contains(front, Minus) <=> ~Positive_(t)
  <2>1. Len(front) = N - 1 /\ \A i \in 1 .. N - 1 : front[i] = t[i]
    <3>1. N - 1 \in Nat /\ N - 1 <= N
      BY <1>1
    <3> QED
      BY <3>1, Prefix DEF front, N
  <2>2. \A i \in 1 .. N : t[i] = Minus => i = 1 /\ N > 1
    BY NumberIs DEF N
  <2>3. ASSUME ~Positive_(t) PROVE Contains(front, Minus)
    <3>1. t[1] = Minus /\ 1 \in 1 .. N
      BY <1>1, <2>3 DEF Positive_
    <3>2. N > 1
      BY <2>2, <3>1
    <3>3. 1 \in 1 .. N - 1
      BY <1>1, <3>2
    <3>4. front[1] = Minus
      BY <2>1, <3>1, <3>3
    <3> QED
      BY <2>1, <3>3, <3>4 DEF Contains
  <2>4. ASSUME Contains(front, Minus) PROVE ~Positive_(t)
    <3>1. PICK i \in 1 .. N - 1 : front[i] = Minus
      BY <2>1, <2>4 DEF Contains
    <3>2. t[i] = Minus /\ i \in 1 .. N
      BY <1>1, <2>1, <3>1
    <3> QED
      BY <2>2, <3>2 DEF Positive_
  <2> QED
    BY <2>3, <2>4
<1>18. CASE Positive_(t)
  <2>1. Same(v[N], read[N].sum)
    BY <1>16, SameSym, WordNumber
  <2>2. AsWord(v[N]) = read[N].sum
    BY <1>16, <2>1, AsWordIs
  <2> QED
    BY <1>11, <1>12, <1>17, <1>18, <2>2
<1>19. CASE ~Positive_(t)
  <2>1. Neg(1) \in Word /\ Same(Neg(1), -1)
    BY SmallWords, WordSums
  <2>2. multiply(read[N].sum, Neg(1)) = AsWord(v[N] * (-1))
    <3>1. v[N] \in Int /\ -1 \in Int
      BY <1>16
    <3> QED
      BY <1>16, <2>1, <3>1, MultiplyIs
  <2>3. v[N] * (-1) = -v[N]
    BY <1>16
  <2> QED
    BY <1>11, <1>12, <1>17, <1>19, <2>2, <2>3
<1> QED
  BY <1>18, <1>19

LEMMA EditingAlways == Spec => [](Consistent /\ Keyboard_ /\ Editing)
<1>1. Init => Consistent /\ Keyboard_ /\ Editing
  BY TypedInit, KeyboardInit, EditingInit
<1>2. Consistent /\ Keyboard_ /\ Editing /\ [Next]_vars => (Consistent /\ Keyboard_ /\ Editing)'
  BY TypedNext, KeyboardNext, EditingNext
<1> QED
  BY <1>1, <1>2, PTL DEF Spec

LEMMA CharsAre ==
  ASSUME NEW s, NEW line \in Seq(Nat), Holds(s, line) PROVE Chars(s) = line
<1>1. s.currentLength = Len(line) /\ \A j \in 1 .. Len(line) : s.array[j - 1] = line[j]
  BY DEF Holds
<1>2. line = [j \in 1 .. Len(line) |-> line[j]]
  OBVIOUS
<1>3. Chars(s) = [j \in 1 .. Len(line) |-> s.array[j - 1]]
  BY <1>1 DEF Chars
<1> QED
  BY <1>1, <1>2, <1>3

LEMMA WeighedIs ==
  ASSUME NEW t \in Seq(Nat), Number(t), Weighed(t)
  PROVE  TenTo[DigitsOf(t, Len(t) - 1)] < HalfOfWords /\ Divisible(TenTo[DigitsOf(t, Len(t) - 1)], 10)
<1>1. DigitsOf(t, Len(t) - 1) = Len(t) - (IF Positive_(t) THEN 1 ELSE 2)
  <2>1. Len(t) \in Nat \ {0} /\ DigitsOf(t, Len(t)) = Len(t) - (IF Positive_(t) THEN 0 ELSE 1)
        /\ DigitsOf(t, Len(t)) = DigitsOf(t, Len(t) - 1) + 1 /\ DigitsOf(t, Len(t) - 1) \in Nat
    <3>1. Len(t) \in Nat \ {0}
      BY NumberIs
    <3>2. Len(t) - 1 \in 0 .. Len(t)
      BY <3>1
    <3> QED
      BY <3>1, <3>2, NumberIs
  <2> QED
    BY <2>1
<1> QED
  BY <1>1 DEF Weighed

(* Keyboard.jack and String.jack: the line that was typed and corrected is  *)
(* what the keys make of it, and readInt returns its number.               *)
THEOREM LineIsRead == Spec => []LineRead
<1>1. ASSUME Consistent, Keyboard_, Editing PROVE LineRead
  <2> SUFFICES ASSUME Fits(Handled)
               PROVE  LET line == EditedLine(Handled)
                      IN /\ Kept(buffer) /\ Chars(buffer) = line
                         /\ pc = "done" /\ Number(line) /\ Weighed(line) => readInt = AsWord(ValueOf(line))
    BY DEF LineRead
  <2> DEFINE line == EditedLine(Handled)
  <2>1. Handled \in Seq(Nat)
    <3>1. Range(plan) \subseteq Nat /\ seen \in Seq(Nat)
      BY <1>1, PlanKeys, SeqMonotonic DEF Consistent
    <3>2. Front(seen) \in Seq(Nat)
      <4>1. CASE seen = <<>>
        <5>1. <<>> \in Seq(Nat)
          OBVIOUS
        <5> QED
          BY <4>1, <5>1, FrontOfNone
      <4>2. CASE seen # <<>>
        BY <3>1, <4>2 DEF Front
      <4> QED
        BY <4>1, <4>2
    <3> QED
      BY <3>1, <3>2 DEF Handled
  <2>2. line \in Seq(Nat)
    BY <2>1, EditedMore
  <2>3. Holds(buffer, line)
    BY <1>1 DEF Editing
  <2> HIDE DEF line
  <2>4. Kept(buffer) /\ Chars(buffer) = line
    BY <2>2, <2>3, CharsAre DEF Holds
  <2>5. Number(line) /\ Weighed(line) => readInt = AsWord(ValueOf(line))
    BY <2>2, <2>4, WeighedIs, IntValueIs DEF readInt
  <2> QED
    BY <2>4, <2>5 DEF line
<1> QED
  BY <1>1, EditingAlways, PTL

-----------------------------------------------------------------------------
(* The numbers that are left when the last digits are taken off.           *)
Left(a, k) == a \div TenTo[k]

LEMMA QuotientSteps ==
  ASSUME NEW a \in Nat, NEW k \in Nat
  PROVE  /\ Left(a, 0) = a
         /\ Left(a, k) \in Nat /\ Left(a, k) <= a
         /\ Left(a, k + 1) = Left(a, k) \div 10
         /\ Left(a, k) - 10 * Left(a, k + 1) \in 0 .. 9
<1> DEFINE b == TenTo[k]
           q == a \div b
           r == a % b
           u == q \div 10
           v == q % 10
<1>1. b \in Nat \ {0} /\ TenTo[k + 1] = 10 * b /\ TenTo[0] = 1
  BY Tens, TenZero
<1>2. a \div 1 = a
  OBVIOUS
<1> HIDE DEF b
<1>3. q \in Int /\ r \in 0 .. b - 1 /\ a = b * q + r
  BY <1>1
<1>4. q \in Nat /\ q <= a
  <2>1. q < 0 => b * q <= -b
    BY <1>1, <1>3
  <2>2. q >= 0
    BY <1>1, <1>3, <2>1
  <2>3. b * q >= q
    BY <1>1, <1>3, <2>2
  <2> DEFINE p == b * q
  <2>4. p \in Int /\ p >= q /\ a = p + r /\ r >= 0 /\ r \in Int
    BY <1>1, <1>3, <2>3
  <2> HIDE DEF p, q, r
  <2> QED
    BY <1>3, <2>2, <2>4
<1> HIDE DEF q, r
<1>5. u \in Nat /\ v \in 0 .. 9 /\ q = 10 * u + v
  BY <1>4
<1> HIDE DEF u, v
<1>6. a = (10 * b) * u + (b * v + r) /\ b * v + r \in Nat /\ b * v + r < 10 * b
  <2>1. b * (10 * u + v) = (10 * b) * u + b * v
    BY <1>1, <1>5
  <2>2. b * v <= b * 9 /\ b * v >= 0 /\ b * v \in Int
    BY <1>1, <1>5
  <2> DEFINE p == b * v
             z == (10 * b) * u
  <2>3. a = z + p + r /\ z \in Int
    BY <1>1, <1>3, <1>5, <2>1
  <2> HIDE DEF p, z
  <2>4. p \in Int /\ p >= 0 /\ p <= b * 9
    BY <2>2 DEF p
  <2> QED
    BY <1>1, <1>3, <2>3, <2>4 DEF p, z
<1>7. a \div (10 * b) = u
  BY <1>1, <1>5, <1>6, QuotientIs
<1>8. Left(a, k) = q /\ Left(a, k + 1) = u /\ Left(a, 0) = a
  BY <1>1, <1>2, <1>7 DEF Left, q, b
<1>9. q \div 10 = u
  BY DEF u
<1> QED
  BY <1>4, <1>5, <1>8, <1>9

LEMMA QuotientFalls ==
  ASSUME NEW a \in Nat PROVE \A m, n \in Nat : m <= n => Left(a, n) <= Left(a, m)
<1> SUFFICES ASSUME NEW m \in Nat PROVE \A n \in Nat : m <= n => Left(a, n) <= Left(a, m)
  OBVIOUS
<1> DEFINE S == {n \in Nat : m <= n => Left(a, n) <= Left(a, m)}
<1>1. 0 \in S
  BY QuotientSteps
<1>2. ASSUME NEW n \in S PROVE n + 1 \in S
  <2>1. Left(a, n + 1) = Left(a, n) \div 10 /\ Left(a, n) \in Nat /\ Left(a, m) \in Nat
    BY QuotientSteps
  <2>2. Left(a, n + 1) <= Left(a, n) /\ Left(a, n + 1) \in Nat
    BY <2>1, TenthIs
  <2>3. CASE m <= n
    BY <2>1, <2>2, <2>3
  <2>4. CASE m = n + 1
    BY <2>2, <2>4
  <2> QED
    BY <2>3, <2>4
<1>3. \A n \in Nat : n \in S
  BY <1>1, <1>2, AllNumbers
<1> QED
  BY <1>3

(* A number that is smaller than a power of ten has no more digits than     *)
(* its exponent, and the other way around.                                 *)
LEMMA NothingLeft == \A a, k \in Nat : Left(a, k) = 0 <=> a < TenTo[k]
<1> SUFFICES ASSUME NEW a \in Nat, NEW k \in Nat PROVE Left(a, k) = 0 <=> a < TenTo[k]
  OBVIOUS
<1> DEFINE b == TenTo[k]
           q == a \div b
<1>1. b \in Nat \ {0}
  BY Tens
<1> HIDE DEF b
<1>2. q \in Int /\ a % b \in 0 .. b - 1 /\ a = b * q + (a % b)
  BY <1>1
<1>3. q >= 1 => b * q >= b
  BY <1>1, <1>2
<1>4. q = 0 => b * q = 0
  BY <1>1
<1>5. q <= -1 => b * q <= -b
  BY <1>1, <1>2
<1> HIDE DEF q
<1>6. q = 0 <=> a < b
  BY <1>1, <1>2, <1>3, <1>4, <1>5
<1> QED
  BY <1>6 DEF Left, q, b

(* Words have few digits: ten is more than eight.                          *)
LEMMA TensExceed == \A n \in Nat : TwoTo[3 * n] <= TenTo[n]
<1> DEFINE S == {n \in Nat : TwoTo[3 * n] <= TenTo[n]}
<1>1. 0 \in S
  BY PowerZero, TenZero
<1>2. ASSUME NEW n \in S PROVE n + 1 \in S
  <2>1. 3 * (n + 1) = 3 * n + 1 + 1 + 1 /\ 3 * n \in Nat /\ 3 * n + 1 \in Nat /\ 3 * n + 1 + 1 \in Nat
    OBVIOUS
  <2>2. TwoTo[3 * n + 1 + 1 + 1] = 8 * TwoTo[3 * n] /\ TwoTo[3 * n] \in Nat
    BY <2>1, Powers
  <2>3. TenTo[n + 1] = 10 * TenTo[n] /\ TenTo[n] \in Nat
    BY Tens
  <2> QED
    BY <2>1, <2>2, <2>3
<1>3. \A n \in Nat : n \in S
  BY <1>1, <1>2, AllNumbers
<1> QED
  BY <1>3

LEMMA MaxDigitsIs == MaxDigits \in Nat \ {0} /\ \A a \in Nat : a < HalfOfWords => Left(a, MaxDigits + 1) = 0
<1>1. Bits \in Nat /\ Bits >= 6
  BY BitsAssumption
<1>2. MaxDigits \in Nat \ {0} /\ 3 * (MaxDigits + 1) >= Bits
  BY <1>1 DEF MaxDigits
<1>3. TenTo[MaxDigits + 1] >= TwoTo[Bits - 1]
  <2>1. MaxDigits + 1 \in Nat /\ 3 * (MaxDigits + 1) \in Nat /\ Bits - 1 \in Nat /\ Bits - 1 <= 3 * (MaxDigits + 1)
    BY <1>1, <1>2
  <2>2. TwoTo[Bits - 1] <= TwoTo[3 * (MaxDigits + 1)] /\ TwoTo[Bits - 1] \in Nat /\ TwoTo[3 * (MaxDigits + 1)] \in Nat
    BY <2>1, PowersGrow, Powers
  <2>3. TwoTo[3 * (MaxDigits + 1)] <= TenTo[MaxDigits + 1]
    BY <2>1, TensExceed
  <2>4. TenTo[MaxDigits + 1] \in Nat
    BY <2>1, Tens
  <2> QED
    BY <2>2, <2>3, <2>4
<1>4. ASSUME NEW a \in Nat, a < HalfOfWords PROVE Left(a, MaxDigits + 1) = 0
  <2>0. MaxDigits + 1 \in Nat /\ HalfOfWords \in Nat
    BY <1>2, Sizes
  <2>1. TenTo[MaxDigits + 1] \in Nat /\ MaxDigits + 1 \in Nat /\ HalfOfWords \in Nat
    BY <2>0, Tens
  <2>2. a < TenTo[MaxDigits + 1]
    BY <1>3, <1>4, <2>1 DEF HalfOfWords
  <2> QED
    BY <2>1, <2>2, NothingLeft
<1> QED
  BY <1>2, <1>4

-----------------------------------------------------------------------------
(* A sequence that a loop makes longer, an element a round, until it is     *)
(* complete.                                                               *)
Beginning(w, n) == [i \in 1 .. n |-> w[i - 1]]
Longer_(w, n)   == Append(Beginning(w, n), w[n])
Grows(G, w, K)  == \A n \in 1 .. K : G[n][Beginning(w, n)] = Beginning(w, n + 1)
Rests(G, w, K, N) == \A n \in K + 1 .. N : G[n][Beginning(w, K + 1)] = Beginning(w, K + 1)

LEMMA GrowsTo ==
  ASSUME NEW N \in Nat, NEW K \in 0 .. N, NEW V, NEW w, NEW G, NEW f \in [0 .. N -> V],
         Iterates(f, 0 .. N, <<w[0]>>, G),
         Grows(G, w, K), Rests(G, w, K, N)
  PROVE  f[N] = Beginning(w, K + 1)
<1> DEFINE Reached(n) == IF n < K THEN n ELSE K
           S == {n \in 0 .. N : f[n] = Beginning(w, Reached(n) + 1)}
<1>1. 0 \in S
  <2>1. f[0] = <<w[0]>>
    BY DEF Iterates
  <2>2. <<w[0]>> = Beginning(w, 1)
    BY DEF Beginning
  <2>3. Reached(0) + 1 = 1
    OBVIOUS
  <2>4. f[0] = Beginning(w, Reached(0) + 1)
    BY <2>1, <2>2, <2>3
  <2> HIDE DEF Reached
  <2> QED
    BY <2>4
<1>2. ASSUME NEW n \in S, n < N PROVE n + 1 \in S
  <2>0. n \in 0 .. N
    OBVIOUS
  <2>1. n + 1 \in 0 .. N /\ n + 1 # 0 /\ n + 1 - 1 = n /\ n \in Nat
    BY <1>2, <2>0
  <2>2. f[n + 1] = G[n + 1][f[n]]
    BY <2>1 DEF Iterates
  <2>3. CASE n < K
    <3>1. n + 1 \in 1 .. K /\ Reached(n) + 1 = n + 1 /\ Reached(n + 1) + 1 = n + 1 + 1
      BY <2>1, <2>3
    <3>2. f[n] = Beginning(w, n + 1)
      BY <3>1
    <3>3. G[n + 1][Beginning(w, n + 1)] = Beginning(w, n + 1 + 1)
      BY <3>1 DEF Grows
    <3> QED
      BY <2>1, <2>2, <3>1, <3>2, <3>3
  <2>4. CASE n >= K
    <3>1. n + 1 \in K + 1 .. N /\ Reached(n) + 1 = K + 1 /\ Reached(n + 1) + 1 = K + 1
      BY <2>1, <2>4
    <3>2. G[n + 1][Beginning(w, K + 1)] = Beginning(w, K + 1)
      BY <3>1 DEF Rests
    <3> QED
      BY <2>1, <2>2, <3>1, <3>2
  <2> QED
    BY <2>1, <2>3, <2>4
<1>3. S \in SUBSET (0 .. N)
  OBVIOUS
<1> HIDE DEF S
<1>4. \A n \in 0 .. N : n \in S
  BY <1>1, <1>2, <1>3, AllRounds
<1>5. Reached(N) = K
  OBVIOUS
<1> QED
  BY <1>4, <1>5 DEF S

LEMMA BeginningIs ==
  ASSUME NEW W, NEW K \in Nat, NEW w \in [0 .. K -> W], NEW n \in 1 .. K + 1
  PROVE  Beginning(w, n) \in Seq(W) /\ Len(Beginning(w, n)) = n /\ Last(Beginning(w, n)) = w[n - 1]
<1> DEFINE s == Beginning(w, n)
<1>1. s \in Seq(W) /\ Len(s) = n /\ \A i \in 1 .. n : s[i] = w[i - 1]
  <2>1. \A i \in 1 .. n : w[i - 1] \in W
    OBVIOUS
  <2>2. n \in Nat
    OBVIOUS
  <2> QED
    BY <2>1, <2>2 DEF Beginning
<1> HIDE DEF s
<1> QED
  BY <1>1 DEF Last, s

LEMMA LongerIs ==
  ASSUME NEW W, NEW K \in Nat, NEW w \in [0 .. K -> W]
  PROVE  \A n \in 1 .. K : Longer_(w, n) = Beginning(w, n + 1)
<1> TAKE n \in 1 .. K
<1> DEFINE s == Beginning(w, n)
           t == Append(s, w[n])
<1>1. s \in Seq(W) /\ Len(s) = n /\ \A i \in 1 .. n : s[i] = w[i - 1]
  <2>1. \A i \in 1 .. n : w[i - 1] \in W
    OBVIOUS
  <2>2. n \in Nat
    OBVIOUS
  <2> QED
    BY <2>1, <2>2 DEF Beginning
<1> HIDE DEF s
<1>2. w[n] \in W
  OBVIOUS
<1>3. t \in Seq(W) /\ Len(t) = n + 1 /\ (\A i \in 1 .. n : t[i] = s[i]) /\ t[n + 1] = w[n]
  BY <1>1, <1>2, AppendProperties
<1> HIDE DEF t
<1>4. t = [i \in 1 .. n + 1 |-> t[i]]
  BY <1>3
<1>5. \A i \in 1 .. n + 1 : t[i] = w[i - 1]
  BY <1>1, <1>3
<1>6. t = Beginning(w, n + 1)
  BY <1>4, <1>5 DEF Beginning
<1> QED
  BY <1>6 DEF s, t, Longer_

-----------------------------------------------------------------------------
(* One digit: small words divided by ten, and what is left.                *)
LEMMA SmallDifference == \A m, n \in Nat : n <= m /\ m < HalfOfWords => Sub(m, n) = m - n
BY Sizes DEF Sub, Wrap

LEMMA SignedQuotient ==
  ASSUME NEW q \in Nat, q < HalfOfWords PROVE abs(AsWord(q)) = q /\ abs(AsWord(-q)) = q
<1>1. q \in Word /\ abs(q) = q /\ AsWord(q) = q
  BY SmallWord, AsWordOfWord
<1>2. CASE q = 0
  <2>1. -q = q
    <3>1. \A u \in Int : -u = 0 - u
      OBVIOUS
    <3>2. -q = 0 - q
      BY <3>1
    <3>3. 0 - q = q
      BY <1>2
    <3> QED
      BY <3>2, <3>3
  <2> QED
    BY <1>1, <2>1
<1>3. CASE q > 0
  <2> DEFINE w == Modulus - q
  <2>1. w \in Word /\ w >= HalfOfWords /\ w \in Int
    BY <1>3, Sizes
  <2>2. Same(-q, w)
    <3>1. -q - w = (-1) * Modulus /\ -1 \in Int
      BY Sizes
    <3> QED
      BY <3>1 DEF Same
  <2> HIDE DEF w
  <2>3. AsWord(-q) = w
    BY <2>1, <2>2, AsWordIs
  <2>4. w > HalfOfWords /\ Neg(w) = q
    BY <1>3, <2>1, Sizes DEF Neg, Wrap, w
  <2>5. Less(w, 0)
    BY <2>1, <2>4, LessZero
  <2> QED
    BY <1>1, <2>3, <2>4, <2>5 DEF abs
<1> QED
  BY <1>2, <1>3

LEMMA DigitIs ==
  ASSUME NEW z \in Word, Divisible(z, 10)
  PROVE  /\ tens(z) = Magnitude(z) \div 10
         /\ digit(z) = Magnitude(z) - 10 * (Magnitude(z) \div 10)
<1> DEFINE a == Magnitude(z)
           q == a \div 10
<1>1. 10 \in Word /\ Magnitude(10) = 10 /\ Signed(10) = 10 /\ HalfOfWords \in Nat /\ 10 < HalfOfWords
  BY TenIsSmall, SmallWord, Sizes
<1>2. a \in Nat /\ a < HalfOfWords /\ abs(z) = a
  BY <1>1, DivisibleTyped, AbsIs
<1> HIDE DEF a
<1>3. q \in Nat /\ 10 * q <= a /\ q < HalfOfWords
  BY <1>1, <1>2, TenthIs
<1>4. divide(z, 10) \in {AsWord(q), AsWord(-q)}
  <2>1. divide(z, 10) = IntegerPart(z, 10)
    BY <1>1, DivideIs
  <2> QED
    BY <1>1, <2>1 DEF IntegerPart, a
<1> HIDE DEF q
<1>5. tens(z) = q
  BY <1>3, <1>4, SignedQuotient DEF tens
<1>6. multiply(q, 10) = q * 10
  <2>1. q \in Word /\ q * 10 < Modulus
    BY <1>2, <1>3, SmallWord, Sizes
  <2> QED
    BY <1>1, <2>1, SmallProduct
<1>7. digit(z) = a - q * 10
  <2>1. q * 10 \in Nat /\ q * 10 <= a
    BY <1>3
  <2>2. Sub(a, q * 10) = a - q * 10
    BY <1>2, <2>1, SmallDifference
  <2> QED
    BY <1>2, <1>5, <1>6, <2>2 DEF digit
<1>8. q * 10 = 10 * q
  BY <1>3
<1> QED
  BY <1>5, <1>7, <1>8 DEF a, q

LEMMA LastDigitIs ==
  ASSUME NEW a \in Nat, a < HalfOfWords, Divisible(a, 10)
  PROVE  lastDigit(a) = a - 10 * (a \div 10)
<1> DEFINE q == a \div 10
<1>1. divide(a, 10) = q /\ q \in Word /\ q <= a /\ 10 \in Word
  BY TenthOfWord, TenIsSmall
<1>2. q \in Nat /\ 10 * q <= a
  BY TenthIs
<1> HIDE DEF q
<1>3. multiply(q, 10) = q * 10
  <2>1. q * 10 < Modulus
    BY <1>2, Sizes
  <2> QED
    BY <1>1, <2>1, SmallProduct
<1>4. Sub(a, q * 10) = a - q * 10
  <2>1. q * 10 \in Nat /\ q * 10 <= a
    BY <1>2
  <2> QED
    BY <2>1, SmallDifference
<1>5. q * 10 = 10 * q
  BY <1>2
<1> QED
  BY <1>1, <1>3, <1>4, <1>5 DEF lastDigit, q

-----------------------------------------------------------------------------
(* The calls of intToString and of printInt that wait for one another.      *)
LEMMA ValuesAre ==
  ASSUME NEW a \in Nat, a < HalfOfWords, Divisible(a, 10), NEW K \in Nat, Left(a, K) < 10,
         \A k \in 0 .. K - 1 : Left(a, k) >= 10
  PROVE  Values(a) = [i \in 1 .. K + 1 |-> Left(a, i - 1)]
<1> DEFINE values[n \in 0 .. MaxDigits] ==
             IF n = 0 THEN <<a>>
             ELSE LET v == values[n - 1]
                  IN IF Len(v) < n \/ Less(Last(v), 10) THEN v ELSE Append(v, divide(Last(v), 10))
           W == 0 .. a
           V == {s \in Seq(W) : s # <<>>}
           After(v, n) == IF Len(v) < n \/ Less(Last(v), 10) THEN v ELSE Append(v, divide(Last(v), 10))
           first == <<a>>
           G == [n \in 1 .. MaxDigits |-> [v \in V |-> After(v, n)]]
           w == [k \in 0 .. K |-> Left(a, k)]
<1>1. MaxDigits \in Nat /\ HalfOfWords \in Nat /\ 10 < HalfOfWords
  BY MaxDigitsIs, Sizes
<1>2. ASSUME NEW u \in W PROVE divide(u, 10) = u \div 10 /\ u \div 10 \in W /\ u \in Nat /\ u < HalfOfWords
  <2>1. u \in Nat /\ u <= a /\ u < HalfOfWords
    BY <1>1
  <2>2. Divisible(u, 10)
    BY <2>1, DivisibleLess
  <2>3. divide(u, 10) = u \div 10 /\ u \div 10 <= u
    BY <2>1, <2>2, TenthOfWord
  <2>4. u \div 10 \in Nat
    BY <2>1, TenthIs
  <2> QED
    BY <2>1, <2>3, <2>4
<1>3. K <= MaxDigits
  <2>1. SUFFICES ASSUME MaxDigits < K PROVE FALSE
    BY <1>1
  <2>2. Left(a, MaxDigits) >= 10
    BY <1>1, <2>1
  <2>3. Left(a, MaxDigits + 1) = Left(a, MaxDigits) \div 10 /\ Left(a, MaxDigits) \in Nat
    BY <1>1, QuotientSteps
  <2>4. Left(a, MaxDigits + 1) = 0
    BY MaxDigitsIs
  <2>5. Left(a, MaxDigits) < 10 * (Left(a, MaxDigits) \div 10) + 10
    BY <2>3, TenthIs
  <2> QED
    BY <2>2, <2>3, <2>4, <2>5
<1>4. w \in [0 .. K -> W] /\ w[0] = a /\ \A k \in 0 .. K : w[k] = Left(a, k)
  <2>1. \A k \in 0 .. K : Left(a, k) \in W
    <3> TAKE k \in 0 .. K
    <3>1. k \in Nat
      OBVIOUS
    <3>2. Left(a, k) \in Nat /\ Left(a, k) <= a
      BY <3>1, QuotientSteps
    <3> QED
      BY <3>2
  <2>2. Left(a, 0) = a
    BY QuotientSteps
  <2> HIDE DEF W
  <2> QED
    BY <2>1, <2>2
<1>5. first \in V /\ first = <<w[0]>>
  BY <1>4
<1> HIDE DEF W, w
<1>6. ASSUME NEW n \in 1 .. MaxDigits, NEW v \in V PROVE After(v, n) \in V
  <2>1. v \in Seq(W) /\ Len(v) \in Nat /\ Len(v) >= 1
    BY EmptySeq
  <2>2. Last(v) \in W
    BY <2>1 DEF Last
  <2>3. divide(Last(v), 10) \in W
    BY <1>2, <2>2
  <2> QED
    BY <2>1, <2>3
<1>7. G \in [1 .. MaxDigits -> [V -> V]] /\ \A n \in 1 .. MaxDigits : \A v \in V : G[n][v] = After(v, n)
  BY <1>6
<1> HIDE DEF G, After, first, V
<1>8. PICK f \in [0 .. MaxDigits -> V] : Iterates(f, 0 .. MaxDigits, first, G)
  BY <1>1, <1>5, <1>7, BoundedLoop
<1>9. f = [n \in 0 .. MaxDigits |-> IF n = 0 THEN first ELSE After(f[n - 1], n)]
  <2>1. \A n \in 0 .. MaxDigits : n # 0 => n \in 1 .. MaxDigits /\ n - 1 \in 0 .. MaxDigits /\ f[n - 1] \in V
    BY <1>1, <1>8
  <2> QED
    BY <1>7, <1>8, <2>1 DEF Iterates
<1>10. values = [n \in 0 .. MaxDigits |-> IF n = 0 THEN first ELSE After(values[n - 1], n)]
  BY <1>9 DEF values, After, first
<1>11. Values(a) = values[MaxDigits]
  BY DEF Values
<1> HIDE DEF values
<1>12. values \in [0 .. MaxDigits -> V] /\ Iterates(values, 0 .. MaxDigits, first, G)
  <2> DEFINE S == {n \in 0 .. MaxDigits : values[n] \in V}
  <2>1. 0 \in S
    BY <1>1, <1>5, <1>10
  <2>2. ASSUME NEW n \in S, n < MaxDigits PROVE n + 1 \in S
    <3>1. n + 1 \in 1 .. MaxDigits /\ n + 1 \in 0 .. MaxDigits /\ n + 1 # 0 /\ n + 1 - 1 = n /\ values[n] \in V
      BY <1>1, <2>2
    <3>2. values[n + 1] = After(values[n], n + 1)
      BY <1>10, <3>1
    <3> QED
      BY <1>6, <3>1, <3>2
  <2>3. S \in SUBSET (0 .. MaxDigits)
    OBVIOUS
  <2> HIDE DEF S
  <2>4. \A n \in 0 .. MaxDigits : n \in S
    BY <1>1, <2>1, <2>2, <2>3, AllRounds
  <2>5. \A n \in 0 .. MaxDigits : values[n] \in V
    BY <2>4 DEF S
  <2>6. \A n \in 0 .. MaxDigits : n # 0 => n \in 1 .. MaxDigits /\ n - 1 \in 0 .. MaxDigits
    BY <1>1
  <2>7. values \in [0 .. MaxDigits -> V]
    BY <1>10, <2>5
  <2> QED
    BY <1>7, <1>10, <2>5, <2>6, <2>7, SMTT(30) DEF Iterates
<1>13. ASSUME NEW n \in 1 .. K PROVE G[n][Beginning(w, n)] = Beginning(w, n + 1)
  <2> DEFINE s == Beginning(w, n)
  <2>1. s \in Seq(W) /\ Len(s) = n /\ Last(s) = w[n - 1] /\ Append(s, w[n]) = Beginning(w, n + 1)
    <3>1. w \in [0 .. K -> W] /\ K \in Nat /\ n \in 1 .. K
      BY <1>4
    <3>2. n \in 1 .. K + 1
      BY <3>1
    <3>3. Beginning(w, n) \in Seq(W) /\ Len(Beginning(w, n)) = n /\ Last(Beginning(w, n)) = w[n - 1]
      BY ONLY <3>1, <3>2, BeginningIs
    <3>4. Longer_(w, n) = Beginning(w, n + 1)
      BY <3>1, LongerIs
    <3> QED
      BY <3>3, <3>4 DEF Longer_
  <2>2. s \in V /\ n \in 1 .. MaxDigits /\ n - 1 \in 0 .. K - 1 /\ n - 1 \in 0 .. K /\ n - 1 \in Nat /\ n - 1 + 1 = n /\ n \in 0 .. K
    <3>1. s # <<>>
      BY <2>1
    <3> HIDE DEF s
    <3>2. s \in V
      BY <2>1, <3>1 DEF V
    <3> QED
      BY <1>1, <1>3, <3>2
  <2> HIDE DEF s
  <2>3. w[n - 1] = Left(a, n - 1) /\ w[n] = Left(a, n) /\ w[n - 1] \in W /\ Left(a, n - 1) >= 10
    BY <1>4, <2>2
  <2>4. ~Less(Last(s), 10)
    <3>1. Last(s) \in Nat /\ Last(s) < HalfOfWords /\ ~(Last(s) < 10) /\ 10 \in Nat
      BY <1>2, <2>1, <2>3
    <3> QED
      BY <1>1, <3>1, LessSmall
  <2>5. divide(Last(s), 10) = w[n]
    <3>1. Left(a, n - 1 + 1) = Left(a, n - 1) \div 10
      BY <2>2, QuotientSteps
    <3> QED
      BY <1>2, <2>1, <2>2, <2>3, <3>1
  <2>6. After(s, n) = Append(s, w[n])
    <3>1. ~(Len(s) < n)
      BY <2>1, <2>2
    <3> QED
      BY <2>4, <2>5, <3>1 DEF After
  <2> QED
    BY <1>7, <2>1, <2>2, <2>6 DEF s
<1>14. ASSUME NEW n \in K + 1 .. MaxDigits PROVE G[n][Beginning(w, K + 1)] = Beginning(w, K + 1)
  <2> DEFINE s == Beginning(w, K + 1)
  <2>1. s \in Seq(W) /\ Len(s) = K + 1 /\ Last(s) = w[K]
    <3>1. K + 1 \in 1 .. K + 1 /\ K + 1 - 1 = K
      OBVIOUS
    <3> QED
      BY <1>4, <3>1, BeginningIs
  <2>2. s \in V /\ n \in 1 .. MaxDigits
    <3>1. s # <<>>
      BY <2>1
    <3> HIDE DEF s
    <3> QED
      BY <1>1, <2>1, <3>1 DEF V
  <2> HIDE DEF s
  <2>3. w[K] = Left(a, K) /\ w[K] \in W
    BY <1>4
  <2>4. Less(Last(s), 10)
    BY <1>1, <1>2, <2>1, <2>3, LessSmall
  <2>5. After(s, n) = s
    BY <2>4 DEF After
  <2> QED
    BY <1>7, <2>2, <2>5 DEF s
<1>15. values[MaxDigits] = Beginning(w, K + 1)
  <2>0. MaxDigits \in Nat
    BY <1>1
  <2>1. K \in 0 .. MaxDigits
    BY <1>1, <1>3
  <2>2. values \in [0 .. MaxDigits -> V] /\ Iterates(values, 0 .. MaxDigits, <<w[0]>>, G)
    BY <1>5, <1>12
  <2>3. Grows(G, w, K)
    BY <1>13 DEF Grows
  <2>4. Rests(G, w, K, MaxDigits)
    BY <1>14 DEF Rests
  <2> QED
    BY ONLY <2>0, <2>1, <2>2, <2>3, <2>4, GrowsTo, ZenonT(60)
<1>16. Beginning(w, K + 1) = [i \in 1 .. K + 1 |-> Left(a, i - 1)]
  BY <1>4 DEF Beginning
<1> QED
  BY <1>11, <1>15, <1>16

(* The number a call of printInt is for, k calls inside the first.          *)
AtCall(z, k) == IF k = 0 THEN z ELSE Left(Magnitude(z), k)

LEMMA CallIs ==
  ASSUME NEW z \in Word, Divisible(z, 10), NEW k \in Nat
  PROVE  LET a == Magnitude(z)
         IN /\ a \in Nat /\ a < HalfOfWords
            /\ Left(a, k) \in Nat /\ Left(a, k) <= a /\ Left(a, k + 1) \in Nat /\ Left(a, k + 1) <= a
            /\ tens(AtCall(z, k)) = Left(a, k + 1)
            /\ digit(AtCall(z, k)) = Left(a, k) - 10 * Left(a, k + 1)
            /\ digit(AtCall(z, k)) \in 0 .. 9
            /\ abs(Left(a, k + 1)) = Left(a, k + 1)
            /\ sign(AtCall(z, k)) = IF k = 0 THEN sign(z) ELSE <<>>
<1> DEFINE a == Magnitude(z)
           u == Left(a, k)
           c == AtCall(z, k)
<1>1. a \in Nat /\ a < HalfOfWords /\ HalfOfWords \in Nat
  BY TenIsSmall, DivisibleTyped, Sizes
<1> HIDE DEF a
<1>2. k + 1 \in Nat
  OBVIOUS
<1>3. Left(a, 0) = a /\ u \in Nat /\ u <= a /\ Left(a, k + 1) = u \div 10 /\ u - 10 * Left(a, k + 1) \in 0 .. 9
  BY <1>1, QuotientSteps
<1>4. Left(a, k + 1) \in Nat /\ Left(a, k + 1) <= a
  BY <1>1, <1>2, QuotientSteps
<1> HIDE DEF u
<1>5. u \in Word /\ Magnitude(u) = u /\ ~Less(u, 0)
  BY <1>1, <1>3, SmallWord
<1>6. Magnitude(c) = u /\ c \in Word /\ Divisible(c, 10)
  <2>1. CASE k = 0
    BY <1>3, <2>1 DEF AtCall, a, u
  <2>2. CASE k # 0
    <3>1. c = u
      BY <2>2 DEF AtCall, a, u
    <3>2. Divisible(u, 10)
      <4>1. Divisible(a, 10)
        BY TenIsSmall, SmallWord, <1>1 DEF Divisible, a
      <4> QED
        BY <1>1, <1>3, <4>1, DivisibleLess
    <3> HIDE DEF c
    <3> QED
      BY <1>5, <3>1, <3>2
  <2> QED
    BY <2>1, <2>2
<1>7. sign(c) = IF k = 0 THEN sign(z) ELSE <<>>
  BY <1>5 DEF AtCall, sign, a, u
<1> HIDE DEF c
<1>8. tens(c) = u \div 10 /\ digit(c) = u - 10 * (u \div 10)
  BY <1>6, DigitIs
<1>9. abs(Left(a, k + 1)) = Left(a, k + 1)
  <2> DEFINE b == Left(a, k + 1)
  <2>1. b \in Nat /\ b < HalfOfWords
    BY <1>1, <1>4
  <2> HIDE DEF b
  <2>2. abs(b) = b
    BY <2>1, SmallWord
  <2> QED
    BY <2>2 DEF b
<1> QED
  BY <1>1, <1>3, <1>4, <1>7, <1>8, <1>9 DEF a, u, c

LEMMA NumbersAre ==
  ASSUME NEW z \in Word, Divisible(z, 10), NEW J \in Nat, Left(Magnitude(z), J + 1) <= 10,
         \A j \in 1 .. J : Left(Magnitude(z), j) > 10
  PROVE  Numbers(z) = [i \in 1 .. J + 1 |-> AtCall(z, i - 1)]
<1> DEFINE numbers[n \in 0 .. MaxDigits] ==
             IF n = 0 THEN <<z>>
             ELSE LET v == numbers[n - 1]
                  IN IF Len(v) < n \/ ~further(tens(Last(v))) THEN v ELSE Append(v, abs(tens(Last(v))))
           a == Magnitude(z)
           W == {z} \cup 0 .. a
           V == {s \in Seq(W) : s # <<>>}
           After(v, n) == IF Len(v) < n \/ ~further(tens(Last(v))) THEN v ELSE Append(v, abs(tens(Last(v))))
           first == <<z>>
           G == [n \in 1 .. MaxDigits |-> [v \in V |-> After(v, n)]]
           w == [k \in 0 .. J |-> AtCall(z, k)]
<1>1. MaxDigits \in Nat /\ HalfOfWords \in Nat /\ 10 < HalfOfWords /\ 10 \in Nat
  BY MaxDigitsIs, Sizes
<1>2. ASSUME NEW u \in W PROVE abs(tens(u)) \in W
  <2>1. a \in Nat /\ a < HalfOfWords /\ Divisible(a, 10)
    <3>1. a \in Nat /\ a < HalfOfWords
      BY TenIsSmall, DivisibleTyped
    <3> QED
      BY <3>1, TenIsSmall, SmallWord DEF Divisible
  <2>2. u \in Word /\ Divisible(u, 10) /\ Magnitude(u) \in Nat /\ Magnitude(u) <= a
    <3>1. CASE u = z
      BY <2>1, <3>1
    <3>2. CASE u \in 0 .. a
      <4> HIDE DEF a
      <4>1. u \in Nat /\ u <= a /\ u < HalfOfWords
        BY <1>1, <2>1, <3>2
      <4>2. Divisible(u, 10) /\ u \in Word /\ Magnitude(u) = u
        BY <2>1, <4>1, DivisibleLess, SmallWord
      <4> QED
        BY <4>1, <4>2
    <3> QED
      BY <3>1, <3>2
  <2> HIDE DEF a
  <2>3. tens(u) = Magnitude(u) \div 10
    BY <2>2, DigitIs
  <2> DEFINE b == Magnitude(u) \div 10
  <2>4. b \in Nat /\ b <= a /\ b < HalfOfWords
    BY <1>1, <2>1, <2>2, TenthIs
  <2> HIDE DEF b
  <2>5. abs(b) = b
    BY <2>4, SmallWord
  <2>6. b \in W
    BY <2>1, <2>4
  <2> QED
    BY <2>3, <2>5, <2>6 DEF b
<1>3. ASSUME NEW k \in Nat
      PROVE  /\ tens(AtCall(z, k)) = Left(a, k + 1) /\ Left(a, k + 1) \in Nat /\ Left(a, k + 1) < HalfOfWords
             /\ abs(tens(AtCall(z, k))) = Left(a, k + 1)
             /\ further(tens(AtCall(z, k))) <=> Left(a, k + 1) > 10
  <2> DEFINE t == tens(AtCall(z, k))
             b == Left(a, k + 1)
  <2>1. t = b /\ b \in Nat /\ b <= a /\ a \in Nat /\ a < HalfOfWords /\ abs(b) = b
    BY CallIs
  <2> HIDE DEF t, b, a
  <2>2. further(t) <=> b > 10
    BY <1>1, <2>1, GreaterSmall DEF further
  <2> QED
    BY <1>1, <2>1, <2>2 DEF t, b
<1>4. J <= MaxDigits
  <2>1. SUFFICES ASSUME MaxDigits < J PROVE FALSE
    BY <1>1
  <2>2. Left(a, MaxDigits + 1) > 10
    BY <1>1, <2>1
  <2>3. a \in Nat /\ a < HalfOfWords
    BY CallIs, <1>1
  <2>4. Left(a, MaxDigits + 1) = 0
    BY <2>3, MaxDigitsIs
  <2> QED
    BY <2>2, <2>4
<1>5. w \in [0 .. J -> W] /\ w[0] = z /\ \A k \in 0 .. J : w[k] = AtCall(z, k)
  <2>1. \A k \in 0 .. J : AtCall(z, k) \in W
    <3> TAKE k \in 0 .. J
    <3>1. k \in Nat
      OBVIOUS
    <3>2. Left(a, k) \in Nat /\ Left(a, k) <= a
      BY <3>1, CallIs
    <3>3. Left(a, k) \in 0 .. a
      <4>1. a \in Nat
        BY <3>1, CallIs
      <4> HIDE DEF a
      <4> QED
        BY <3>2, <4>1
    <3> QED
      BY <3>3 DEF AtCall
  <2>2. AtCall(z, 0) = z
    BY DEF AtCall
  <2> HIDE DEF W
  <2> QED
    BY <2>1, <2>2
<1>6. first \in V /\ first = <<w[0]>>
  BY <1>5
<1> HIDE DEF W, w
<1>7. ASSUME NEW n \in 1 .. MaxDigits, NEW v \in V PROVE After(v, n) \in V
  <2>1. v \in Seq(W) /\ Len(v) \in Nat /\ Len(v) >= 1
    BY EmptySeq
  <2>2. Last(v) \in W
    BY <2>1 DEF Last
  <2>3. abs(tens(Last(v))) \in W
    BY <1>2, <2>2
  <2> QED
    BY <2>1, <2>3
<1>8. G \in [1 .. MaxDigits -> [V -> V]] /\ \A n \in 1 .. MaxDigits : \A v \in V : G[n][v] = After(v, n)
  BY <1>7
<1> HIDE DEF G, After, first, V
<1>9. PICK f \in [0 .. MaxDigits -> V] : Iterates(f, 0 .. MaxDigits, first, G)
  BY <1>1, <1>6, <1>8, BoundedLoop
<1>10. f = [n \in 0 .. MaxDigits |-> IF n = 0 THEN first ELSE After(f[n - 1], n)]
  <2>1. \A n \in 0 .. MaxDigits : n # 0 => n \in 1 .. MaxDigits /\ n - 1 \in 0 .. MaxDigits /\ f[n - 1] \in V
    BY <1>1, <1>9
  <2> QED
    BY <1>8, <1>9, <2>1 DEF Iterates
<1>11. numbers = [n \in 0 .. MaxDigits |-> IF n = 0 THEN first ELSE After(numbers[n - 1], n)]
  BY <1>10 DEF numbers, After, first
<1>12. Numbers(z) = numbers[MaxDigits]
  BY DEF Numbers
<1> HIDE DEF numbers
<1>13. numbers \in [0 .. MaxDigits -> V] /\ Iterates(numbers, 0 .. MaxDigits, first, G)
  <2> DEFINE S == {n \in 0 .. MaxDigits : numbers[n] \in V}
  <2>1. 0 \in S
    BY <1>1, <1>6, <1>11
  <2>2. ASSUME NEW n \in S, n < MaxDigits PROVE n + 1 \in S
    <3>1. n + 1 \in 1 .. MaxDigits /\ n + 1 \in 0 .. MaxDigits /\ n + 1 # 0 /\ n + 1 - 1 = n /\ numbers[n] \in V
      BY <1>1, <2>2
    <3>2. numbers[n + 1] = After(numbers[n], n + 1)
      BY <1>11, <3>1
    <3> QED
      BY <1>7, <3>1, <3>2
  <2>3. S \in SUBSET (0 .. MaxDigits)
    OBVIOUS
  <2> HIDE DEF S
  <2>4. \A n \in 0 .. MaxDigits : n \in S
    BY <1>1, <2>1, <2>2, <2>3, AllRounds
  <2>5. \A n \in 0 .. MaxDigits : numbers[n] \in V
    BY <2>4 DEF S
  <2>6. \A n \in 0 .. MaxDigits : n # 0 => n \in 1 .. MaxDigits /\ n - 1 \in 0 .. MaxDigits
    BY <1>1
  <2>7. numbers \in [0 .. MaxDigits -> V]
    BY <1>11, <2>5
  <2> QED
    BY <1>8, <1>11, <2>5, <2>6, <2>7 DEF Iterates
<1>14. ASSUME NEW n \in 1 .. J PROVE G[n][Beginning(w, n)] = Beginning(w, n + 1)
  <2> DEFINE s == Beginning(w, n)
  <2>1. s \in Seq(W) /\ Len(s) = n /\ Last(s) = w[n - 1] /\ Append(s, w[n]) = Beginning(w, n + 1)
    <3>1. w \in [0 .. J -> W] /\ J \in Nat /\ n \in 1 .. J
      BY <1>5
    <3>2. n \in 1 .. J + 1
      BY <3>1
    <3>3. Beginning(w, n) \in Seq(W) /\ Len(Beginning(w, n)) = n /\ Last(Beginning(w, n)) = w[n - 1]
      BY ONLY <3>1, <3>2, BeginningIs
    <3>4. Longer_(w, n) = Beginning(w, n + 1)
      BY ONLY <3>1, LongerIs
    <3> QED
      BY <3>3, <3>4 DEF Longer_
  <2>2. s \in V /\ n \in 1 .. MaxDigits /\ n - 1 \in 0 .. J /\ n - 1 \in Nat /\ n - 1 + 1 = n /\ n \in 0 .. J /\ n # 0
    <3>1. s # <<>>
      BY <2>1
    <3> HIDE DEF s
    <3>2. s \in V
      BY <2>1, <3>1 DEF V
    <3> QED
      BY <1>1, <1>4, <3>2
  <2> HIDE DEF s
  <2>3. w[n - 1] = AtCall(z, n - 1) /\ w[n] = AtCall(z, n)
    BY <1>5, <2>2
  <2>4. further(tens(Last(s))) /\ abs(tens(Last(s))) = Left(a, n)
    <3>1. Left(a, n - 1 + 1) > 10
      BY <2>2
    <3>2. further(tens(AtCall(z, n - 1))) /\ abs(tens(AtCall(z, n - 1))) = Left(a, n - 1 + 1)
      BY <1>3, <2>2, <3>1
    <3> QED
      BY <2>1, <2>2, <2>3, <3>2
  <2>5. Left(a, n) = w[n]
    BY <2>2, <2>3 DEF AtCall
  <2>6. After(s, n) = Append(s, w[n])
    <3>1. ~(Len(s) < n)
      BY <2>1, <2>2
    <3> QED
      BY <2>4, <2>5, <3>1 DEF After
  <2> QED
    BY <1>8, <2>1, <2>2, <2>6 DEF s
<1>15. ASSUME NEW n \in J + 1 .. MaxDigits PROVE G[n][Beginning(w, J + 1)] = Beginning(w, J + 1)
  <2> DEFINE s == Beginning(w, J + 1)
  <2>1. s \in Seq(W) /\ Len(s) = J + 1 /\ Last(s) = w[J]
    <3>1. J + 1 \in 1 .. J + 1 /\ J + 1 - 1 = J /\ J \in Nat /\ w \in [0 .. J -> W]
      BY <1>5
    <3> QED
      BY ONLY <3>1, BeginningIs
  <2>2. s \in V /\ n \in 1 .. MaxDigits
    <3>1. s # <<>>
      BY <2>1
    <3> HIDE DEF s
    <3> QED
      BY <1>1, <2>1, <3>1 DEF V
  <2> HIDE DEF s
  <2>3. w[J] = AtCall(z, J)
    BY <1>5
  <2>4. ~further(tens(Last(s)))
    <3>1. further(tens(AtCall(z, J))) <=> Left(a, J + 1) > 10
      BY <1>3
    <3>2. ~(Left(a, J + 1) > 10)
      <4>1. Left(a, J + 1) \in Nat /\ Left(a, J + 1) <= 10
        BY <1>3
      <4> QED
        BY <4>1
    <3> QED
      BY <2>1, <2>3, <3>1, <3>2
  <2>5. After(s, n) = s
    BY <2>4 DEF After
  <2> QED
    BY <1>8, <2>2, <2>5 DEF s
<1>16. numbers[MaxDigits] = Beginning(w, J + 1)
  <2>0. MaxDigits \in Nat
    BY <1>1
  <2>1. J \in 0 .. MaxDigits
    BY <1>1, <1>4
  <2>2. numbers \in [0 .. MaxDigits -> V] /\ Iterates(numbers, 0 .. MaxDigits, <<w[0]>>, G)
    BY <1>6, <1>13
  <2>3. Grows(G, w, J)
    BY <1>14 DEF Grows
  <2>4. Rests(G, w, J, MaxDigits)
    BY <1>15 DEF Rests
  <2> QED
    BY ONLY <2>0, <2>1, <2>2, <2>3, <2>4, GrowsTo, ZenonT(60)
<1>17. Beginning(w, J + 1) = [i \in 1 .. J + 1 |-> AtCall(z, i - 1)]
  BY <1>5 DEF Beginning
<1> QED
  BY <1>12, <1>16, <1>17

-----------------------------------------------------------------------------
(* Texts.  The K digits of a, the first one with all that is left in front. *)
DigitsIn(a, K) == [m \in 1 .. K |-> IF m = 1 THEN Left(a, K - 1) ELSE Left(a, K - m) - 10 * Left(a, K - m + 1)]

(* A sign, if there is one, and the first n digits.                        *)
IsStart(t, d, sg, n) ==
  /\ t \in Seq(Nat) /\ Len(t) = sg + n
  /\ sg = 1 => t[1] = Minus
  /\ \A m \in 1 .. n : t[sg + m] = Digit(d[m])

LEMMA DigitsTyped ==
  ASSUME NEW a \in Nat, NEW K \in Nat \ {0}
  PROVE  /\ DigitsIn(a, K)[1] = Left(a, K - 1) /\ DigitsIn(a, K)[1] \in Nat
         /\ \A m \in 2 .. K : /\ DigitsIn(a, K)[m] = Left(a, K - m) - 10 * Left(a, K - m + 1)
                              /\ DigitsIn(a, K)[m] \in 0 .. 9
<1> DEFINE d == DigitsIn(a, K)
<1>1. d[1] = Left(a, K - 1) /\ \A m \in 2 .. K : d[m] = Left(a, K - m) - 10 * Left(a, K - m + 1)
  BY DEF DigitsIn
<1>2. K - 1 \in Nat
  OBVIOUS
<1>3. Left(a, K - 1) \in Nat
  BY <1>2, QuotientSteps
<1>4. ASSUME NEW m \in 2 .. K PROVE Left(a, K - m) - 10 * Left(a, K - m + 1) \in 0 .. 9
  <2>1. K - m \in Nat
    OBVIOUS
  <2> QED
    BY <2>1, QuotientSteps
<1> QED
  BY <1>1, <1>3, <1>4

(* A text of all digits whose first one is a digit is a text of the number. *)
LEMMA TextIs ==
  ASSUME NEW a \in Nat, NEW K \in Nat \ {0}, NEW sg \in {0, 1}, NEW t,
         IsStart(t, DigitsIn(a, K), sg, K), Left(a, K - 1) <= 9, K > 1 => Left(a, K - 1) >= 1, sg = 1 => a > 0
  PROVE  IsTextOf(t, IF sg = 1 THEN -a ELSE a)
<1> DEFINE d == DigitsIn(a, K)
<1>1. /\ t \in Seq(Nat) /\ Len(t) = sg + K /\ K \in Nat /\ K >= 1
      /\ sg = 1 => t[1] = Minus
      /\ \A m \in 1 .. K : t[sg + m] = 48 + d[m]
  BY DEF IsStart, Digit
<1>2. d[1] = Left(a, K - 1) /\ \A m \in 2 .. K : d[m] = Left(a, K - m) - 10 * Left(a, K - m + 1) /\ d[m] \in 0 .. 9
  BY DigitsTyped
<1>3. Left(a, 0) = a /\ Left(a, K - 1) \in Nat
  BY <1>1, QuotientSteps
<1> HIDE DEF d
<1>4. \A m \in 1 .. K : d[m] \in 0 .. 9
  BY <1>2, <1>3
<1>5. \A i \in 1 .. Len(t) : i # 1 \/ sg = 0 => t[i] = 48 + d[i - sg] /\ i - sg \in 1 .. K
  <2> TAKE i \in 1 .. Len(t)
  <2>1. HAVE i # 1 \/ sg = 0
  <2>2. i - sg \in 1 .. K /\ sg + (i - sg) = i
    BY <1>1, <2>1
  <2> DEFINE m == i - sg
  <2>3. t[sg + m] = 48 + d[m]
    BY <1>1, <2>2
  <2> QED
    BY <2>2, <2>3
<1>6. \A i \in 1 .. Len(t) : t[i] \in 48 .. 57 \/ (t[i] = Minus /\ i = 1 /\ sg = 1)
  <2> TAKE i \in 1 .. Len(t)
  <2>1. CASE i # 1 \/ sg = 0
    <3> DEFINE m == i - sg
    <3>1. t[i] = 48 + d[m] /\ m \in 1 .. K
      BY <1>5, <2>1
    <3> HIDE DEF m
    <3>2. d[m] \in 0 .. 9
      BY <1>4, <3>1
    <3> DEFINE c == d[m]
    <3>3. t[i] = 48 + c /\ c \in 0 .. 9
      BY <3>1, <3>2
    <3> HIDE DEF c
    <3> QED
      BY ONLY <3>3
  <2>2. CASE i = 1 /\ sg = 1
    BY <1>1, <2>2
  <2> QED
    BY <2>1, <2>2
<1>7. t[Len(t)] # Minus /\ Len(t) \in 1 .. Len(t) /\ t # <<>>
  <2>1. Len(t) \in 1 .. Len(t) /\ (Len(t) # 1 \/ sg = 0)
    BY <1>1
  <2> DEFINE k == Len(t)
  <2>2. k \in 1 .. Len(t) /\ (k # 1 \/ sg = 0)
    BY <2>1
  <2> HIDE DEF k
  <2>3. t[k] \in 48 .. 57
    BY <1>6, <2>2
  <2>4. t[k] # Minus
    BY <2>3 DEF Minus
  <2>5. t # <<>>
    BY <1>1
  <2> QED
    BY <2>1, <2>4, <2>5 DEF k
<1>8. Number(t)
  <2>1. DOMAIN t = 1 .. Len(t)
    BY <1>1
  <2> QED
    BY <1>6, <1>7, <2>1 DEF Number, Digit, Last
<1>9. Positive_(t) <=> sg = 0
  <2>1. 1 \in 1 .. Len(t)
    BY <1>1
  <2>2. sg = 0 => t[1] \in 48 .. 57
    BY <1>6, <2>1
  <2>3. t[1] \in 48 .. 57 => t[1] # Minus
    BY ONLY DEF Minus
  <2>4. sg \in 0 .. 1 /\ (sg = 1 => t[1] = Minus)
    BY ONLY <1>1
  <2> QED
    BY ONLY <2>2, <2>3, <2>4 DEF Positive_
<1>10. PICK v \in [0 .. Len(t) -> Nat] :
         IsValue(v, t) /\ ValueOf(t) = IF Positive_(t) THEN v[Len(t)] ELSE -v[Len(t)]
  BY <1>1, <1>8, ValueIs
<1>11. v[0] = 0 /\ \A n \in 1 .. Len(t) : v[n] = IF t[n] = Minus THEN v[n - 1] ELSE 10 * v[n - 1] + t[n] - 48
  BY <1>10 DEF IsValue
<1> DEFINE S == {m \in 0 .. K : v[sg + m] = IF m = 0 THEN 0 ELSE Left(a, K - m)}
<1>12. 0 \in S
  <2>1. sg = 1 => v[1] = v[0]
    <3>1. 1 \in 1 .. Len(t) /\ 1 - 1 = 0
      BY <1>1
    <3> QED
      BY <1>1, <1>11, <3>1
  <2> QED
    BY <1>1, <1>11, <2>1
<1>13. ASSUME NEW m \in S, m < K PROVE m + 1 \in S
  <2> DEFINE n == sg + (m + 1)
  <2>1. m \in Nat /\ m + 1 \in 1 .. K /\ n \in 1 .. Len(t) /\ (n # 1 \/ sg = 0) /\ n - sg = m + 1 /\ n - 1 = sg + m /\ m + 1 # 0 /\ m + 1 \in 0 .. K
    BY <1>1, <1>13
  <2> HIDE DEF n
  <2>2. t[n] = 48 + d[m + 1] /\ d[m + 1] \in 0 .. 9
    BY <1>4, <1>5, <2>1
  <2>3. v[n] = 10 * v[sg + m] + d[m + 1]
    <3>0. v[n] = IF t[n] = Minus THEN v[n - 1] ELSE 10 * v[n - 1] + t[n] - 48
      BY <1>11, <2>1
    <3>1. v[n] = 10 * v[n - 1] + t[n] - 48
      <4>1. \A c \in 0 .. 9 : 48 + c # Minus
        BY ONLY DEF Minus
      <4>2. t[n] # Minus
        BY ONLY <2>2, <4>1
      <4> QED
        BY <3>0, <4>2
    <3>2. n - 1 \in 0 .. Len(t)
      BY <1>1, <2>1
    <3>3. v[n - 1] \in Nat
      BY <3>2
    <3> DEFINE u == v[n - 1]
    <3>4. v[n] = 10 * u + t[n] - 48 /\ u \in Nat /\ v[sg + m] = u
      BY <2>1, <3>1, <3>3
    <3> HIDE DEF u
    <3>6. \A c \in 0 .. 9 : 10 * u + (48 + c) - 48 = 10 * u + c
      BY ONLY <3>4
    <3>5. 10 * u + (48 + d[m + 1]) - 48 = 10 * u + d[m + 1]
      BY ONLY <2>2, <3>6
    <3> QED
      BY ONLY <2>2, <3>4, <3>5
  <2>4. v[n] = Left(a, K - (m + 1))
    <3>1. CASE m = 0
      <4>1. v[sg + m] = 0 /\ d[m + 1] = Left(a, K - (m + 1))
        BY <1>2, <3>1
      <4> QED
        BY <1>3, <2>3, <3>1, <4>1
    <3>2. CASE m # 0
      <4>1. m + 1 \in 2 .. K /\ K - (m + 1) + 1 = K - m /\ K - m \in Nat /\ K - (m + 1) \in Nat
        BY <1>1, <2>1, <3>2
      <4>2. v[sg + m] = Left(a, K - m)
        BY <3>2
      <4>3. d[m + 1] = Left(a, K - (m + 1)) - 10 * Left(a, K - m)
        BY <1>2, <4>1
      <4>4. Left(a, K - m) \in Nat /\ Left(a, K - (m + 1)) \in Nat
        BY <4>1, QuotientSteps
      <4> QED
        BY <2>3, <4>2, <4>3, <4>4
    <3> QED
      BY <3>1, <3>2
  <2> QED
    BY <2>1, <2>4 DEF n
<1>14. S \in SUBSET (0 .. K)
  OBVIOUS
<1> HIDE DEF S
<1>15. \A m \in 0 .. K : m \in S
  BY <1>1, <1>12, <1>13, <1>14, AllRounds
<1>16. v[Len(t)] = a
  <2>1. K \in S
    BY <1>1, <1>15
  <2>2. v[sg + K] = Left(a, K - K)
    BY <1>1, <2>1 DEF S
  <2>3. K - K = 0
    BY <1>1
  <2> QED
    BY <1>1, <1>3, <2>2, <2>3
<1>17. ValueOf(t) = IF sg = 1 THEN -a ELSE a
  BY <1>9, <1>10, <1>16
<1>18. t[1] = Minus => (IF sg = 1 THEN -a ELSE a) < 0
  BY <1>9 DEF Positive_
<1>19. IF Positive_(t) THEN Len(t) > 1 => t[1] # Digit(0) ELSE t[2] # Digit(0)
  <2>1. t[sg + 1] = 48 + Left(a, K - 1) /\ (K > 1 \/ sg = 1 => Left(a, K - 1) >= 1)
    <3>1. 1 \in 1 .. K
      BY <1>1
    <3>2. t[sg + 1] = 48 + d[1]
      BY <1>1, <3>1
    <3>3. K = 1 => Left(a, K - 1) = a
      BY <1>3
    <3> QED
      BY <1>1, <1>2, <3>2, <3>3
  <2>2. CASE sg = 0
    <3>1. Len(t) > 1 => t[1] # Digit(0)
      BY <1>1, <1>3, <2>1, <2>2 DEF Digit
    <3> QED
      BY <1>9, <2>2, <3>1
  <2>3. CASE sg = 1
    <3>1. t[2] # Digit(0)
      BY <1>3, <2>1, <2>3 DEF Digit
    <3> QED
      BY <1>9, <2>3, <3>1
  <2> QED
    BY <2>2, <2>3
<1> QED
  BY <1>8, <1>17, <1>18, <1>19 DEF IsTextOf

-----------------------------------------------------------------------------
(* String.jack: setInt writes the digits of a number.                      *)
String_ == [currentLength : Nat, array : [Around -> Int]]

LEMMA AppendTyped == \A s \in String_, c \in Int : appendChar(s, c) \in String_
<1> TAKE s \in String_, c \in Int
<1> DEFINE n == s.currentLength
           a == s.array
           b == [a EXCEPT ![n] = c]
<1>1. s = [currentLength |-> n, array |-> a] /\ n \in Nat /\ a \in [Around -> Int]
  BY DEF String_
<1>2. b \in [Around -> Int]
  BY <1>1
<1>3. setCharAt(s, n, c) = [currentLength |-> n, array |-> b]
  BY <1>1 DEF setCharAt
<1> HIDE DEF b, n
<1>4. Longer(setCharAt(s, n, c)) = [currentLength |-> n + 1, array |-> b]
  BY <1>3 DEF Longer
<1>5. [currentLength |-> n + 1, array |-> b] \in String_
  BY <1>1, <1>2 DEF String_
<1> QED
  BY <1>4, <1>5 DEF appendChar, n

LEMMA StringIsTyped == ASSUME NEW s, NEW t, Holds(s, t) PROVE s \in String_
BY DEF Holds, String_

LEMMA StartMore ==
  ASSUME NEW d, NEW sg \in {0, 1}, NEW n \in Nat, NEW t, IsStart(t, d, sg, n), NEW c \in Nat, c = Digit(d[n + 1]), sg = 1 \/ n > 0 \/ t = <<>>
  PROVE  IsStart(Append(t, c), d, sg, n + 1)
<1> DEFINE u == Append(t, c)
<1>1. t \in Seq(Nat) /\ Len(t) = sg + n /\ (sg = 1 => t[1] = Minus) /\ \A m \in 1 .. n : t[sg + m] = Digit(d[m])
  BY DEF IsStart
<1>2. u \in Seq(Nat) /\ Len(u) = Len(t) + 1 /\ (\A i \in 1 .. Len(t) : u[i] = t[i]) /\ u[Len(t) + 1] = c
  BY <1>1, AppendProperties
<1> HIDE DEF u
<1>3. Len(u) = sg + (n + 1) /\ (sg = 1 => u[1] = Minus)
  <2>1. sg = 1 => 1 \in 1 .. Len(t)
    BY <1>1
  <2> QED
    BY <1>1, <1>2, <2>1
<1>4. \A m \in 1 .. n + 1 : u[sg + m] = Digit(d[m])
  <2> TAKE m \in 1 .. n + 1
  <2>1. CASE m \in 1 .. n
    <3>1. sg + m \in 1 .. Len(t)
      BY <1>1, <2>1
    <3> QED
      BY <1>1, <1>2, <2>1, <3>1
  <2>2. CASE m = n + 1
    <3>1. sg + m = Len(t) + 1
      BY <1>1, <2>2
    <3> QED
      BY <1>2, <2>2, <3>1
  <2> QED
    BY <2>1, <2>2
<1> QED
  BY <1>2, <1>3, <1>4 DEF IsStart, u

LEMMA BuiltIs ==
  ASSUME NEW s, NEW sg \in {0, 1}, NEW t, IsStart(t, <<>>, sg, 0), Holds(s, t),
         NEW a \in Nat, a < HalfOfWords, Divisible(a, 10), NEW K \in Nat,
         Left(a, K) < 10, \A k \in 0 .. K - 1 : Left(a, k) >= 10, sg + K + 1 <= MaxLength
  PROVE  \E u : IsStart(u, DigitsIn(a, K + 1), sg, K + 1) /\ Holds(intToString(s, a, sg), u)
<1> DEFINE values == Values(a)
           built[n \in 0 .. Len(values) - 1] ==
             IF n = 0 THEN Longer(setCharAt(s, sg, Digit(lastDigit(Last(values)))))
             ELSE appendChar(built[n - 1], Digit(lastDigit(values[Len(values) - n])))
           d == DigitsIn(a, K + 1)
           After(v, n) == appendChar(v, Digit(d[n + 1]))
           first == appendChar(s, Digit(d[1]))
           V == String_
           G == [n \in 1 .. K |-> [v \in V |-> After(v, n)]]
<1>1. values = [i \in 1 .. K + 1 |-> Left(a, i - 1)]
  BY ValuesAre
<1>2. Len(values) = K + 1 /\ \A i \in 1 .. K + 1 : values[i] = Left(a, i - 1)
  BY <1>1
<1> HIDE DEF values
<1>3. ASSUME NEW k \in Nat PROVE lastDigit(Left(a, k)) = Left(a, k) - 10 * Left(a, k + 1)
  <2> DEFINE b == Left(a, k)
  <2>1. b \in Nat /\ b <= a /\ Left(a, k + 1) = b \div 10
    BY QuotientSteps
  <2> HIDE DEF b
  <2>2. b < HalfOfWords
    BY <2>1, Sizes
  <2>3. Divisible(b, 10)
    BY <2>1, DivisibleLess
  <2> QED
    BY <2>1, <2>2, <2>3, LastDigitIs DEF b
<1>4. ASSUME NEW m \in 1 .. K + 1 PROVE lastDigit(values[K + 2 - m]) = d[m] /\ d[m] \in Nat
  <2>1. K + 2 - m \in 1 .. K + 1 /\ K + 2 - m - 1 = K + 1 - m /\ K + 1 - m \in Nat /\ K + 1 \in Nat \ {0}
    BY <1>4
  <2>2. values[K + 2 - m] = Left(a, K + 1 - m)
    BY <1>2, <2>1
  <2>3. lastDigit(values[K + 2 - m]) = Left(a, K + 1 - m) - 10 * Left(a, K + 1 - m + 1)
    BY <1>3, <2>1, <2>2
  <2> DEFINE N == K + 1
  <2>4. N \in Nat \ {0} /\ d = DigitsIn(a, N)
    BY <2>1
  <2> HIDE DEF d, N
  <2>7. d[1] = Left(a, N - 1) /\ d[1] \in Nat
        /\ \A j \in 2 .. N : d[j] = Left(a, N - j) - 10 * Left(a, N - j + 1) /\ d[j] \in 0 .. 9
    BY ONLY <2>4, a \in Nat, DigitsTyped
  <2>5. CASE m # 1
    <3>1. m \in 2 .. N /\ N - m = K + 1 - m
      BY <2>5 DEF N
    <3>2. d[m] = Left(a, N - m) - 10 * Left(a, N - m + 1) /\ d[m] \in 0 .. 9
      BY <2>7, <3>1
    <3>3. d[m] = Left(a, K + 1 - m) - 10 * Left(a, K + 1 - m + 1) /\ d[m] \in Nat
      BY ONLY <3>1, <3>2
    <3> QED
      BY <2>3, <3>3
  <2>6. CASE m = 1
    <3>1. K + 1 - m = K /\ N - 1 = K /\ K + 1 - m + 1 = K + 1
      BY <2>6 DEF N
    <3>2. Left(a, K + 1) = 0
      <4>1. Left(a, K) \in Nat /\ Left(a, K + 1) = Left(a, K) \div 10
        BY QuotientSteps
      <4> QED
        BY <4>1
    <3>3. Left(a, K) \in Nat
      BY QuotientSteps
    <3> QED
      BY <2>3, <2>7, <2>6, <3>1, <3>2, <3>3
  <2> QED
    BY <2>5, <2>6
<1>5. \A n \in 0 .. K : K + 1 - n \in 1 .. K + 1 /\ lastDigit(values[K + 1 - n]) = d[n + 1] /\ d[n + 1] \in Nat
  <2> TAKE n \in 0 .. K
  <2> DEFINE m == n + 1
  <2>1. m \in 1 .. K + 1 /\ K + 2 - m = K + 1 - n /\ K + 1 - n \in 1 .. K + 1
    OBVIOUS
  <2> HIDE DEF m
  <2>2. lastDigit(values[K + 2 - m]) = d[m] /\ d[m] \in Nat
    BY <1>4, <2>1
  <2> QED
    BY <2>1, <2>2 DEF m
<1> HIDE DEF d
<1>6. Last(values) = values[K + 1 - 0]
  BY <1>2 DEF Last
<1>7. s.currentLength = sg
  BY DEF IsStart, Holds
<1>8. Longer(setCharAt(s, sg, Digit(lastDigit(Last(values))))) = first
  <2>1. 0 \in 0 .. K /\ 0 + 1 = 1
    OBVIOUS
  <2>2. lastDigit(Last(values)) = d[1]
    BY <1>5, <1>6, <2>1
  <2> QED
    BY <1>7, <2>2 DEF appendChar
<1>9. first \in V
  <2>1. s \in V
    BY StringIsTyped
  <2>2. Digit(d[1]) \in Int
    <3>1. 0 \in 0 .. K /\ 0 + 1 = 1
      OBVIOUS
    <3>2. d[0 + 1] \in Nat
      BY <1>5, <3>1
    <3>3. d[1] \in Nat
      BY <3>1, <3>2
    <3> QED
      BY <3>3 DEF Digit
  <2> QED
    BY <2>1, <2>2, AppendTyped
<1>10. ASSUME NEW n \in 1 .. K, NEW v \in V PROVE After(v, n) \in V
  <2>1. Digit(d[n + 1]) \in Int
    BY <1>5 DEF Digit
  <2> QED
    BY <2>1, AppendTyped
<1>11. G \in [1 .. K -> [V -> V]] /\ \A n \in 1 .. K : \A v \in V : G[n][v] = After(v, n)
  BY <1>10
<1> HIDE DEF G, V, first
<1>12. PICK f \in [0 .. K -> V] : Iterates(f, 0 .. K, first, G)
  BY <1>9, <1>11, BoundedLoop
<1>13. f = [n \in 0 .. Len(values) - 1 |->
              IF n = 0 THEN Longer(setCharAt(s, sg, Digit(lastDigit(Last(values)))))
              ELSE appendChar(f[n - 1], Digit(lastDigit(values[Len(values) - n])))]
  <2>1. \A n \in 0 .. K : n # 0 => n \in 1 .. K /\ n - 1 \in 0 .. K /\ f[n - 1] \in V
    BY <1>12
  <2>2. f = [n \in 0 .. K |-> IF n = 0 THEN first ELSE After(f[n - 1], n)]
    BY <1>11, <1>12, <2>1 DEF Iterates
  <2>3. \A n \in 0 .. K : lastDigit(values[K + 1 - n]) = d[n + 1]
    BY <1>5
  <2>4. Len(values) - 1 = K /\ \A n \in 0 .. K : Len(values) - n = K + 1 - n
    BY <1>2
  <2> QED
    BY ONLY <1>8, <2>2, <2>3, <2>4
<1>14. built = [n \in 0 .. Len(values) - 1 |->
                  IF n = 0 THEN Longer(setCharAt(s, sg, Digit(lastDigit(Last(values)))))
                  ELSE appendChar(built[n - 1], Digit(lastDigit(values[Len(values) - n])))]
  BY <1>13 DEF built
<1>15. intToString(s, a, sg) = built[K]
  <2>1. intToString(s, a, sg) = built[Len(values) - 1]
    BY DEF intToString, Built, values
  <2> HIDE DEF built
  <2>2. Len(values) - 1 = K
    BY <1>2
  <2> QED
    BY <2>1, <2>2
<1> HIDE DEF built
<1>16. built[0] = first /\ \A n \in 1 .. K : built[n] = appendChar(built[n - 1], Digit(d[n + 1]))
  <2>1. 0 \in 0 .. Len(values) - 1 /\ \A n \in 1 .. K : n \in 0 .. Len(values) - 1 /\ n # 0 /\ Len(values) - n = K + 1 - n /\ n \in 0 .. K
    BY <1>2
  <2>2. built[0] = first
    BY <1>8, <1>14, <2>1
  <2>3. \A n \in 1 .. K : built[n] = appendChar(built[n - 1], Digit(lastDigit(values[K + 1 - n])))
    BY <1>14, <2>1
  <2> QED
    BY <1>5, <2>1, <2>2, <2>3
<1> DEFINE S == {n \in 0 .. K : \E u : IsStart(u, d, sg, n + 1) /\ Holds(built[n], u)}
<1>17. ASSUME NEW r, NEW u, NEW n \in 0 .. K, IsStart(u, d, sg, n), Holds(r, u)
       PROVE  LET c == Digit(d[n + 1])
              IN IsStart(Append(u, c), d, sg, n + 1) /\ Holds(appendChar(r, c), Append(u, c))
  <2> DEFINE c == Digit(d[n + 1])
  <2>1. c \in Nat /\ c = Digit(d[n + 1])
    BY <1>5 DEF Digit
  <2> HIDE DEF c
  <2>2. u \in Seq(Nat) /\ Len(u) = sg + n /\ (sg = 1 \/ n > 0 \/ u = <<>>)
    <3>1. u \in Seq(Nat) /\ Len(u) = sg + n
      BY <1>17 DEF IsStart
    <3>2. sg + n = 0 => u = <<>>
      BY <3>1, EmptySeq
    <3> QED
      BY <3>1, <3>2
  <2>3. Len(u) < MaxLength
    BY <2>2, Places
  <2>4. IsStart(Append(u, c), d, sg, n + 1)
    BY <1>17, <2>1, <2>2, StartMore
  <2>5. Holds(appendChar(r, c), Append(u, c))
    BY <1>17, <2>1, <2>2, <2>3, HoldsMore
  <2> QED
    BY <2>4, <2>5 DEF c
<1>18. 0 \in S
  <2>1. IsStart(t, d, sg, 0) /\ 0 \in 0 .. K /\ 0 + 1 = 1
    BY DEF IsStart
  <2>2. IsStart(Append(t, Digit(d[1])), d, sg, 1) /\ Holds(appendChar(s, Digit(d[1])), Append(t, Digit(d[1])))
    BY <1>17, <2>1
  <2>3. Holds(built[0], Append(t, Digit(d[1])))
    BY <1>16, <2>2 DEF first
  <2> QED
    BY <2>1, <2>2, <2>3
<1>19. ASSUME NEW n \in S, n < K PROVE n + 1 \in S
  <2>1. PICK u : IsStart(u, d, sg, n + 1) /\ Holds(built[n], u)
    OBVIOUS
  <2>2. n + 1 \in 0 .. K /\ n + 1 \in 1 .. K /\ n + 1 - 1 = n
    BY <1>19
  <2> DEFINE c == Digit(d[n + 1 + 1])
  <2>3. IsStart(Append(u, c), d, sg, n + 1 + 1) /\ Holds(appendChar(built[n], c), Append(u, c))
    BY <1>17, <2>1, <2>2
  <2>4. built[n + 1] = appendChar(built[n], c)
    BY <1>16, <2>2
  <2>5. Holds(built[n + 1], Append(u, c))
    BY <2>3, <2>4
  <2> HIDE DEF c
  <2> QED
    BY <2>2, <2>3, <2>5
<1>20. S \in SUBSET (0 .. K)
  OBVIOUS
<1> HIDE DEF S
<1>21. \A n \in 0 .. K : n \in S
  BY <1>18, <1>19, <1>20, AllRounds
<1>22. \E u : IsStart(u, d, sg, K + 1) /\ Holds(built[K], u)
  <2>1. K \in S
    BY <1>21
  <2> QED
    BY <2>1 DEF S
<1> QED
  BY <1>15, <1>22 DEF d

(* The first call inside which no more than b is left.                     *)
LEMMA LastCall ==
  ASSUME NEW a \in Nat, a < HalfOfWords, NEW b \in Nat, NEW off \in {0, 1}
  PROVE  \E K \in Nat : Left(a, K + off) <= b /\ \A k \in 0 .. K - 1 : Left(a, k + off) > b
<1> DEFINE S == {k \in Nat : Left(a, k + off) <= b}
<1>1. ASSUME NEW k \in Nat PROVE Left(a, k + off) \in Nat
  <2> DEFINE m == k + off
  <2>1. m \in Nat
    OBVIOUS
  <2> HIDE DEF m
  <2>2. Left(a, m) \in Nat
    BY <2>1, QuotientSteps
  <2> QED
    BY <2>2 DEF m
<1>2. S # {} /\ S \in SUBSET Nat
  <2> DEFINE k == MaxDigits + 1 - off
  <2>1. k \in Nat /\ k + off = MaxDigits + 1
    BY MaxDigitsIs
  <2> HIDE DEF k
  <2>2. Left(a, k + off) = 0
    BY <2>1, MaxDigitsIs
  <2>3. k \in S
    BY <2>1, <2>2
  <2> HIDE DEF S
  <2>4. S # {}
    BY <2>3
  <2> QED
    BY <2>4 DEF S
<1>3. PICK K \in S : \A k \in S : K <= k
  BY <1>2, LeastNumber
<1>4. \A k \in 0 .. K - 1 : Left(a, k + off) > b
  <2> TAKE k \in 0 .. K - 1
  <2>1. k \in Nat /\ k \notin S
    BY <1>3
  <2>2. Left(a, k + off) \in Nat
    BY <1>1, <2>1
  <2> QED
    BY <2>1, <2>2
<1> QED
  BY <1>3, <1>4

LEMMA SignIs ==
  ASSUME NEW z \in Word, Divisible(z, 10)
  PROVE  LET a  == Magnitude(z)
             sg == IF Less(z, 0) THEN 1 ELSE 0
         IN /\ a \in Nat /\ a < HalfOfWords /\ abs(z) = a /\ Divisible(a, 10) /\ sg \in {0, 1}
            /\ Signed(z) = IF sg = 1 THEN -a ELSE a
            /\ sg = 1 => a > 0
            /\ sg = 0 => z = a
            /\ AsWord(Signed(z)) = z
<1> DEFINE a  == Magnitude(z)
           sg == IF Less(z, 0) THEN 1 ELSE 0
<1>1. a \in Nat /\ a < HalfOfWords /\ abs(z) = a
  BY TenIsSmall, DivisibleTyped, AbsIs
<1>2. Divisible(a, 10)
  BY <1>1, TenIsSmall, SmallWord DEF Divisible
<1>3. Signed(z) = (IF sg = 1 THEN -a ELSE a) /\ (sg = 1 => a > 0) /\ (sg = 0 => z = a)
  <2>1. z \in Nat /\ z < 2 * HalfOfWords /\ HalfOfWords \in Nat /\ HalfOfWords > 0
    BY WordNumber, Sizes
  <2>2. Less(z, 0) <=> z >= HalfOfWords
    <3>1. z # HalfOfWords
      BY <1>1, <2>1 DEF Magnitude, Signed, IsNegative
    <3> QED
      BY <2>1, <3>1, LessZero
  <2> QED
    BY <2>1, <2>2 DEF Magnitude, Signed, IsNegative
<1>4. AsWord(Signed(z)) = z
  BY WordSums, AsWordIs
<1> QED
  BY <1>1, <1>2, <1>3, <1>4

LEMMA OneDivisible == 1 < HalfOfWords /\ Divisible(1, 10)
<1>1. 1 \in Nat /\ 1 < HalfOfWords
  BY Sizes
<1>2. Magnitude(1) = 1 /\ Magnitude(10) = 10
  BY <1>1, TenIsSmall, SmallWord
<1>3. \A k \in 0 .. Bits : ~(TwoTo[k] <= 1 \div 10)
  <2> TAKE k \in 0 .. Bits
  <2>1. k \in Nat
    BY BitsAssumption
  <2>2. TwoTo[k] \in Nat \ {0}
    BY <2>1, Powers
  <2> QED
    BY <2>2
<1> QED
  BY <1>1, <1>2, <1>3, TenIsSmall DEF Divisible

(* setInt writes the text of a number that fits, and intValue reads it.    *)
LEMMA SetIntIs ==
  ASSUME NEW z \in Word, Divisible(z, 10), MaxLength > 0, TenTo[MaxLength - 1] > Magnitude(z)
  PROVE  IsWritten(setInt(NewString, z), z)
<1> DEFINE a  == Magnitude(z)
           sg == IF Less(z, 0) THEN 1 ELSE 0
           written == setInt(NewString, z)
<1>1. /\ a \in Nat /\ a < HalfOfWords /\ abs(z) = a /\ Divisible(a, 10) /\ sg \in {0, 1}
      /\ Signed(z) = IF sg = 1 THEN -a ELSE a
      /\ sg = 1 => a > 0
      /\ sg = 0 => z = a
      /\ AsWord(Signed(z)) = z
  BY SignIs
<1>2. Less(z, 0) <=> sg = 1
  OBVIOUS
<1>3. MaxLength - 1 \in Nat /\ Left(a, MaxLength - 1) = 0 /\ MaxLength \in Nat
  BY <1>1, Places, NothingLeft
<1>4. TenTo[MaxLength - 1] > a
  OBVIOUS
<1> HIDE DEF a, sg
<1>5. PICK K \in Nat : Left(a, K) <= 9 /\ \A k \in 0 .. K - 1 : Left(a, k) > 9
  <2>1. PICK k \in Nat : Left(a, k + 0) <= 9 /\ \A j \in 0 .. k - 1 : Left(a, j + 0) > 9
    BY <1>1, LastCall
  <2> QED
    BY <2>1
<1>6. K > 0 => Left(a, K) >= 1
  <2>1. SUFFICES ASSUME K > 0 PROVE Left(a, K) >= 1
    OBVIOUS
  <2> DEFINE k == K - 1
  <2>2. k \in Nat /\ k \in 0 .. K - 1 /\ k + 1 = K
    BY <2>1
  <2> HIDE DEF k
  <2>3. Left(a, k) > 9 /\ Left(a, k) \in Nat /\ Left(a, k + 1) = Left(a, k) \div 10
    BY <1>1, <1>5, <2>2, QuotientSteps
  <2> QED
    BY <2>2, <2>3
<1>7. sg + K + 1 <= MaxLength
  <2>1. CASE K = 0
    <3>1. MaxLength = 1 => TenTo[MaxLength - 1] = 1
      BY TenZero
    <3> QED
      BY <1>1, <1>3, <1>4, <2>1, <3>1
  <2>2. CASE K > 0
    <3>1. ~(MaxLength - 1 <= K)
      <4>1. SUFFICES ASSUME MaxLength - 1 <= K PROVE FALSE
        OBVIOUS
      <4>2. Left(a, K) <= Left(a, MaxLength - 1)
        BY <1>1, <1>3, <4>1, QuotientFalls
      <4>3. Left(a, K) \in Nat
        BY <1>1, QuotientSteps
      <4> HIDE DEF Left
      <4> QED
        BY <1>3, <1>6, <2>2, <4>2, <4>3
    <3> QED
      BY <1>1, <1>3, <3>1
  <2> QED
    BY <2>1, <2>2
<1>8. PICK s, t : Holds(s, t) /\ IsStart(t, <<>>, sg, 0) /\ written = intToString(s, a, sg)
  <2>1. reset(NewString) = NewString /\ NewString.currentLength = 0
    BY DEF reset, NewString
  <2>2. CASE sg = 0
    <3>1. written = intToString(NewString, a, 0)
      BY <1>1, <1>2, <2>1, <2>2 DEF setInt
    <3>2. IsStart(<<>>, <<>>, 0, 0)
      BY DEF IsStart
    <3> QED
      BY <2>2, <3>1, <3>2, HoldsNone
  <2>3. CASE sg = 1
    <3> DEFINE s == appendChar(NewString, Minus)
    <3>1. written = intToString(s, a, 1)
      BY <1>1, <1>2, <2>1, <2>3 DEF setInt, appendChar
    <3>2. Append(<<>>, Minus) = <<Minus>> /\ <<>> \in Seq(Nat) /\ Len(<<>>) = 0 /\ Minus \in Nat
      BY DEF Minus
    <3>3. Holds(s, <<Minus>>)
      BY <1>3, <3>2, HoldsNone, HoldsMore
    <3>4. IsStart(<<Minus>>, <<>>, 1, 0)
      BY <3>2 DEF IsStart
    <3> HIDE DEF s
    <3> QED
      BY <2>3, <3>1, <3>3, <3>4
  <2> QED
    BY <1>1, <2>2, <2>3
<1> HIDE DEF written
<1>9. PICK u : IsStart(u, DigitsIn(a, K + 1), sg, K + 1) /\ Holds(written, u)
  <2>1. Left(a, K) < 10 /\ \A k \in 0 .. K - 1 : Left(a, k) >= 10
    <3>1. ASSUME NEW k \in 0 .. K PROVE Left(a, k) \in Nat
      <4>1. k \in Nat
        OBVIOUS
      <4> QED
        BY <1>1, <4>1, QuotientSteps
    <3> HIDE DEF Left
    <3> QED
      BY <1>5, <3>1
  <2>2. \E v : IsStart(v, DigitsIn(a, K + 1), sg, K + 1) /\ Holds(intToString(s, a, sg), v)
    BY <1>1, <1>7, <1>8, <2>1, BuiltIs
  <2> QED
    BY <1>8, <2>2
<1> DEFINE N == K + 1
<1>10. N \in Nat \ {0} /\ N - 1 = K
  OBVIOUS
<1> HIDE DEF N
<1>11. IsStart(u, DigitsIn(a, N), sg, N)
  BY <1>9 DEF N
<1>12. IsTextOf(u, IF sg = 1 THEN -a ELSE a)
  <2>1. Left(a, N - 1) <= 9 /\ (N > 1 => Left(a, N - 1) >= 1)
    BY <1>5, <1>6, <1>10
  <2> QED
    BY <1>1, <1>10, <1>11, <2>1, TextIs
<1>13. IsTextOf(u, Signed(z))
  BY <1>1, <1>12
<1>14. u \in Seq(Nat) /\ Len(u) = sg + K + 1 /\ (sg = 1 => u[1] = Minus)
       /\ \A m \in 1 .. N : u[sg + m] = Digit(DigitsIn(a, N)[m])
  <2>1. sg + N = sg + K + 1
    BY <1>1 DEF N
  <2> QED
    BY <1>11, <2>1 DEF IsStart
<1>15. Chars(written) = u /\ Kept(written)
  BY <1>9, <1>14, CharsAre DEF Holds, Kept
<1>16. DigitsOf(u, Len(u) - 1) = K
  <2>1. CASE sg = 1
    BY <1>14, <2>1 DEF DigitsOf
  <2>2. CASE sg = 0
    <3> DEFINE d == DigitsIn(a, N)[1]
    <3>1. d \in Nat
      BY <1>1, <1>10, DigitsTyped
    <3>2. u[1] = Digit(d)
      <4>1. 1 \in 1 .. N /\ sg + 1 = 1
        BY <1>10, <2>2
      <4> QED
        BY <1>14, <4>1
    <3> HIDE DEF d
    <3>3. u[1] # Minus
      BY <3>1, <3>2 DEF Digit, Minus
    <3> QED
      BY <1>14, <2>2, <3>3 DEF DigitsOf
  <2> QED
    BY <1>1, <2>1, <2>2
<1>17. TenTo[K] < HalfOfWords /\ Divisible(TenTo[K], 10)
  <2>1. CASE K = 0
    BY <2>1, TenZero, OneDivisible
  <2>2. CASE K > 0
    <3>1. TenTo[K] \in Nat
      BY Tens
    <3>2. TenTo[K] <= a
      <4>1. Left(a, K) # 0
        BY <1>6, <2>2
      <4>2. ~(a < TenTo[K])
        BY <1>1, <4>1, NothingLeft
      <4> QED
        BY <1>1, <3>1, <4>2
    <3>3. HalfOfWords \in Nat
      BY Sizes
    <3> HIDE DEF Left
    <3> DEFINE b == TenTo[K]
    <3> HIDE DEF b
    <3>4. b \in Nat /\ b <= a
      BY <3>1, <3>2 DEF b
    <3>5. b < HalfOfWords
      BY <1>1, <3>3, <3>4
    <3>6. Divisible(b, 10)
      BY <1>1, <3>4, DivisibleLess
    <3> QED
      BY <3>5, <3>6 DEF b
  <2> QED
    BY <2>1, <2>2
<1>18. intValue(written) = AsWord(ValueOf(u))
  <2>1. Number(u)
    BY <1>13 DEF IsTextOf
  <2> QED
    BY <1>14, <1>15, <1>16, <1>17, <2>1, IntValueIs
<1>19. intValue(written) = z
  BY <1>1, <1>13, <1>18 DEF IsTextOf
<1>20. IsWritten(written, z)
  BY <1>13, <1>15, <1>19 DEF IsWritten
<1> QED
  BY <1>20 DEF written

-----------------------------------------------------------------------------
(* Output.jack: printInt.  A sign in front of digits, and two of them.     *)
LEMMA SignedStart ==
  ASSUME NEW d, NEW e \in {0, 1}, NEW n \in Nat, NEW t, IsStart(t, d, 0, n),
         NEW s, s = IF e = 1 THEN <<Minus>> ELSE <<>>
  PROVE  IsStart(s \o t, d, e, n)
<1>1. t \in Seq(Nat) /\ Len(t) = n /\ \A m \in 1 .. n : t[m] = Digit(d[m])
  <2>1. t \in Seq(Nat) /\ Len(t) = 0 + n /\ \A m \in 1 .. n : t[0 + m] = Digit(d[m])
    BY DEF IsStart
  <2> QED
    BY <2>1
<1>2. s \in Seq(Nat) /\ Len(s) = e /\ (e = 1 => s[1] = Minus)
  <2>1. <<Minus>> \in Seq(Nat) /\ Len(<<Minus>>) = 1 /\ <<Minus>>[1] = Minus
    BY DEF Minus
  <2>2. <<>> \in Seq(Nat) /\ Len(<<>>) = 0
    OBVIOUS
  <2> QED
    BY <2>1, <2>2
<1> DEFINE u == s \o t
<1>3. u \in Seq(Nat) /\ Len(u) = e + n
      /\ \A i \in 1 .. e + n : u[i] = IF i <= e THEN s[i] ELSE t[i - e]
  BY <1>1, <1>2, ConcatProperties
<1> HIDE DEF u
<1>4. e = 1 => u[1] = Minus
  BY <1>2, <1>3
<1>5. \A m \in 1 .. n : u[e + m] = Digit(d[m])
  <2> TAKE m \in 1 .. n
  <2>1. e + m \in 1 .. e + n /\ ~(e + m <= e) /\ e + m - e = m
    OBVIOUS
  <2>2. u[e + m] = t[e + m - e]
    BY <1>3, <2>1
  <2> QED
    BY <1>1, <2>1, <2>2
<1> QED
  BY <1>3, <1>4, <1>5 DEF IsStart, u

LEMMA StartOfTwo ==
  ASSUME NEW d, d[1] \in Nat, d[2] \in Nat
  PROVE  IsStart(<<Digit(d[1]), Digit(d[2])>>, d, 0, 2)
<1> DEFINE b == Digit(d[1])
           c == Digit(d[2])
           t == <<b, c>>
<1>1. b \in Nat /\ c \in Nat
  BY DEF Digit
<1> HIDE DEF b, c
<1>2. t \in Seq(Nat) /\ Len(t) = 2 /\ t[1] = b /\ t[2] = c
  BY <1>1
<1> HIDE DEF t
<1>3. \A m \in 1 .. 2 : t[0 + m] = Digit(d[m])
  <2> TAKE m \in 1 .. 2
  <2>1. (m = 1 \/ m = 2) /\ 0 + m = m
    OBVIOUS
  <2> QED
    BY <1>2, <2>1 DEF b, c
<1>4. IsStart(t, d, 0, 2)
  BY <1>2, <1>3 DEF IsStart
<1> QED
  BY <1>4 DEF t, b, c

(* What printInt prints: the digits of the number, the first one with what  *)
(* is left in front of it.                                                 *)
LEMMA PrintedIs ==
  ASSUME NEW z \in Word, Divisible(z, 10), NEW J \in Nat, Left(Magnitude(z), J + 1) <= 10,
         \A j \in 1 .. J : Left(Magnitude(z), j) > 10
  PROVE  IsStart(printInt(z), DigitsIn(Magnitude(z), J + 2), IF Less(z, 0) THEN 1 ELSE 0, J + 2)
<1> DEFINE a == Magnitude(z)
           sg == IF Less(z, 0) THEN 1 ELSE 0
           numbers == Numbers(z)
           printed[n \in 0 .. Len(numbers) - 1] ==
             IF n = 0 THEN sign(Last(numbers)) \o <<Digit(tens(Last(numbers))), Digit(digit(Last(numbers)))>>
             ELSE LET v == numbers[Len(numbers) - n]
                  IN sign(v) \o printed[n - 1] \o <<Digit(digit(v))>>
           d == DigitsIn(a, J + 2)
           V == Seq(Nat)
           After(v, n) == sign(numbers[J + 1 - n]) \o v \o <<Digit(d[n + 2])>>
           first == sign(numbers[J + 1 - 0]) \o <<Digit(d[1]), Digit(d[2])>>
           G == [n \in 1 .. J |-> [v \in V |-> After(v, n)]]
<1>1. numbers = [i \in 1 .. J + 1 |-> AtCall(z, i - 1)]
  BY NumbersAre
<1>2. Len(numbers) = J + 1 /\ \A i \in 1 .. J + 1 : numbers[i] = AtCall(z, i - 1)
  BY <1>1
<1> HIDE DEF numbers
<1>3. /\ d[1] = Left(a, J + 1) /\ d[1] \in Nat
      /\ \A m \in 2 .. J + 2 : d[m] = Left(a, J + 2 - m) - 10 * Left(a, J + 3 - m) /\ d[m] \in 0 .. 9
  <2> DEFINE N == J + 2
  <2>1. N \in Nat \ {0} /\ N - 1 = J + 1 /\ \A m \in 2 .. N : N - m = J + 2 - m /\ N - m + 1 = J + 3 - m
    OBVIOUS
  <2>2. d = DigitsIn(a, N) /\ a \in Nat
    BY SignIs
  <2> HIDE DEF N, d, a
  <2>3. /\ d[1] = Left(a, N - 1) /\ d[1] \in Nat
        /\ \A m \in 2 .. N : d[m] = Left(a, N - m) - 10 * Left(a, N - m + 1) /\ d[m] \in 0 .. 9
    BY ONLY <2>1, <2>2, DigitsTyped
  <2> HIDE DEF Left
  <2>4. \A m \in 2 .. N : d[m] = Left(a, J + 2 - m) - 10 * Left(a, J + 3 - m) /\ d[m] \in 0 .. 9
    BY <2>1, <2>3
  <2> QED
    BY <2>1, <2>3, <2>4 DEF N
<1> HIDE DEF d
<1>4. ASSUME NEW n \in 0 .. J
      PROVE  /\ sign(numbers[J + 1 - n]) = IF n = J /\ sg = 1 THEN <<Minus>> ELSE <<>>
             /\ digit(numbers[J + 1 - n]) = d[n + 2] /\ d[n + 2] \in Nat
             /\ n = 0 => tens(numbers[J + 1 - n]) = d[1]
  <2> DEFINE k == J - n
  <2>1. k \in Nat /\ J + 1 - n \in 1 .. J + 1 /\ J + 1 - n - 1 = k /\ (k = 0 <=> n = J)
        /\ n + 2 \in 2 .. J + 2 /\ J + 2 - (n + 2) = k /\ J + 3 - (n + 2) = k + 1 /\ (n = 0 => k = J)
    OBVIOUS
  <2> HIDE DEF k
  <2>2. numbers[J + 1 - n] = AtCall(z, k)
    BY <1>2, <2>1
  <2>3. /\ tens(AtCall(z, k)) = Left(a, k + 1)
        /\ digit(AtCall(z, k)) = Left(a, k) - 10 * Left(a, k + 1)
        /\ sign(AtCall(z, k)) = IF k = 0 THEN sign(z) ELSE <<>>
    BY <2>1, CallIs
  <2>4. sign(z) = IF sg = 1 THEN <<Minus>> ELSE <<>>
    BY DEF sign
  <2> HIDE DEF a, sg
  <2>5. d[n + 2] = Left(a, k) - 10 * Left(a, k + 1) /\ d[n + 2] \in Nat
    BY <1>3, <2>1
  <2>6. n = 0 => Left(a, k + 1) = d[1]
    BY <1>3, <2>1
  <2> QED
    BY <2>1, <2>2, <2>3, <2>4, <2>5, <2>6
<1> HIDE DEF a, sg
<1>5. Last(numbers) = numbers[J + 1 - 0] /\ 0 \in 0 .. J
  BY <1>2 DEF Last
<1>6. ASSUME NEW n \in 0 .. J PROVE sign(numbers[J + 1 - n]) \in V /\ Digit(d[n + 2]) \in Nat
  <2>1. <<Minus>> \in V /\ <<>> \in V
    BY DEF Minus
  <2>2. Digit(d[n + 2]) \in Nat
    BY <1>4 DEF Digit
  <2> QED
    BY <1>4, <2>1, <2>2
<1>7. first = sign(Last(numbers)) \o <<Digit(tens(Last(numbers))), Digit(digit(Last(numbers)))>>
  <2>1. tens(Last(numbers)) = d[1] /\ digit(Last(numbers)) = d[0 + 2] /\ 0 + 2 = 2
    BY <1>4, <1>5
  <2> QED
    BY <1>5, <2>1
<1>8. sg \in {0, 1}
  BY DEF sg
<1> DEFINE e(n) == IF n = J THEN sg ELSE 0
<1>9. IsStart(first, d, e(0), 2)
  <2>1. d[1] \in Nat /\ d[2] \in Nat
    <3>1. 0 + 2 = 2
      OBVIOUS
    <3> QED
      BY <1>3, <1>4, <1>5, <3>1
  <2>2. IsStart(<<Digit(d[1]), Digit(d[2])>>, d, 0, 2)
    BY <2>1, StartOfTwo
  <2>3. sign(numbers[J + 1 - 0]) = (IF e(0) = 1 THEN <<Minus>> ELSE <<>>) /\ e(0) \in {0, 1}
    BY <1>4, <1>5, <1>8
  <2> DEFINE s == sign(numbers[J + 1 - 0])
             t == <<Digit(d[1]), Digit(d[2])>>
             e0 == e(0)
  <2> HIDE DEF s, t, e0
  <2>4. e0 \in {0, 1} /\ IsStart(t, d, 0, 2) /\ s = IF e0 = 1 THEN <<Minus>> ELSE <<>>
    BY <2>2, <2>3 DEF s, t, e0
  <2>5. IsStart(s \o t, d, e0, 2)
    BY <2>4, SignedStart
  <2> QED
    BY <2>5 DEF s, t, e0
<1>10. ASSUME NEW n \in 1 .. J, NEW t, IsStart(t, d, 0, n + 1)
       PROVE  IsStart(After(t, n), d, e(n), n + 2)
  <2> DEFINE s == sign(numbers[J + 1 - n])
             c == Digit(d[n + 2])
             en == e(n)
             m == n + 1
  <2>1. n \in 0 .. J /\ m \in Nat /\ m > 0 /\ m + 1 = n + 2
    OBVIOUS
  <2>2. en \in {0, 1} /\ s = IF en = 1 THEN <<Minus>> ELSE <<>>
    BY <1>4, <1>8, <2>1
  <2>3. c \in Nat /\ c = Digit(d[m + 1])
    BY <1>6, <2>1
  <2> HIDE DEF en, s, c
  <2>4. IsStart(t, d, 0, m)
    BY <1>10
  <2> HIDE DEF m
  <2>5. IsStart(s \o t, d, en, m)
    BY <2>1, <2>2, <2>4, SignedStart
  <2>6. s \o t \in Seq(Nat)
    BY <2>5 DEF IsStart
  <2> DEFINE st == s \o t
  <2> HIDE DEF st
  <2>7. IsStart(Append(st, c), d, en, m + 1)
    BY <2>1, <2>2, <2>3, <2>5, StartMore DEF st
  <2>8. st \o <<c>> = Append(st, c)
    BY <2>3, <2>6, AppendIsConcat DEF st
  <2>9. IsStart(st \o <<c>>, d, en, m + 1)
    BY <2>7, <2>8
  <2> QED
    BY <2>1, <2>9 DEF st, en, s, c, m
<1>11. first \in V
  BY <1>9 DEF IsStart
<1>12. ASSUME NEW n \in 1 .. J, NEW v \in V PROVE After(v, n) \in V
  <2> DEFINE s == sign(numbers[J + 1 - n])
             c == Digit(d[n + 2])
  <2>1. s \in V /\ c \in Nat
    BY <1>6
  <2> HIDE DEF s, c
  <2>2. s \o v \o <<c>> \in V
    BY <2>1
  <2> QED
    BY <2>2 DEF s, c
<1>13. G \in [1 .. J -> [V -> V]] /\ \A n \in 1 .. J : \A v \in V : G[n][v] = After(v, n)
  BY <1>12
<1> HIDE DEF G, V, first, After
<1>14. PICK f \in [0 .. J -> V] : Iterates(f, 0 .. J, first, G)
  BY <1>11, <1>13, BoundedLoop
<1>15. f = [n \in 0 .. J |-> IF n = 0 THEN first ELSE After(f[n - 1], n)]
  <2>1. \A n \in 0 .. J : n # 0 => n \in 1 .. J /\ n - 1 \in 0 .. J /\ f[n - 1] \in V
    BY <1>14
  <2> QED
    BY <1>13, <1>14, <2>1 DEF Iterates
<1>16. f = [n \in 0 .. Len(numbers) - 1 |->
              IF n = 0 THEN sign(Last(numbers)) \o <<Digit(tens(Last(numbers))), Digit(digit(Last(numbers)))>>
              ELSE LET v == numbers[Len(numbers) - n]
                   IN sign(v) \o f[n - 1] \o <<Digit(digit(v))>>]
  <2>1. ASSUME NEW n \in 0 .. J
        PROVE  After(f[n - 1], n) = sign(numbers[J + 1 - n]) \o f[n - 1] \o <<Digit(digit(numbers[J + 1 - n]))>>
    BY <1>4 DEF After
  <2>2. Len(numbers) - 1 = J /\ \A n \in 0 .. J : Len(numbers) - n = J + 1 - n
    BY <1>2
  <2> QED
    BY <1>7, <1>15, <2>1, <2>2
<1>17. printed = [n \in 0 .. Len(numbers) - 1 |->
              IF n = 0 THEN sign(Last(numbers)) \o <<Digit(tens(Last(numbers))), Digit(digit(Last(numbers)))>>
              ELSE LET v == numbers[Len(numbers) - n]
                   IN sign(v) \o printed[n - 1] \o <<Digit(digit(v))>>]
  BY <1>16 DEF printed
<1>18. printInt(z) = printed[J]
  <2>1. printInt(z) = printed[Len(numbers) - 1]
    BY DEF printInt, PrintedFor, numbers
  <2> HIDE DEF printed
  <2>2. Len(numbers) - 1 = J
    BY <1>2
  <2> QED
    BY <2>1, <2>2
<1> HIDE DEF printed
<1>19. printed[0] = first /\ \A n \in 1 .. J : printed[n] = After(printed[n - 1], n)
  <2>1. Len(numbers) - 1 = J /\ \A n \in 0 .. J : Len(numbers) - n = J + 1 - n
    BY <1>2
  <2>2. printed[0] = first
    BY <1>5, <1>7, <1>17, <2>1
  <2>3. ASSUME NEW n \in 1 .. J PROVE printed[n] = After(printed[n - 1], n)
    <3>1. n \in 0 .. J /\ n # 0
      OBVIOUS
    <3>2. printed[n] = sign(numbers[J + 1 - n]) \o printed[n - 1] \o <<Digit(digit(numbers[J + 1 - n]))>>
      BY <1>17, <2>1, <3>1
    <3>3. digit(numbers[J + 1 - n]) = d[n + 2]
      BY <1>4, <3>1
    <3> QED
      BY <3>2, <3>3 DEF After
  <2> QED
    BY <2>2, <2>3
<1> DEFINE S == {n \in 0 .. J : IsStart(printed[n], d, e(n), n + 2)}
<1>20. 0 \in S
  <2>1. 0 + 2 = 2
    OBVIOUS
  <2> QED
    BY <1>5, <1>9, <1>19, <2>1
<1>21. ASSUME NEW n \in S, n < J PROVE n + 1 \in S
  <2> DEFINE m == n + 1
  <2>1. m \in 1 .. J /\ m \in 0 .. J /\ m - 1 = n /\ m + 1 = n + 2 /\ e(n) = 0
    BY <1>21
  <2>2. IsStart(printed[n], d, 0, m + 1)
    BY <2>1
  <2> HIDE DEF m
  <2>3. IsStart(After(printed[n], m), d, e(m), m + 2)
    BY <1>10, <2>1, <2>2
  <2>4. printed[m] = After(printed[n], m)
    BY <1>19, <2>1
  <2>5. m \in S
    BY <2>1, <2>3, <2>4
  <2> QED
    BY <2>5 DEF m
<1>22. S \in SUBSET (0 .. J)
  OBVIOUS
<1> HIDE DEF S
<1>23. \A n \in 0 .. J : n \in S
  BY <1>20, <1>21, <1>22, AllRounds
<1>24. IsStart(printed[J], d, sg, J + 2)
  <2>1. J \in S
    BY <1>23
  <2> QED
    BY <2>1 DEF S
<1> QED
  BY <1>18, <1>24 DEF d, a, sg

LEMMA PrintIntIs ==
  ASSUME NEW z \in Word, Divisible(z, 10), MaxLength > 0, TenTo[MaxLength - 1] > Magnitude(z),
         Magnitude(z) >= 10, ~GoesOnAfterTen(z)
  PROVE  IsTextOf(printInt(z), Signed(z))
<1> DEFINE a  == Magnitude(z)
           sg == IF Less(z, 0) THEN 1 ELSE 0
           t  == printInt(z)
<1>1. /\ a \in Nat /\ a < HalfOfWords /\ sg \in {0, 1}
      /\ Signed(z) = IF sg = 1 THEN -a ELSE a
      /\ sg = 1 => a > 0
  BY SignIs
<1>2. PICK J \in Nat : Left(a, J + 1) <= 10 /\ \A j \in 1 .. J : Left(a, j) > 10
  <2> HIDE DEF a
  <2>1. PICK k \in Nat : Left(a, k + 1) <= 10 /\ \A j \in 0 .. k - 1 : Left(a, j + 1) > 10
    BY <1>1, LastCall
  <2>2. ASSUME NEW j \in 1 .. k PROVE Left(a, j) > 10
    <3> DEFINE i == j - 1
    <3>1. i \in 0 .. k - 1 /\ i + 1 = j
      OBVIOUS
    <3> HIDE DEF i
    <3> QED
      BY <2>1, <3>1
  <2> QED
    BY <2>1, <2>2
<1>3. IsStart(t, DigitsIn(a, J + 2), sg, J + 2)
  BY <1>2, PrintedIs
<1>4. MaxLength - 1 \in Nat /\ MaxLength \in Nat /\ Left(a, MaxLength - 1) = 0
  BY <1>1, Places, NothingLeft
<1>9. a >= 10 /\ \A n \in 1 .. MaxLength : a \div TenTo[n] # 10
  BY DEF GoesOnAfterTen
<1> HIDE DEF a, sg, t
<1> DEFINE K == J + 2
           n1 == J + 1
<1>5. K \in Nat \ {0} /\ K > 1 /\ K - 1 = n1 /\ n1 \in Nat /\ n1 >= 1 /\ J + 1 = n1
  OBVIOUS
<1> DEFINE d == DigitsIn(a, K)
           b == Left(a, n1)
<1>6. IsStart(t, d, sg, K)
  BY <1>3
<1> HIDE DEF K, n1
<1>7. d[1] = b /\ b \in Nat /\ b <= 10
  <2>1. d[1] = Left(a, K - 1) /\ d[1] \in Nat
    BY <1>1, <1>5, DigitsTyped
  <2> QED
    BY <1>1, <1>2, <1>5, <2>1
<1>8. t \in Seq(Nat) /\ Len(t) = sg + K /\ (sg = 1 => t[1] = Minus) /\ t[sg + 1] = 48 + b
  <2>1. 1 \in 1 .. K
    BY <1>5
  <2>2. t \in Seq(Nat) /\ Len(t) = sg + K /\ (sg = 1 => t[1] = Minus) /\ t[sg + 1] = Digit(d[1])
    BY <1>6, <2>1 DEF IsStart
  <2> QED
    BY <1>7, <2>2 DEF Digit
<1> HIDE DEF d, b
<1>10. b # 10
  <2>1. CASE n1 <= MaxLength
    <3>1. n1 \in 1 .. MaxLength
      BY <1>4, <1>5, <2>1
    <3> QED
      BY <1>9, <3>1 DEF Left, b
  <2>2. CASE ~(n1 <= MaxLength)
    <3>1. MaxLength - 1 <= n1
      BY <1>4, <1>5, <2>2
    <3>2. b <= Left(a, MaxLength - 1)
      BY <1>1, <1>4, <1>5, <3>1, QuotientFalls DEF b
    <3> HIDE DEF Left
    <3> QED
      BY <1>4, <1>7, <3>2
  <2> QED
    BY <2>1, <2>2
<1>11. b >= 1
  <2>1. b = Left(a, J) \div 10 /\ Left(a, J) \in Nat
    BY <1>1, <1>5, QuotientSteps DEF b, n1
  <2>2. Left(a, J) >= 10
    <3>1. CASE J = 0
      <4>1. Left(a, 0) = a
        BY <1>1, QuotientSteps
      <4> QED
        BY <1>9, <3>1, <4>1
    <3>2. CASE J # 0
      <4>1. J \in 1 .. J
        BY <3>2
      <4>2. Left(a, J) > 10
        BY <1>2, <4>1
      <4> HIDE DEF Left
      <4> QED
        BY <2>1, <4>2
    <3> QED
      BY <3>1, <3>2
  <2> DEFINE l == Left(a, J)
  <2> HIDE DEF l
  <2>3. l \in Nat /\ l >= 10 /\ b = l \div 10
    BY <2>1, <2>2 DEF l
  <2> QED
    BY <2>3
<1>12. Left(a, K - 1) <= 9 /\ Left(a, K - 1) >= 1
  <2>1. b <= 9
    BY <1>7, <1>10
  <2> QED
    BY <1>5, <1>11, <2>1 DEF b
<1>13. IsTextOf(t, IF sg = 1 THEN -a ELSE a)
  BY <1>1, <1>5, <1>6, <1>12, TextIs DEF d
<1>14. IsTextOf(t, Signed(z))
  BY <1>1, <1>13
<1> QED
  BY <1>14 DEF t

(* The doubled ten exceeds what is less than three quarters of the largest  *)
(* number: 16 times a power of two is too large, or 32 times it is no more *)
(* than 20 of the 32 parts of the words.                                   *)
LEMMA DividedIs ==
  ASSUME NEW z \in Word, DividedByTen(z)
  PROVE  Divisible(z, 10)
<1> DEFINE a == Magnitude(z)
           N == Bits - 5
           p == TwoTo[N]
<1>1. a \in Nat /\ 4 * a < 3 * HalfOfWords
  BY MagnitudeIs DEF DividedByTen
<1>2. N \in Nat /\ p \in Nat /\ HalfOfWords = 16 * p
  <2>1. N \in Nat /\ N + 1 + 1 + 1 + 1 = Bits - 1
    BY BitsAssumption
  <2> HIDE DEF N
  <2>2. TwoTo[N + 1 + 1 + 1 + 1] = 2 * TwoTo[N + 1 + 1 + 1] /\ TwoTo[N + 1 + 1 + 1] = 2 * TwoTo[N + 1 + 1]
        /\ TwoTo[N + 1 + 1] = 2 * TwoTo[N + 1] /\ TwoTo[N + 1] = 2 * TwoTo[N] /\ TwoTo[N] \in Nat
    BY <2>1, Powers
  <2> QED
    BY <2>1, <2>2 DEF HalfOfWords
<1> HIDE DEF N, p, a
<1>3. ASSUME NEW k \in 0 .. Bits, TwoTo[k] <= a \div 10
      PROVE  10 * TwoTo[k + 1] + a < 2 * HalfOfWords
  <2>1. k \in Nat /\ k + 1 \in Nat /\ TwoTo[k] \in Nat /\ TwoTo[k + 1] = 2 * TwoTo[k]
    BY BitsAssumption, Powers
  <2>2. 10 * TwoTo[k] <= a
    BY <1>1, <1>3, <2>1, TenthIs
  <2>3. CASE k <= N
    <3>1. TwoTo[k] <= p
      BY <1>2, <2>1, <2>3, PowersGrow DEF p
    <3> QED
      BY <1>1, <1>2, <2>1, <3>1
  <2>4. CASE k > N
    <3>1. TwoTo[N + 1] = 2 * p /\ N + 1 \in Nat
      BY <1>2, Powers DEF p
    <3>2. TwoTo[N + 1] <= TwoTo[k]
      BY <1>2, <2>1, <2>4, <3>1, PowersGrow
    <3> QED
      BY <1>1, <1>2, <2>1, <2>2, <3>1, <3>2
  <2> QED
    BY <1>2, <2>1, <2>3, <2>4
<1>4. a < HalfOfWords /\ HalfOfWords \in Nat
  BY <1>1, <1>2
<1> QED
  BY <1>3, <1>4, TenIsSmall, Sizes DEF Divisible, a

(* String.jack and Output.jack, for every width of a word and every buffer: *)
(* of each number below three quarters of the largest one that fits the    *)
(* string, setInt writes the shortest text and intValue reads it back, and *)
(* printInt prints that text if the number has several digits and does not *)
(* go on after a 10.  Of other numbers it says nothing: ten does not       *)
(* divide the larger ones rightly.                                         *)
THEOREM NumbersAreRight == Spec => []NumbersRoundTrip
<1>1. ASSUME Consistent PROVE NumbersRoundTrip
  <2>1. operandX \in Word
    BY <1>1 DEF Consistent, IsSession, operandX
  <2> DEFINE z == operandX
  <2> HIDE DEF z
  <2>2. z \in Word
    BY <2>1 DEF z
  <2>3. ASSUME DividedByTen(z), FitsString(z)
        PROVE  /\ IsWritten(setInt(NewString, z), z)
               /\ Magnitude(z) >= 10 /\ ~GoesOnAfterTen(z) => IsTextOf(printInt(z), Signed(z))
    <3>1. Divisible(z, 10)
      BY <2>2, <2>3, DividedIs
    <3>2. MaxLength > 0 /\ TenTo[MaxLength - 1] > Magnitude(z)
      <4>1. Magnitude(z) \in Nat /\ MaxLength > 0 /\ MaxLength - 1 \in Nat
        BY <2>2, <2>3, MagnitudeIs, Places DEF FitsString
      <4>2. TenTo[MaxLength - 1] \in Nat
        BY <4>1, Tens
      <4> QED
        BY <2>3, <4>1, <4>2 DEF FitsString
    <3> QED
      BY <2>2, <3>1, <3>2, SetIntIs, PrintIntIs
  <2> QED
    BY <2>3 DEF NumbersRoundTrip, z
<1> QED
  BY <1>1, TypedAlways, PTL
=============================================================================
