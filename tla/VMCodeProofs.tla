----------------------------- MODULE VMCodeProofs -----------------------------
(***************************************************************************)
(* The code of every command computes what its block says, for words and   *)
(* memory layouts of every size: CodeComputes.                             *)
(***************************************************************************)
EXTENDS VMCode, VMBackendProofs, WellFoundedInduction, NaturalsInduction

(* A set of numbers that has a member has a least one.                     *)
LEMMA LeastNumber ==
  ASSUME NEW S \in SUBSET Nat, S # {}
  PROVE  \E m \in S : \A k \in S : m <= k
<1> DEFINE Below == OpToRel(<, Nat)
<1>1. IsWellFoundedOn(Below, Nat)
  BY NatLessThanWellFounded
<1>2. ASSUME NEW k \in Nat, NEW m \in Nat, k < m PROVE <<k, m>> \in Below
  <2> DEFINE pair == <<k, m>>
  <2>1. pair \in Nat \X Nat /\ pair[1] < pair[2]
    BY <1>2
  <2> QED
    BY <2>1 DEF OpToRel
<1> HIDE DEF Below
<1>3. PICK m \in S : \A k \in S : ~(<<k, m>> \in Below)
  BY <1>1, WFMin
<1>4. ASSUME NEW k \in S PROVE m <= k
  <2>1. k \in Nat /\ m \in Nat
    BY <1>3
  <2>2. ~(<<k, m>> \in Below)
    BY <1>3
  <2>3. ~(k < m)
    BY <1>2, <2>1, <2>2
  <2> QED
    BY <2>1, <2>3
<1> QED
  BY <1>4

(* Induction: a set of numbers with 0 and the successors of its members.   *)
LEMMA AllNumbers ==
  ASSUME NEW S \in SUBSET Nat, 0 \in S, \A n \in S : n + 1 \in S
  PROVE  \A n \in Nat : n \in S
<1> DEFINE T == Nat \ S
<1>1. CASE T = {}
  BY <1>1
<1>2. CASE T # {}
  <2>1. PICK m \in T : \A k \in T : m <= k
    BY <1>2, LeastNumber
  <2>2. m # 0 /\ m - 1 \in Nat /\ m - 1 \notin T
    BY <2>1
  <2>3. m - 1 + 1 \in S
    BY <2>2
  <2> QED
    BY <2>1, <2>3
<1> QED
  BY <1>1, <1>2

(* A property of every cycle of a run.                                     *)
LEMMA AllRounds ==
  ASSUME NEW N \in Nat, NEW S \in SUBSET (0 .. N), 0 \in S, \A n \in S : n < N => n + 1 \in S
  PROVE  \A n \in 0 .. N : n \in S
<1> DEFINE T == {n \in Nat : n <= N => n \in S}
<1>1. 0 \in T /\ \A n \in T : n + 1 \in T
  OBVIOUS
<1>2. T \in SUBSET Nat
  OBVIOUS
<1>3. \A n \in Nat : n \in T
  BY <1>1, <1>2, AllNumbers
<1> QED
  BY <1>3

-----------------------------------------------------------------------------
(* Runs of the computer                                                    *)

Begin(m, a, d) == [a |-> a, to |-> 0, d |-> d, ram |-> m, pc |-> 1, exit |-> Through]

(* r[n] is the computer after n cycles.                                    *)
IsRun(r, s, code) ==
  \A n \in 0 .. Len(code) : r[n] = IF n = 0 THEN s ELSE NextCycle(r[n - 1], code)

(* There is a run of every length.                                         *)
LEMMA RunExists ==
  ASSUME NEW s, NEW code, Len(code) \in Nat
  PROVE  \E r : /\ r = [n \in 0 .. Len(code) |-> r[n]]
                /\ IsRun(r, s, code)
<1> DEFINE Begins(g, n) == /\ g = [i \in 0 .. n |-> g[i]]
                           /\ g[0] = s
                           /\ \A i \in 1 .. n : g[i] = NextCycle(g[i - 1], code)
           S == {n \in Nat : \E g : Begins(g, n)}
<1>1. 0 \in S
  <2> DEFINE g == [i \in 0 .. 0 |-> s]
  <2>1. Begins(g, 0)
    OBVIOUS
  <2> QED
    BY <2>1
<1>2. ASSUME NEW n \in S PROVE n + 1 \in S
  <2>1. n \in Nat
    OBVIOUS
  <2>2. PICK g : Begins(g, n)
    OBVIOUS
  <2> DEFINE h == [i \in 0 .. n + 1 |-> IF i = n + 1 THEN NextCycle(g[n], code) ELSE g[i]]
  <2>3. \A i \in 0 .. n + 1 : h[i] = IF i = n + 1 THEN NextCycle(g[n], code) ELSE g[i]
    OBVIOUS
  <2>4. h = [i \in 0 .. n + 1 |-> h[i]]
    OBVIOUS
  <2> HIDE DEF h
  <2>5. h[0] = s
    <3>1. 0 \in 0 .. n + 1 /\ 0 # n + 1
      BY <2>1
    <3> QED
      BY <2>2, <2>3, <3>1
  <2>6. ASSUME NEW i \in 1 .. n + 1 PROVE h[i] = NextCycle(h[i - 1], code)
    <3>1. CASE i = n + 1
      <4>1. i - 1 = n /\ n # n + 1 /\ n \in 0 .. n + 1 /\ i \in 0 .. n + 1
        BY <2>1, <3>1
      <4>2. h[i - 1] = g[n] /\ h[i] = NextCycle(g[n], code)
        BY <2>3, <3>1, <4>1
      <4> QED
        BY <4>2
    <3>2. CASE i # n + 1
      <4>1. i \in 1 .. n /\ i \in 0 .. n + 1 /\ i - 1 \in 0 .. n + 1 /\ i - 1 # n + 1
        BY <2>1, <3>2
      <4>2. h[i - 1] = g[i - 1] /\ h[i] = g[i]
        BY <2>3, <3>2, <4>1
      <4>3. g[i] = NextCycle(g[i - 1], code)
        BY <2>2, <4>1
      <4> QED
        BY <4>2, <4>3
    <3> QED
      BY <3>1, <3>2
  <2>7. Begins(h, n + 1)
    BY <2>4, <2>5, <2>6
  <2> HIDE DEF Begins
  <2> QED
    BY <2>1, <2>7
<1>3. Len(code) \in S
  <2> HIDE DEF S
  <2>1. \A n \in S : n + 1 \in S
    BY <1>2
  <2>2. S \in SUBSET Nat
    BY DEF S
  <2> QED
    BY <1>1, <2>1, <2>2, AllNumbers
<1>4. PICK r : Begins(r, Len(code))
  BY <1>3
<1>5. IsRun(r, s, code)
  <2>1. ASSUME NEW n \in 0 .. Len(code) PROVE r[n] = IF n = 0 THEN s ELSE NextCycle(r[n - 1], code)
    <3>1. n # 0 => n \in 1 .. Len(code)
      OBVIOUS
    <3> QED
      BY <1>4, <3>1
  <2> QED
    BY <2>1 DEF IsRun
<1> QED
  BY <1>4, <1>5

(* RunCode is the end of a run.                                            *)
LEMMA RunEnds ==
  ASSUME NEW m, NEW a, NEW d, NEW code, Len(code) \in Nat
  PROVE  \E r : IsRun(r, Begin(m, a, d), code) /\ RunCode(m, a, d, code) = r[Len(code)]
<1> DEFINE s == [a |-> a, to |-> 0, d |-> d, ram |-> m, pc |-> 1, exit |-> Through]
<1> DEFINE cycles[n \in 0 .. Len(code)] == IF n = 0 THEN s ELSE NextCycle(cycles[n - 1], code)
<1>1. RunCode(m, a, d, code) = cycles[Len(code)]
  BY DEF RunCode
<1>2. s = Begin(m, a, d)
  BY DEF Begin
<1> HIDE DEF s
<1>3. PICK r : r = [n \in 0 .. Len(code) |-> r[n]] /\ IsRun(r, s, code)
  BY RunExists
<1>4. r = [n \in 0 .. Len(code) |-> IF n = 0 THEN s ELSE NextCycle(r[n - 1], code)]
  BY <1>3 DEF IsRun
<1>5. cycles = [n \in 0 .. Len(code) |-> IF n = 0 THEN s ELSE NextCycle(cycles[n - 1], code)]
  BY <1>4 DEF cycles
<1> HIDE DEF cycles
<1>6. IsRun(cycles, s, code)
  <2>1. ASSUME NEW n \in 0 .. Len(code)
        PROVE  cycles[n] = IF n = 0 THEN s ELSE NextCycle(cycles[n - 1], code)
    BY <1>5
  <2> QED
    BY <2>1 DEF IsRun
<1> QED
  BY <1>1, <1>2, <1>6

-----------------------------------------------------------------------------
(* The ALU                                                                 *)

(* What a computation makes of D, A and the word at A.                     *)
Out(comp, a, d, w) == ALU(d, Mux16(a, w, parse_comp(comp)[1]), parse_comp(comp))

LEMMA WordRange ==
  /\ Half \in Nat /\ Half > 16
  /\ 0 \in Word /\ Not(0) \in Word /\ 1 \in Word /\ 2 * Half - 1 \in Word
  /\ \A x \in Word : x \in Int /\ 0 <= x /\ x <= 2 * Half - 1
  BY HalfAssumption DEF Word, Not

(* The steps of the ALU for the control bits that are used.                *)
LEMMA AluSteps ==
  ASSUME NEW x \in Word, NEW y \in Word
  PROVE  /\ ALU(x, y, <<0,1,0,1,0,1,0>>) = 0
         /\ ALU(x, y, <<0,1,1,1,0,1,0>>) = 2 * Half - 1
         /\ ALU(x, y, <<0,0,0,1,1,0,0>>) = x
         /\ ALU(x, y, <<0,1,1,0,0,0,0>>) = y
         /\ ALU(x, y, <<1,1,1,0,0,0,0>>) = y
         /\ ALU(x, y, <<1,1,1,0,0,0,1>>) = Not(y)
         /\ ALU(x, y, <<1,1,1,0,0,1,1>>) = Neg(y)
         /\ ALU(x, y, <<0,0,0,1,1,1,1>>) = Neg(x)
         /\ ALU(x, y, <<1,1,1,0,1,1,1>>) = Add(y, 1)
         /\ ALU(x, y, <<1,1,1,0,0,1,0>>) = Sub(y, 1)
         /\ ALU(x, y, <<0,0,0,0,0,1,0>>) = Add(x, y)
         /\ ALU(x, y, <<1,0,0,0,0,1,0>>) = Add(x, y)
         /\ ALU(x, y, <<1,0,1,0,0,1,1>>) = Sub(x, y)
         /\ ALU(x, y, <<1,0,0,0,1,1,1>>) = Sub(y, x)
         /\ ALU(x, y, <<1,0,0,0,0,0,0>>) = And(x, y)
         /\ ALU(x, y, <<1,0,1,0,1,0,1>>) = Or(x, y)
<1>0. /\ Half \in Nat /\ Half > 16
      /\ x \in Int /\ 0 <= x /\ x <= 2 * Half - 1
      /\ y \in Int /\ 0 <= y /\ y <= 2 * Half - 1
  BY WordRange
<1>1. /\ ALU(x, y, <<0,1,0,1,0,1,0>>) = Add(0, 0)
      /\ ALU(x, y, <<0,1,1,1,0,1,0>>) = Add(Not(0), 0)
      /\ ALU(x, y, <<0,0,0,1,1,0,0>>) = And(x, Not(0))
      /\ ALU(x, y, <<0,1,1,0,0,0,0>>) = And(Not(0), y)
      /\ ALU(x, y, <<1,1,1,0,0,0,0>>) = And(Not(0), y)
      /\ ALU(x, y, <<1,1,1,0,0,0,1>>) = Not(And(Not(0), y))
      /\ ALU(x, y, <<1,1,1,0,0,1,1>>) = Not(Add(Not(0), y))
      /\ ALU(x, y, <<0,0,0,1,1,1,1>>) = Not(Add(x, Not(0)))
  BY DEF ALU, Mux16, ZeroIf, NegateIf
<1>2. /\ ALU(x, y, <<1,1,1,0,1,1,1>>) = Not(Add(Not(0), Not(y)))
      /\ ALU(x, y, <<1,1,1,0,0,1,0>>) = Add(Not(0), y)
      /\ ALU(x, y, <<0,0,0,0,0,1,0>>) = Add(x, y)
      /\ ALU(x, y, <<1,0,0,0,0,1,0>>) = Add(x, y)
      /\ ALU(x, y, <<1,0,1,0,0,1,1>>) = Not(Add(Not(x), y))
      /\ ALU(x, y, <<1,0,0,0,1,1,1>>) = Not(Add(x, Not(y)))
      /\ ALU(x, y, <<1,0,0,0,0,0,0>>) = And(x, y)
      /\ ALU(x, y, <<1,0,1,0,1,0,1>>) = Not(And(Not(x), Not(y)))
  BY DEF ALU, Mux16, ZeroIf, NegateIf
<1>3. /\ Add(0, 0) = 0 /\ Add(Not(0), 0) = 2 * Half - 1
      /\ Not(Add(Not(0), y)) = Neg(y) /\ Not(Add(x, Not(0))) = Neg(x)
      /\ Not(Add(Not(0), Not(y))) = Add(y, 1) /\ Add(Not(0), y) = Sub(y, 1)
      /\ Not(Add(Not(x), y)) = Sub(x, y) /\ Not(Add(x, Not(y))) = Sub(y, x)
  <2>0. PICK N \in Nat : N = 2 * Half
    BY <1>0
  <2>1. N \in Int /\ N > 32 /\ x < N /\ y < N
    BY <1>0, <2>0
  <2>2. /\ \A v \in Int : v < 0 => Wrap(v) = v + N
        /\ \A v \in Int : v >= N => Wrap(v) = v - N
        /\ \A v \in Int : v >= 0 /\ v < N => Wrap(v) = v
    BY <2>0, <2>1 DEF Wrap
  <2>3. \A v \in Int : Not(v) = N - 1 - v
    BY <2>0 DEF Not
  <2>4. Not(0) = N - 1 /\ Not(y) = N - 1 - y /\ Not(x) = N - 1 - x
    BY <1>0, <2>1, <2>3
  <2>5. Wrap(0) = 0 /\ Wrap(N - 1) = N - 1
    BY <2>1, <2>2
  <2>6. ASSUME NEW z \in Int, 0 <= z, z < N
        PROVE  /\ Not(Wrap(N - 1 + z)) = Wrap(0 - z) /\ Not(Wrap(z + (N - 1))) = Wrap(0 - z)
               /\ Not(Wrap(N - 1 + (N - 1 - z))) = Wrap(z + 1) /\ Wrap(N - 1 + z) = Wrap(z - 1)
    <3>1. CASE z = 0
      <4>1. /\ N - 1 + z = N - 1 /\ z + (N - 1) = N - 1 /\ 0 - z = 0 /\ z + 1 = 1 /\ z - 1 = -1
            /\ N - 1 + (N - 1 - z) = N + N - 2
        BY <2>1, <3>1
      <4>2. Wrap(-1) = N - 1 /\ Wrap(1) = 1 /\ Wrap(N + N - 2) = N - 2
        BY <2>1, <2>2
      <4>3. Not(N - 1) = 0 /\ Not(N - 2) = 1
        BY <2>1, <2>3
      <4> QED
        BY <2>5, <4>1, <4>2, <4>3
    <3>2. CASE z > 0
      <4>1. Wrap(N - 1 + z) = z - 1 /\ Wrap(z + (N - 1)) = z - 1 /\ Wrap(0 - z) = N - z /\ Wrap(z - 1) = z - 1
        BY <2>1, <2>2, <2>6, <3>2
      <4>2. Not(z - 1) = N - z
        BY <2>1, <2>3
      <4>3. Not(Wrap(N - 1 + (N - 1 - z))) = Wrap(z + 1)
        <5>1. CASE z = N - 1
          <6>1. N - 1 + (N - 1 - z) = N - 1 /\ z + 1 = N
            BY <2>1, <5>1
          <6>2. Wrap(N) = 0 /\ Not(N - 1) = 0
            BY <2>1, <2>2, <2>3
          <6> QED
            BY <2>5, <6>1, <6>2
        <5>2. CASE z < N - 1
          <6>1. Wrap(z + 1) = z + 1 /\ Wrap(N - 1 + (N - 1 - z)) = N - 2 - z /\ Not(N - 2 - z) = z + 1
            BY <2>1, <2>2, <2>3, <2>6, <3>2, <5>2
          <6> QED
            BY <6>1
        <5> QED
          BY <2>1, <2>6, <5>1, <5>2
      <4> QED
        BY <4>1, <4>2, <4>3
    <3> QED
      BY <2>6, <3>1, <3>2
  <2>7. ASSUME NEW u \in Int, NEW v \in Int, 0 <= u, u < N, 0 <= v, v < N
        PROVE  Not(Wrap(N - 1 - u + v)) = Wrap(u - v) /\ Not(Wrap(v + (N - 1 - u))) = Wrap(u - v)
    <3>0. N - 1 - u + v = v + (N - 1 - u) /\ N - 1 - u + v \in Int /\ u - v \in Int
      BY <2>1
    <3>1. CASE u >= v
      <4>1. Wrap(N - 1 - u + v) = N - 1 - u + v /\ Wrap(u - v) = u - v
        BY <2>1, <2>2, <2>7, <3>0, <3>1
      <4>2. Not(N - 1 - u + v) = u - v
        BY <2>1, <2>3, <3>0
      <4> QED
        BY <3>0, <4>1, <4>2
    <3>2. CASE u < v
      <4>1. Wrap(N - 1 - u + v) = v - 1 - u /\ Wrap(u - v) = u - v + N
        BY <2>1, <2>2, <2>7, <3>0, <3>2
      <4>2. Not(v - 1 - u) = u - v + N
        BY <2>1, <2>3, <3>0
      <4> QED
        BY <3>0, <4>1, <4>2
    <3> QED
      BY <3>1, <3>2
  <2>8. Add(0, 0) = 0 /\ Add(Not(0), 0) = 2 * Half - 1
    <3>1. 0 + 0 = 0 /\ N - 1 + 0 = N - 1
      BY <2>1
    <3> QED
      BY <2>0, <2>4, <2>5, <3>1 DEF Add
  <2>9. /\ Not(Add(Not(0), y)) = Neg(y) /\ Not(Add(x, Not(0))) = Neg(x)
        /\ Not(Add(Not(0), Not(y))) = Add(y, 1) /\ Add(Not(0), y) = Sub(y, 1)
    <3>1. -x = 0 - x /\ -y = 0 - y
      BY <1>0
    <3> QED
      BY <1>0, <2>1, <2>4, <2>6, <3>1 DEF Add, Sub, Neg
  <2>10. Not(Add(Not(x), y)) = Sub(x, y) /\ Not(Add(x, Not(y))) = Sub(y, x)
    BY <1>0, <2>1, <2>4, <2>7 DEF Add, Sub
  <2> QED
    BY <2>8, <2>9, <2>10
<1>4. And(x, Not(0)) = x /\ And(Not(0), y) = y
  BY WordRange, AluAssumption, BitwiseAssumption
<1>5. Not(And(Not(x), Not(y))) = Or(x, y)
  BY AluAssumption
<1> QED
  BY <1>1, <1>2, <1>3, <1>4, <1>5

(* The computations that the code of the commands contains.                *)
LEMMA OutIs ==
  ASSUME NEW a \in Word, NEW d \in Word, NEW w \in Word
  PROVE  /\ Out("0", a, d, w) = 0
         /\ Out("-1", a, d, w) = 2 * Half - 1
         /\ Out("D", a, d, w) = d
         /\ Out("A", a, d, w) = a
         /\ Out("M", a, d, w) = w
         /\ Out("!M", a, d, w) = Not(w)
         /\ Out("-M", a, d, w) = Neg(w)
         /\ Out("-D", a, d, w) = Neg(d)
         /\ Out("M+1", a, d, w) = Add(w, 1)
         /\ Out("M-1", a, d, w) = Sub(w, 1)
         /\ Out("D+A", a, d, w) = Add(d, a)
         /\ Out("D+M", a, d, w) = Add(d, w)
         /\ Out("D-M", a, d, w) = Sub(d, w)
         /\ Out("M-D", a, d, w) = Sub(w, d)
         /\ Out("D&M", a, d, w) = And(d, w)
         /\ Out("D|M", a, d, w) = Or(d, w)
<1>1. /\ parse_comp("0") = <<0,1,0,1,0,1,0>>
      /\ parse_comp("-1") = <<0,1,1,1,0,1,0>>
      /\ parse_comp("D") = <<0,0,0,1,1,0,0>>
      /\ parse_comp("A") = <<0,1,1,0,0,0,0>>
      /\ parse_comp("M") = <<1,1,1,0,0,0,0>>
      /\ parse_comp("!M") = <<1,1,1,0,0,0,1>>
      /\ parse_comp("-M") = <<1,1,1,0,0,1,1>>
      /\ parse_comp("-D") = <<0,0,0,1,1,1,1>>
  BY DEF parse_comp
<1>2. /\ parse_comp("M+1") = <<1,1,1,0,1,1,1>>
      /\ parse_comp("M-1") = <<1,1,1,0,0,1,0>>
      /\ parse_comp("D+A") = <<0,0,0,0,0,1,0>>
      /\ parse_comp("D+M") = <<1,0,0,0,0,1,0>>
      /\ parse_comp("D-M") = <<1,0,1,0,0,1,1>>
      /\ parse_comp("M-D") = <<1,0,0,0,1,1,1>>
      /\ parse_comp("D&M") = <<1,0,0,0,0,0,0>>
      /\ parse_comp("D|M") = <<1,0,1,0,1,0,1>>
  BY DEF parse_comp
<1>3. /\ Out("0", a, d, w) = ALU(d, a, <<0,1,0,1,0,1,0>>)
      /\ Out("-1", a, d, w) = ALU(d, a, <<0,1,1,1,0,1,0>>)
      /\ Out("D", a, d, w) = ALU(d, a, <<0,0,0,1,1,0,0>>)
      /\ Out("A", a, d, w) = ALU(d, a, <<0,1,1,0,0,0,0>>)
      /\ Out("M", a, d, w) = ALU(d, w, <<1,1,1,0,0,0,0>>)
      /\ Out("!M", a, d, w) = ALU(d, w, <<1,1,1,0,0,0,1>>)
      /\ Out("-M", a, d, w) = ALU(d, w, <<1,1,1,0,0,1,1>>)
      /\ Out("-D", a, d, w) = ALU(d, a, <<0,0,0,1,1,1,1>>)
  BY <1>1 DEF Out, Mux16
<1>4. /\ Out("M+1", a, d, w) = ALU(d, w, <<1,1,1,0,1,1,1>>)
      /\ Out("M-1", a, d, w) = ALU(d, w, <<1,1,1,0,0,1,0>>)
      /\ Out("D+A", a, d, w) = ALU(d, a, <<0,0,0,0,0,1,0>>)
      /\ Out("D+M", a, d, w) = ALU(d, w, <<1,0,0,0,0,1,0>>)
      /\ Out("D-M", a, d, w) = ALU(d, w, <<1,0,1,0,0,1,1>>)
      /\ Out("M-D", a, d, w) = ALU(d, w, <<1,0,0,0,1,1,1>>)
      /\ Out("D&M", a, d, w) = ALU(d, w, <<1,0,0,0,0,0,0>>)
      /\ Out("D|M", a, d, w) = ALU(d, w, <<1,0,1,0,1,0,1>>)
  BY <1>2 DEF Out, Mux16
<1> QED
  BY ONLY <1>3, <1>4, AluSteps, a \in Word, d \in Word, w \in Word

-----------------------------------------------------------------------------
(* One instruction                                                         *)

(* The texts that the code of the commands contains.                       *)
CompText == {"0", "-1", "D", "A", "M", "!M", "-M", "-D", "M+1", "M-1",
             "D+A", "D+M", "D-M", "M-D", "D&M", "D|M"}
JumpText == {"", "JEQ", "JLT", "JGT", "JNE", "JMP"}

Instruction ==
  [kind : {"at"}, value : Int, to : Nat]
    \cup [kind : {"compute"}, dest : SUBSET {"A", "D", "M"}, comp : CompText, jump : JumpText]

(* The registers and the RAM, and the whole computer before instruction p.  *)
State(a, d, m) == [a |-> a, to |-> 0, d |-> d, ram |-> m]
AtTarget(k, d, m) == [a |-> 0, to |-> k, d |-> d, ram |-> m]
Computer(s, p, e) == [a |-> s.a, to |-> s.to, d |-> s.d, ram |-> s.ram, pc |-> p, exit |-> e]

LEMMA InstructionTypes ==
  /\ \A v \in Int : At(v) \in Instruction
  /\ \A k \in Nat : AtLabel(k) \in Instruction
  /\ \A dest \in SUBSET {"A", "D", "M"} : \A comp \in CompText : Set(dest, comp) \in Instruction
  /\ \A comp \in CompText : \A jump \in JumpText : JumpIf(comp, jump) \in Instruction
<1>1. ASSUME NEW v \in Int, NEW k \in Nat PROVE At(v) \in Instruction /\ AtLabel(k) \in Instruction
  BY DEF Instruction, At, AtLabel
<1>2. ASSUME NEW dest \in SUBSET {"A", "D", "M"}, NEW comp \in CompText, NEW jump \in JumpText
      PROVE  [kind |-> "compute", dest |-> dest, comp |-> comp, jump |-> jump] \in Instruction
  BY DEF Instruction
<1>3. "" \in JumpText
  BY DEF JumpText
<1>4. {} \in SUBSET {"A", "D", "M"}
  OBVIOUS
<1>5. ASSUME NEW dest \in SUBSET {"A", "D", "M"}, NEW comp \in CompText PROVE Set(dest, comp) \in Instruction
  BY <1>2, <1>3 DEF Set
<1>6. ASSUME NEW comp \in CompText, NEW jump \in JumpText PROVE JumpIf(comp, jump) \in Instruction
  BY <1>2, <1>4 DEF JumpIf
<1> QED
  BY <1>1, <1>5, <1>6

LEMMA CycleAt ==
  ASSUME NEW a, NEW d, NEW m, NEW v, NEW p, NEW e
  PROVE  /\ Cycle(Computer(State(a, d, m), p, e), At(v)) = Computer(State(v, d, m), p + 1, e)
         /\ Cycle(Computer(State(a, d, m), p, e), AtLabel(v)) = Computer(AtTarget(v, d, m), p + 1, e)
  BY DEF Cycle, Computer, State, AtTarget, At, AtLabel

(* What a computation without a jump writes.                               *)
LEMMA CycleSet ==
  ASSUME NEW a, NEW d, NEW m, NEW dest, NEW comp, NEW p, NEW e
  PROVE  LET out == Out(comp, a, d, m[Addr(a)])
         IN Cycle(Computer(State(a, d, m), p, e), Set(dest, comp))
              = Computer(State(IF "A" \in dest THEN out ELSE a,
                               IF "D" \in dest THEN out ELSE d,
                               IF "M" \in dest THEN [m EXCEPT ![Addr(a)] = out] ELSE m), p + 1, e)
<1> DEFINE out == Out(comp, a, d, m[Addr(a)])
           c == Computer(State(a, d, m), p, e)
           i == Set(dest, comp)
<1>1. /\ c.a = a /\ c.to = 0 /\ c.d = d /\ c.ram = m /\ c.pc = p /\ c.exit = e
  BY DEF Computer, State
<1>2. i.kind = "compute" /\ i.dest = dest /\ i.comp = comp /\ i.jump = ""
  BY DEF Set
<1>3. parse_jump(i.jump) = <<0,0,0>>
  BY <1>2 DEF parse_jump
<1>4. ~Taken(out, parse_jump(i.jump))
  BY <1>3 DEF Taken
<1>5. out = ALU(c.d, Mux16(c.a, c.ram[Addr(c.a)], parse_comp(i.comp)[1]), parse_comp(i.comp))
  BY <1>1, <1>2 DEF Out
<1> HIDE DEF out, c, i
<1>6. Cycle(c, i) = [a |-> IF "A" \in dest THEN out ELSE a, to |-> 0,
                     d |-> IF "D" \in dest THEN out ELSE d,
                     ram |-> IF "M" \in dest THEN [m EXCEPT ![Addr(a)] = out] ELSE m,
                     pc |-> p + 1, exit |-> e]
  BY <1>1, <1>2, <1>4, <1>5 DEF Cycle
<1> QED
  BY <1>6 DEF Computer, State, c, i, out

LEMMA CycleToA ==
  ASSUME NEW a, NEW d, NEW m, NEW comp, NEW p, NEW e, NEW out, Out(comp, a, d, m[Addr(a)]) = out
  PROVE  Cycle(Computer(State(a, d, m), p, e), Set({"A"}, comp))
           = Computer(State(out, d, m), p + 1, e)
<1> DEFINE dest == {"A"}
<1>1. Cycle(Computer(State(a, d, m), p, e), Set(dest, comp))
        = Computer(State(IF "A" \in dest THEN out ELSE a,
                         IF "D" \in dest THEN out ELSE d,
                         IF "M" \in dest THEN [m EXCEPT ![Addr(a)] = out] ELSE m), p + 1, e)
  <2> HIDE DEF dest
  <2> QED
    BY ONLY CycleSet, Out(comp, a, d, m[Addr(a)]) = out
<1>2. ("A" \in dest) = TRUE /\ ("D" \in dest) = FALSE /\ ("M" \in dest) = FALSE
  OBVIOUS
<1> HIDE DEF dest
<1>3. Cycle(Computer(State(a, d, m), p, e), Set(dest, comp)) = Computer(State(out, d, m), p + 1, e)
  BY ONLY <1>1, <1>2
<1> QED
  BY <1>3 DEF dest

LEMMA CycleToD ==
  ASSUME NEW a, NEW d, NEW m, NEW comp, NEW p, NEW e, NEW out, Out(comp, a, d, m[Addr(a)]) = out
  PROVE  Cycle(Computer(State(a, d, m), p, e), Set({"D"}, comp))
           = Computer(State(a, out, m), p + 1, e)
<1> DEFINE dest == {"D"}
<1>1. Cycle(Computer(State(a, d, m), p, e), Set(dest, comp))
        = Computer(State(IF "A" \in dest THEN out ELSE a,
                         IF "D" \in dest THEN out ELSE d,
                         IF "M" \in dest THEN [m EXCEPT ![Addr(a)] = out] ELSE m), p + 1, e)
  <2> HIDE DEF dest
  <2> QED
    BY ONLY CycleSet, Out(comp, a, d, m[Addr(a)]) = out
<1>2. ("A" \in dest) = FALSE /\ ("D" \in dest) = TRUE /\ ("M" \in dest) = FALSE
  OBVIOUS
<1> HIDE DEF dest
<1>3. Cycle(Computer(State(a, d, m), p, e), Set(dest, comp)) = Computer(State(a, out, m), p + 1, e)
  BY ONLY <1>1, <1>2
<1> QED
  BY <1>3 DEF dest

LEMMA CycleToM ==
  ASSUME NEW a, NEW d, NEW m, NEW comp, NEW p, NEW e, NEW out, Out(comp, a, d, m[Addr(a)]) = out
  PROVE  Cycle(Computer(State(a, d, m), p, e), Set({"M"}, comp))
           = Computer(State(a, d, [m EXCEPT ![Addr(a)] = out]), p + 1, e)
<1> DEFINE dest == {"M"}
<1>1. Cycle(Computer(State(a, d, m), p, e), Set(dest, comp))
        = Computer(State(IF "A" \in dest THEN out ELSE a,
                         IF "D" \in dest THEN out ELSE d,
                         IF "M" \in dest THEN [m EXCEPT ![Addr(a)] = out] ELSE m), p + 1, e)
  <2> HIDE DEF dest
  <2> QED
    BY ONLY CycleSet, Out(comp, a, d, m[Addr(a)]) = out
<1>2. ("A" \in dest) = FALSE /\ ("D" \in dest) = FALSE /\ ("M" \in dest) = TRUE
  OBVIOUS
<1> HIDE DEF dest
<1>3. Cycle(Computer(State(a, d, m), p, e), Set(dest, comp)) = Computer(State(a, d, [m EXCEPT ![Addr(a)] = out]), p + 1, e)
  BY ONLY <1>1, <1>2
<1> QED
  BY <1>3 DEF dest

(* A jump to a label of the code, and one out of it.                       *)
LEMMA CycleJump ==
  ASSUME NEW s, NEW comp, NEW jump, NEW p, NEW e
  PROVE  LET taken == Taken(Out(comp, s.a, s.d, s.ram[Addr(s.a)]), parse_jump(jump))
         IN /\ ~taken => Cycle(Computer(s, p, e), JumpIf(comp, jump)) = Computer(s, p + 1, e)
            /\ taken /\ s.to # 0
                 => Cycle(Computer(s, p, e), JumpIf(comp, jump)) = Computer(s, s.to, e)
            /\ taken /\ s.to = 0
                 => Cycle(Computer(s, p, e), JumpIf(comp, jump)) = Computer(s, 0, Addr(s.a))
<1> DEFINE out == Out(comp, s.a, s.d, s.ram[Addr(s.a)])
           taken == Taken(out, parse_jump(jump))
           c == Computer(s, p, e)
           i == JumpIf(comp, jump)
<1>1. /\ c.a = s.a /\ c.to = s.to /\ c.d = s.d /\ c.ram = s.ram /\ c.pc = p /\ c.exit = e
  BY DEF Computer
<1>2. i.kind = "compute" /\ i.dest = {} /\ i.comp = comp /\ i.jump = jump
  BY DEF JumpIf
<1>3. out = ALU(c.d, Mux16(c.a, c.ram[Addr(c.a)], parse_comp(i.comp)[1]), parse_comp(i.comp))
  BY <1>1, <1>2 DEF Out
<1>4. taken = Taken(out, parse_jump(i.jump))
  BY <1>2
<1> HIDE DEF out, c, i, taken
<1>5. Cycle(c, i) = [a |-> s.a, to |-> s.to, d |-> s.d, ram |-> s.ram,
                     pc |-> IF ~taken THEN p + 1 ELSE IF s.to # 0 THEN s.to ELSE 0,
                     exit |-> IF taken /\ s.to = 0 THEN Addr(s.a) ELSE e]
  BY <1>1, <1>2, <1>3, <1>4 DEF Cycle
<1>6. /\ ~taken => Cycle(c, i) = Computer(s, p + 1, e)
      /\ taken /\ s.to # 0 => Cycle(c, i) = Computer(s, s.to, e)
      /\ taken /\ s.to = 0 => Cycle(c, i) = Computer(s, 0, Addr(s.a))
  BY <1>5 DEF Computer
<1> QED
  BY <1>6 DEF out, taken, c, i

-----------------------------------------------------------------------------
(* Fragments                                                               *)

(* The run comes to instruction p in state s, p - 1 cycles having been      *)
(* enough for it.                                                          *)
Reaches(r, p, s) == \E n \in 0 .. p - 1 : r[n] = Computer(s, p, Through)

(* The fragment f stands in code from p on.                                *)
Within(f, code, p) ==
  /\ p \in Nat \ {0} /\ p + Len(f) <= Len(code) + 1
  /\ \A i \in 1 .. Len(f) : code[p + i - 1] = f[i]

(* Wherever f stands, running it in state s leads behind it in state t.     *)
Gives(f, s, t) ==
  /\ f \in Seq(Instruction)
  /\ \A r, begin, code, p :
       /\ IsRun(r, begin, code) /\ code \in Seq(Instruction)
       /\ Within(f, code, p) /\ Reaches(r, p, s)
       => Reaches(r, p + Len(f), t)

(* One cycle of a run.                                                     *)
LEMMA OneCycle ==
  ASSUME NEW r, NEW begin, NEW code \in Seq(Instruction), IsRun(r, begin, code),
         NEW p \in DOMAIN code, NEW s, Reaches(r, p, s)
  PROVE  \E n \in 1 .. p : r[n] = Cycle(Computer(s, p, Through), code[p])
<1>1. p \in 1 .. Len(code) /\ Len(code) \in Nat
  OBVIOUS
<1>2. PICK n \in 0 .. p - 1 : r[n] = Computer(s, p, Through)
  BY DEF Reaches
<1>3. n + 1 \in 0 .. Len(code) /\ n + 1 # 0 /\ n + 1 - 1 = n /\ n + 1 \in 1 .. p
  BY <1>1
<1>4. r[n + 1] = NextCycle(r[n], code)
  BY <1>3 DEF IsRun
<1>5. r[n].pc = p
  BY <1>2 DEF Computer
<1>6. r[n + 1] = Cycle(Computer(s, p, Through), code[p])
  BY <1>2, <1>4, <1>5 DEF NextCycle
<1> QED
  BY <1>3, <1>6

(* A step to an instruction further on.                                    *)
LEMMA StepTo ==
  ASSUME NEW r, NEW begin, NEW code \in Seq(Instruction), IsRun(r, begin, code),
         NEW p \in DOMAIN code, NEW s, Reaches(r, p, s), NEW q \in Nat, p < q, NEW t,
         Cycle(Computer(s, p, Through), code[p]) = Computer(t, q, Through)
  PROVE  Reaches(r, q, t)
<1>1. PICK n \in 1 .. p : r[n] = Computer(t, q, Through)
  BY OneCycle
<1>2. n \in 0 .. q - 1
  <2>1. p \in Nat
    OBVIOUS
  <2> QED
    BY <2>1
<1> QED
  BY <1>1, <1>2 DEF Reaches

(* A run stays where it left the code.                                     *)
LEMMA Stays ==
  ASSUME NEW r, NEW begin, NEW code \in Seq(Instruction), IsRun(r, begin, code),
         NEW n \in 0 .. Len(code), r[n].pc \notin DOMAIN code
  PROVE  r[Len(code)] = r[n]
<1> DEFINE N == Len(code)
           S == {k \in 0 .. N : k >= n => r[k] = r[n]}
<1>1. N \in Nat /\ n \in Nat
  OBVIOUS
<1>2. ASSUME NEW k \in S, k < N PROVE k + 1 \in S
  <2>1. k \in 0 .. N /\ k + 1 \in 0 .. N /\ k + 1 - 1 = k /\ k + 1 # 0
    BY <1>1, <1>2
  <2>2. r[k + 1] = NextCycle(r[k], code)
    BY <2>1 DEF IsRun
  <2>3. CASE k + 1 = n
    BY <2>1, <2>3
  <2>4. CASE k >= n
    <3>1. r[k] = r[n]
      BY <2>4
    <3>2. r[k + 1] = r[n]
      BY <2>2, <3>1 DEF NextCycle
    <3> QED
      BY <2>1, <3>2
  <2>5. CASE k + 1 < n
    BY <1>1, <2>1, <2>5
  <2> QED
    BY <1>1, <2>1, <2>3, <2>4, <2>5
<1>3. 0 \in S
  BY <1>1
<1>4. \A k \in 0 .. N : k \in S
  <2>1. S \in SUBSET (0 .. N)
    OBVIOUS
  <2>2. \A k \in S : k < N => k + 1 \in S
    BY <1>2
  <2> HIDE DEF S, N
  <2> QED
    BY <1>1, <1>3, <2>1, <2>2, AllRounds
<1> QED
  BY <1>1, <1>4

(* Fragments one after another.                                            *)
LEMMA Joined ==
  ASSUME NEW f, NEW g, NEW s, NEW t, NEW u, Gives(f, s, t), Gives(g, t, u)
  PROVE  Gives(f \o g, s, u)
<1>1. f \in Seq(Instruction) /\ g \in Seq(Instruction)
  BY DEF Gives
<1>2. /\ f \o g \in Seq(Instruction)
      /\ Len(f \o g) = Len(f) + Len(g)
      /\ \A i \in 1 .. Len(f) + Len(g) : (f \o g)[i] = IF i <= Len(f) THEN f[i] ELSE g[i - Len(f)]
      /\ Len(f) \in Nat /\ Len(g) \in Nat
  BY <1>1, ConcatProperties
<1>3. ASSUME NEW r, NEW begin, NEW code, NEW p,
             IsRun(r, begin, code), code \in Seq(Instruction),
             Within(f \o g, code, p), Reaches(r, p, s)
      PROVE  Reaches(r, p + Len(f \o g), u)
  <2>1. /\ p \in Nat \ {0} /\ p + (Len(f) + Len(g)) <= Len(code) + 1 /\ Len(code) \in Nat
        /\ \A i \in 1 .. Len(f) + Len(g) : code[p + i - 1] = (f \o g)[i]
    BY <1>2, <1>3 DEF Within
  <2>2. Within(f, code, p)
    <3>1. p + Len(f) <= Len(code) + 1
      BY <1>2, <2>1
    <3>2. ASSUME NEW i \in 1 .. Len(f) PROVE code[p + i - 1] = f[i]
      <4>1. i \in 1 .. Len(f) + Len(g) /\ i <= Len(f)
        BY <1>2
      <4> QED
        BY <1>2, <2>1, <4>1
    <3> QED
      BY <2>1, <3>1, <3>2 DEF Within
  <2>3. Reaches(r, p + Len(f), t)
    BY <1>3, <2>2 DEF Gives
  <2>4. Within(g, code, p + Len(f))
    <3>1. p + Len(f) \in Nat \ {0} /\ (p + Len(f)) + Len(g) <= Len(code) + 1
      BY <1>2, <2>1
    <3>2. ASSUME NEW i \in 1 .. Len(g) PROVE code[(p + Len(f)) + i - 1] = g[i]
      <4> DEFINE j == Len(f) + i
      <4>1. j \in 1 .. Len(f) + Len(g) /\ ~(j <= Len(f)) /\ j - Len(f) = i
        BY <1>2
      <4>2. p + j - 1 = (p + Len(f)) + i - 1
        BY <1>2, <2>1
      <4> HIDE DEF j
      <4>3. code[p + j - 1] = (f \o g)[j] /\ (f \o g)[j] = g[j - Len(f)]
        BY <1>2, <2>1, <4>1
      <4> QED
        BY <4>1, <4>2, <4>3
    <3> QED
      BY <3>1, <3>2 DEF Within
  <2>5. Reaches(r, (p + Len(f)) + Len(g), u)
    BY <1>3, <2>3, <2>4 DEF Gives
  <2>6. (p + Len(f)) + Len(g) = p + Len(f \o g)
    BY <1>2, <2>1
  <2> QED
    BY <2>5, <2>6
<1> QED
  BY <1>2, <1>3 DEF Gives

(* One instruction without a jump.                                         *)
LEMMA Single ==
  ASSUME NEW i \in Instruction, NEW s, NEW t,
         \A p \in Nat : Cycle(Computer(s, p, Through), i) = Computer(t, p + 1, Through)
  PROVE  Gives(<<i>>, s, t)
<1> DEFINE f == <<i>>
<1>1. f \in Seq(Instruction) /\ Len(f) = 1 /\ f[1] = i
  OBVIOUS
<1> HIDE DEF f
<1>2. ASSUME NEW r, NEW begin, NEW code, NEW p,
             IsRun(r, begin, code), code \in Seq(Instruction),
             Within(f, code, p), Reaches(r, p, s)
      PROVE  Reaches(r, p + 1, t)
  <2>1. p \in Nat \ {0} /\ p + 1 <= Len(code) + 1 /\ code[p + 1 - 1] = i
    BY <1>1, <1>2 DEF Within
  <2>2. p \in DOMAIN code /\ p + 1 \in Nat /\ p < p + 1 /\ p + 1 - 1 = p
    BY <1>2, <2>1
  <2>3. Cycle(Computer(s, p, Through), code[p]) = Computer(t, p + 1, Through)
    BY <2>1, <2>2
  <2> QED
    BY <1>2, <2>2, <2>3, StepTo
<1>3. Gives(f, s, t)
  BY <1>1, <1>2 DEF Gives
<1> QED
  BY <1>3 DEF f

LEMMA TwoIs ==
  ASSUME NEW i \in Instruction, NEW j \in Instruction
  PROVE  <<i, j>> = <<i>> \o <<j>>
<1> DEFINE f == <<i>>
           g == <<j>>
           h == f \o g
<1>1. /\ f \in Seq(Instruction) /\ g \in Seq(Instruction) /\ Len(f) = 1 /\ Len(g) = 1
      /\ f[1] = i /\ g[1] = j
  OBVIOUS
<1> HIDE DEF f, g
<1>2. h \in Seq(Instruction) /\ Len(h) = 2 /\ h[1] = i /\ h[2] = j
  <2>1. h \in Seq(Instruction) /\ Len(h) = Len(f) + Len(g)
    BY ONLY <1>1, ConcatProperties
  <2>2. \A k \in 1 .. Len(f) + Len(g) : h[k] = IF k <= Len(f) THEN f[k] ELSE g[k - Len(f)]
    BY ONLY <1>1, ConcatProperties
  <2>3. 1 \in 1 .. 1 + 1 /\ 2 \in 1 .. 1 + 1 /\ 1 <= 1 /\ ~(2 <= 1) /\ 2 - 1 = 1 /\ 1 + 1 = 2
    OBVIOUS
  <2>4. h[1] = f[1] /\ h[2] = g[1]
    BY ONLY <1>1, <2>2, <2>3
  <2> QED
    BY ONLY <1>1, <2>1, <2>3, <2>4
<1> HIDE DEF h
<1>3. h = <<i, j>>
  BY <1>2
<1> QED
  BY <1>3 DEF h, f, g

LEMMA Two ==
  ASSUME NEW i \in Instruction, NEW j \in Instruction, NEW s, NEW t, NEW u,
         Gives(<<i>>, s, t), Gives(<<j>>, t, u)
  PROVE  Gives(<<i, j>>, s, u)
  BY TwoIs, Joined

LEMMA Three ==
  ASSUME NEW i \in Instruction, NEW j \in Instruction, NEW k \in Instruction, NEW s, NEW t, NEW u, NEW v,
         Gives(<<i>>, s, t), Gives(<<j>>, t, u), Gives(<<k>>, u, v)
  PROVE  Gives(<<i, j, k>>, s, v)
<1> DEFINE f == <<i, j>>
           g == <<k>>
<1>1. /\ f \in Seq(Instruction) /\ g \in Seq(Instruction) /\ Len(f) = 2 /\ Len(g) = 1
      /\ f[1] = i /\ f[2] = j /\ g[1] = k
  OBVIOUS
<1>2. Gives(f, s, u)
  BY Two
<1> HIDE DEF f, g
<1>3. /\ f \o g \in Seq(Instruction) /\ Len(f \o g) = 3
      /\ (f \o g)[1] = i /\ (f \o g)[2] = j /\ (f \o g)[3] = k
  <2>1. /\ f \o g \in Seq(Instruction)
        /\ Len(f \o g) = Len(f) + Len(g)
        /\ \A n \in 1 .. Len(f) + Len(g) : (f \o g)[n] = IF n <= Len(f) THEN f[n] ELSE g[n - Len(f)]
    BY <1>1, ConcatProperties
  <2>2. 2 + 1 = 3 /\ 1 \in 1 .. 3 /\ 2 \in 1 .. 3 /\ 3 \in 1 .. 3 /\ 3 - 2 = 1
        /\ 1 <= 2 /\ 2 <= 2 /\ ~(3 <= 2)
    OBVIOUS
  <2> QED
    BY <1>1, <2>1, <2>2
<1>4. f \o g = <<i, j, k>>
  <2> DEFINE h == f \o g
  <2>1. h \in Seq(Instruction) /\ Len(h) = 3 /\ h[1] = i /\ h[2] = j /\ h[3] = k
    BY <1>3
  <2> HIDE DEF h
  <2>2. h = <<i, j, k>>
    BY <2>1
  <2> QED
    BY <2>2 DEF h
<1> QED
  BY <1>2, <1>4, Joined DEF g

(* Loading A, and the three places a computation can go to.                *)
LEMMA GivesAt ==
  ASSUME NEW v \in Int, NEW a, NEW d, NEW m
  PROVE  Gives(<<At(v)>>, State(a, d, m), State(v, d, m))
<1>1. \A p \in Nat : Cycle(Computer(State(a, d, m), p, Through), At(v))
                       = Computer(State(v, d, m), p + 1, Through)
  BY ONLY CycleAt
<1>2. At(v) \in Instruction
  BY InstructionTypes
<1> QED
  BY <1>1, <1>2, Single

LEMMA GivesSet ==
  ASSUME NEW comp \in CompText, NEW a, NEW d, NEW m, NEW out, out = Out(comp, a, d, m[Addr(a)])
  PROVE  /\ Gives(<<Set({"A"}, comp)>>, State(a, d, m), State(out, d, m))
         /\ Gives(<<Set({"D"}, comp)>>, State(a, d, m), State(a, out, m))
         /\ Gives(<<Set({"M"}, comp)>>, State(a, d, m), State(a, d, [m EXCEPT ![Addr(a)] = out]))
<1>1. {"A"} \in SUBSET {"A", "D", "M"} /\ {"D"} \in SUBSET {"A", "D", "M"}
      /\ {"M"} \in SUBSET {"A", "D", "M"}
  OBVIOUS
<1>2. /\ Set({"A"}, comp) \in Instruction /\ Set({"D"}, comp) \in Instruction
      /\ Set({"M"}, comp) \in Instruction
  BY <1>1, InstructionTypes
<1>3. Gives(<<Set({"A"}, comp)>>, State(a, d, m), State(out, d, m))
  BY <1>2, CycleToA, Single
<1>4. Gives(<<Set({"D"}, comp)>>, State(a, d, m), State(a, out, m))
  BY <1>2, CycleToD, Single
<1>5. Gives(<<Set({"M"}, comp)>>, State(a, d, m), State(a, d, [m EXCEPT ![Addr(a)] = out]))
  BY <1>2, CycleToM, Single
<1> QED
  BY <1>3, <1>4, <1>5

LEMMA Five ==
  ASSUME NEW i \in Instruction, NEW j \in Instruction, NEW k \in Instruction,
         NEW l \in Instruction, NEW o \in Instruction, NEW s, NEW t, NEW u,
         Gives(<<i, j, k>>, s, t), Gives(<<l, o>>, t, u)
  PROVE  Gives(<<i, j, k, l, o>>, s, u)
<1> DEFINE f == <<i, j, k>>
           g == <<l, o>>
<1>1. /\ f \in Seq(Instruction) /\ g \in Seq(Instruction) /\ Len(f) = 3 /\ Len(g) = 2
      /\ f[1] = i /\ f[2] = j /\ f[3] = k /\ g[1] = l /\ g[2] = o
  OBVIOUS
<1> HIDE DEF f, g
<1>2. /\ f \o g \in Seq(Instruction) /\ Len(f \o g) = 5
      /\ (f \o g)[1] = i /\ (f \o g)[2] = j /\ (f \o g)[3] = k /\ (f \o g)[4] = l /\ (f \o g)[5] = o
  <2>1. /\ f \o g \in Seq(Instruction)
        /\ Len(f \o g) = Len(f) + Len(g)
        /\ \A n \in 1 .. Len(f) + Len(g) : (f \o g)[n] = IF n <= Len(f) THEN f[n] ELSE g[n - Len(f)]
    BY <1>1, ConcatProperties
  <2>2. 3 + 2 = 5 /\ 1 \in 1 .. 5 /\ 2 \in 1 .. 5 /\ 3 \in 1 .. 5 /\ 4 \in 1 .. 5 /\ 5 \in 1 .. 5
        /\ 4 - 3 = 1 /\ 5 - 3 = 2
        /\ 1 <= 3 /\ 2 <= 3 /\ 3 <= 3 /\ ~(4 <= 3) /\ ~(5 <= 3)
    OBVIOUS
  <2> QED
    BY <1>1, <2>1, <2>2
<1>3. f \o g = <<i, j, k, l, o>>
  <2> DEFINE h == f \o g
  <2>1. h \in Seq(Instruction) /\ Len(h) = 5 /\ h[1] = i /\ h[2] = j /\ h[3] = k /\ h[4] = l /\ h[5] = o
    BY <1>2
  <2> HIDE DEF h
  <2>2. h = <<i, j, k, l, o>>
    BY <2>1
  <2> QED
    BY <2>2 DEF h
<1> QED
  BY <1>3, Joined DEF f, g

-----------------------------------------------------------------------------
(* The fragments that the code of the commands is built from               *)

LEMMA Texts ==
  /\ "0" \in CompText /\ "-1" \in CompText /\ "D" \in CompText /\ "A" \in CompText
  /\ "M" \in CompText /\ "!M" \in CompText /\ "-M" \in CompText /\ "-D" \in CompText
  /\ "M+1" \in CompText /\ "M-1" \in CompText /\ "D+A" \in CompText /\ "D+M" \in CompText
  /\ "D-M" \in CompText /\ "M-D" \in CompText /\ "D&M" \in CompText /\ "D|M" \in CompText
  /\ "" \in JumpText /\ "JEQ" \in JumpText /\ "JLT" \in JumpText /\ "JGT" \in JumpText
  /\ "JNE" \in JumpText /\ "JMP" \in JumpText
  BY DEF CompText, JumpText

LEMMA Instructions ==
  /\ \A v \in Word : At(v) \in Instruction
  /\ \A comp \in CompText : /\ Set({"A"}, comp) \in Instruction
                            /\ Set({"D"}, comp) \in Instruction
                            /\ Set({"M"}, comp) \in Instruction
<1>1. Word \subseteq Int
  BY WordRange
<1>2. {"A"} \in SUBSET {"A", "D", "M"} /\ {"D"} \in SUBSET {"A", "D", "M"}
      /\ {"M"} \in SUBSET {"A", "D", "M"}
  OBVIOUS
<1> QED
  BY <1>1, <1>2, InstructionTypes

LEMMA Reads ==
  ASSUME NEW m \in Ram
  PROVE  /\ \A x \in Word : Addr(x) \in Address /\ m[Addr(x)] \in Word
         /\ \A x \in Address : x \in Word /\ Addr(x) = x /\ m[x] \in Word
  BY WordOps, Registers, AddrOfAddress DEF Ram

(* A computation, in a state whose words are words.                        *)
LEMMA Computed ==
  ASSUME NEW comp \in CompText, NEW a \in Word, NEW d \in Word, NEW m \in Ram, NEW out,
         Out(comp, a, d, m[Addr(a)]) = out
  PROVE  /\ Gives(<<Set({"A"}, comp)>>, State(a, d, m), State(out, d, m))
         /\ Gives(<<Set({"D"}, comp)>>, State(a, d, m), State(a, out, m))
         /\ Gives(<<Set({"M"}, comp)>>, State(a, d, m), State(a, d, Store(m, a, out)))
  BY GivesSet DEF Store

LEMMA Loaded ==
  ASSUME NEW v \in Word, NEW a, NEW d, NEW m
  PROVE  Gives(<<At(v)>>, State(a, d, m), State(v, d, m))
  BY GivesAt, WordRange

LEMMA SetDGives ==
  ASSUME NEW n \in Word, NEW a, NEW d \in Word, NEW m \in Ram
  PROVE  Gives(SetD(n), State(a, d, m), State(n, n, m))
<1>1. Out("A", n, d, m[Addr(n)]) = n
  BY OutIs, Reads
<1>2. Gives(<<Set({"D"}, "A")>>, State(n, d, m), State(n, n, m))
  BY <1>1, Computed, Texts
<1>3. Gives(<<At(n)>>, State(a, d, m), State(n, d, m))
  BY Loaded
<1>4. At(n) \in Instruction /\ Set({"D"}, "A") \in Instruction
  BY Instructions, Texts
<1> QED
  BY <1>2, <1>3, <1>4, Two DEF SetD

LEMMA FetchGives ==
  ASSUME NEW x \in Address, NEW a, NEW d \in Word, NEW m \in Ram
  PROVE  Gives(Fetch(x), State(a, d, m), State(x, m[x], m))
<1>0. x \in Word /\ Addr(x) = x /\ m[x] \in Word
  BY Reads
<1>1. Out("M", x, d, m[Addr(x)]) = m[x]
  BY <1>0, OutIs
<1>2. Gives(<<Set({"D"}, "M")>>, State(x, d, m), State(x, m[x], m))
  BY <1>0, <1>1, Computed, Texts
<1>3. Gives(<<At(x)>>, State(a, d, m), State(x, d, m))
  BY <1>0, Loaded
<1>4. At(x) \in Instruction /\ Set({"D"}, "M") \in Instruction
  BY <1>0, Instructions, Texts
<1> QED
  BY <1>2, <1>3, <1>4, Two DEF Fetch

LEMMA DepositGives ==
  ASSUME NEW x \in Address, NEW a, NEW d \in Word, NEW m \in Ram
  PROVE  Gives(Deposit(x), State(a, d, m), State(x, d, [m EXCEPT ![x] = d]))
<1>0. x \in Word /\ Addr(x) = x /\ m[x] \in Word
  BY Reads
<1>1. Out("D", x, d, m[Addr(x)]) = d
  BY <1>0, OutIs
<1>2. Gives(<<Set({"M"}, "D")>>, State(x, d, m), State(x, d, Store(m, x, d)))
  BY <1>0, <1>1, Computed, Texts
<1>3. Gives(<<At(x)>>, State(a, d, m), State(x, d, m))
  BY <1>0, Loaded
<1>4. At(x) \in Instruction /\ Set({"M"}, "D") \in Instruction
  BY <1>0, Instructions, Texts
<1>5. Store(m, x, d) = [m EXCEPT ![x] = d]
  BY <1>0 DEF Store
<1> QED
  BY <1>2, <1>3, <1>4, <1>5, Two DEF Deposit

LEMMA FollowGives ==
  ASSUME NEW x \in Address, NEW a, NEW d \in Word, NEW m \in Ram
  PROVE  Gives(Follow(x), State(a, d, m), State(m[x], d, m))
<1>0. x \in Word /\ Addr(x) = x /\ m[x] \in Word
  BY Reads
<1>1. Out("M", x, d, m[Addr(x)]) = m[x]
  BY <1>0, OutIs
<1>2. Gives(<<Set({"A"}, "M")>>, State(x, d, m), State(m[x], d, m))
  BY <1>0, <1>1, Computed, Texts
<1>3. Gives(<<At(x)>>, State(a, d, m), State(x, d, m))
  BY <1>0, Loaded
<1>4. At(x) \in Instruction /\ Set({"A"}, "M") \in Instruction
  BY <1>0, Instructions, Texts
<1> QED
  BY <1>2, <1>3, <1>4, Two DEF Follow

LEMMA PopMGives ==
  ASSUME NEW a, NEW d \in Word, NEW m \in Ram
  PROVE  Gives(pop_with_m, State(a, d, m), State(DecSP(m)[SP], d, DecSP(m)))
<1> DEFINE p == DecSP(m)
<1>0. SP \in Address /\ SP \in Word /\ Addr(SP) = SP /\ m[SP] \in Word /\ 1 \in Word
  BY Reads, Registers, WordRange
<1>1. p \in Ram /\ p[SP] \in Word /\ p = Store(m, SP, Sub(m[SP], 1))
  <2>1. p \in Ram
    BY StackType
  <2>2. p = Store(m, SP, Sub(m[SP], 1))
    BY <1>0 DEF DecSP, Store
  <2> HIDE DEF p
  <2> QED
    BY <1>0, <2>1, <2>2, Reads
<1>2. Gives(<<At(SP)>>, State(a, d, m), State(SP, d, m))
  BY <1>0, Loaded
<1>3. Gives(<<Set({"M"}, "M-1")>>, State(SP, d, m), State(SP, d, p))
  <2>1. Out("M-1", SP, d, m[Addr(SP)]) = Sub(m[SP], 1)
    BY <1>0, OutIs
  <2> HIDE DEF p
  <2> QED
    BY <1>0, <1>1, <2>1, Computed, Texts
<1>4. Gives(<<Set({"A"}, "M")>>, State(SP, d, p), State(p[SP], d, p))
  <2> HIDE DEF p
  <2>1. Out("M", SP, d, p[Addr(SP)]) = p[SP]
    BY <1>0, <1>1, OutIs
  <2> QED
    BY <1>0, <1>1, <2>1, Computed, Texts
<1>5. At(SP) \in Instruction /\ Set({"M"}, "M-1") \in Instruction /\ Set({"A"}, "M") \in Instruction
  BY <1>0, Instructions, Texts
<1> HIDE DEF p
<1>6. Gives(<<At(SP), Set({"M"}, "M-1"), Set({"A"}, "M")>>, State(a, d, m), State(p[SP], d, p))
  BY <1>2, <1>3, <1>4, <1>5, Three
<1> QED
  BY <1>6 DEF pop_with_m, p

LEMMA PopGives ==
  ASSUME NEW a, NEW d \in Word, NEW m \in Ram
  PROVE  Gives(pop, State(a, d, m), State(DecSP(m)[SP], AtSP(DecSP(m)), DecSP(m)))
<1> DEFINE p == DecSP(m)
<1>1. p \in Ram /\ p[SP] \in Word /\ AtSP(p) \in Word /\ AtSP(p) = p[Addr(p[SP])]
  BY StackType, Reads, Registers DEF AtSP, Load
<1>2. Gives(pop_with_m, State(a, d, m), State(p[SP], d, p))
  BY PopMGives
<1> HIDE DEF p
<1>3. Out("M", p[SP], d, p[Addr(p[SP])]) = AtSP(p)
  BY <1>1, OutIs
<1>4. Gives(<<Set({"D"}, "M")>>, State(p[SP], d, p), State(p[SP], AtSP(p), p))
  BY <1>1, <1>3, Computed, Texts
<1>5. Gives(pop_with_m \o <<Set({"D"}, "M")>>, State(a, d, m), State(p[SP], AtSP(p), p))
  BY <1>2, <1>4, Joined
<1> QED
  BY <1>5 DEF pop, p

LEMMA PushGives ==
  ASSUME NEW a, NEW d \in Word, NEW m \in Ram
  PROVE  Gives(push, State(a, d, m), State(SP, d, PushD(m, d)))
<1> DEFINE w == m[SP]
           s == Store(m, w, d)
<1>0. SP \in Address /\ SP \in Word /\ Addr(SP) = SP /\ w \in Word /\ 1 \in Word
  BY Reads, Registers, WordRange
<1>1. s \in Ram /\ s[SP] \in Word
  BY <1>0, StoreType, Reads
<1>2. PushD(m, d) = Store(s, SP, Add(s[SP], 1))
  BY <1>0 DEF PushD, IncSP, Store
<1>3. Gives(<<At(SP)>>, State(a, d, m), State(SP, d, m))
  BY <1>0, Loaded
<1>4. Gives(<<Set({"A"}, "M")>>, State(SP, d, m), State(w, d, m))
  <2>1. Out("M", SP, d, m[Addr(SP)]) = w
    BY <1>0, OutIs
  <2> QED
    BY <1>0, <2>1, Computed, Texts
<1>5. Gives(<<Set({"M"}, "D")>>, State(w, d, m), State(w, d, s))
  <2>1. Out("D", w, d, m[Addr(w)]) = d
    BY <1>0, OutIs, Reads
  <2> QED
    BY <1>0, <2>1, Computed, Texts
<1>6. Gives(<<At(SP)>>, State(w, d, s), State(SP, d, s))
  BY <1>0, Loaded
<1>7. Gives(<<Set({"M"}, "M+1")>>, State(SP, d, s), State(SP, d, PushD(m, d)))
  <2> HIDE DEF s
  <2>1. Out("M+1", SP, d, s[Addr(SP)]) = Add(s[SP], 1)
    BY <1>0, <1>1, OutIs
  <2> QED
    BY <1>0, <1>1, <1>2, <2>1, Computed, Texts
<1>8. /\ At(SP) \in Instruction /\ Set({"A"}, "M") \in Instruction /\ Set({"M"}, "D") \in Instruction
      /\ Set({"M"}, "M+1") \in Instruction
  BY <1>0, Instructions, Texts
<1> HIDE DEF s, w
<1>9. Gives(<<At(SP), Set({"A"}, "M"), Set({"M"}, "D")>>, State(a, d, m), State(w, d, s))
  BY <1>3, <1>4, <1>5, <1>8, Three
<1>10. Gives(<<At(SP), Set({"M"}, "M+1")>>, State(w, d, s), State(SP, d, PushD(m, d)))
  BY <1>6, <1>7, <1>8, Two
<1> QED
  BY <1>8, <1>9, <1>10, Five DEF push

-----------------------------------------------------------------------------
(* Whole codes                                                             *)

(* Running code on the RAM m, with what is left over in A and D.             *)
Runs(reg, code, m, effect, target) ==
  LET end == RunCode(m, reg[1], reg[2], code)
  IN end.ram = effect /\ end.exit = target /\ end.pc \notin DOMAIN code

First(reg, m) == State(reg[1], reg[2], m)

Left == Word \X Word

LEMMA LeftWords == ASSUME NEW reg \in Left PROVE reg[1] \in Word /\ reg[2] \in Word
  BY DEF Left

LEMMA RunsEnd ==
  ASSUME NEW reg \in Left, NEW m, NEW code \in Seq(Instruction), NEW s, NEW p, NEW e, p \notin DOMAIN code,
         \A r : IsRun(r, Computer(First(reg, m), 1, Through), code)
                  => \E n \in 0 .. Len(code) : r[n] = Computer(s, p, e)
  PROVE  Runs(reg, code, m, s.ram, e)
<1> DEFINE end == RunCode(m, reg[1], reg[2], code)
<1>1. Len(code) \in Nat
  OBVIOUS
<1>2. Begin(m, reg[1], reg[2]) = Computer(First(reg, m), 1, Through)
  BY DEF Begin, Computer, First, State
<1>3. PICK r : IsRun(r, Begin(m, reg[1], reg[2]), code) /\ end = r[Len(code)]
  BY <1>1, RunEnds
<1>4. PICK n \in 0 .. Len(code) : r[n] = Computer(s, p, e)
  BY <1>2, <1>3
<1>5. r[n].pc \notin DOMAIN code
  BY <1>4 DEF Computer
<1>6. end = Computer(s, p, e)
  BY <1>3, <1>4, <1>5, Stays
<1> HIDE DEF end
<1>7. end.ram = s.ram /\ end.exit = e /\ end.pc = p
  BY <1>6 DEF Computer
<1> QED
  BY <1>7 DEF Runs, end

(* A run begins at its first instruction.                                  *)
LEMMA AtFirst ==
  ASSUME NEW code \in Seq(Instruction), NEW r, NEW s, IsRun(r, Computer(s, 1, Through), code)
  PROVE  Reaches(r, 1, s)
<1>1. 0 \in 0 .. Len(code) /\ 0 \in 0 .. 1 - 1
  OBVIOUS
<1>2. r[0] = Computer(s, 1, Through)
  BY <1>1 DEF IsRun
<1> QED
  BY <1>1, <1>2 DEF Reaches

(* A code without jumps ends behind its last instruction.                  *)
LEMMA Completes ==
  ASSUME NEW reg \in Left, NEW m, NEW code, NEW s, Gives(code, First(reg, m), s)
  PROVE  Runs(reg, code, m, s.ram, Through)
<1>1. code \in Seq(Instruction) /\ Len(code) \in Nat
  BY DEF Gives
<1>2. 1 + Len(code) \notin DOMAIN code
  BY <1>1
<1>3. ASSUME NEW r, IsRun(r, Computer(First(reg, m), 1, Through), code)
      PROVE  \E n \in 0 .. Len(code) : r[n] = Computer(s, 1 + Len(code), Through)
  <2>1. Reaches(r, 1, First(reg, m))
    BY <1>1, <1>3, AtFirst
  <2>2. Within(code, code, 1)
    <3>1. \A i \in 1 .. Len(code) : 1 + i - 1 = i
      OBVIOUS
    <3>2. 1 \in Nat \ {0} /\ 1 + Len(code) <= Len(code) + 1
      BY <1>1
    <3> QED
      BY <3>1, <3>2 DEF Within
  <2>3. Reaches(r, 1 + Len(code), s)
    BY <1>1, <1>3, <2>1, <2>2 DEF Gives
  <2>4. 1 + Len(code) - 1 = Len(code)
    BY <1>1
  <2> QED
    BY <2>3, <2>4 DEF Reaches
<1> QED
  BY <1>1, <1>2, <1>3, RunsEnd

(* A code whose last instruction jumps to A if at all.                     *)
LEMMA CompletesJump ==
  ASSUME NEW reg \in Left, NEW m, NEW f, NEW a, NEW d, NEW w, Gives(f, First(reg, m), State(a, d, w)),
         NEW comp \in CompText, NEW jump \in JumpText, NEW out, out = Out(comp, a, d, w[Addr(a)])
  PROVE  Runs(reg, f \o <<JumpIf(comp, jump)>>, m, w,
              IF Taken(out, parse_jump(jump)) THEN Addr(a) ELSE Through)
<1> DEFINE i == JumpIf(comp, jump)
           g == <<i>>
           code == f \o g
           p == Len(f) + 1
           s == State(a, d, w)
           taken == Taken(out, parse_jump(jump))
<1>1. f \in Seq(Instruction) /\ g \in Seq(Instruction) /\ Len(g) = 1 /\ g[1] = i
  <2>1. i \in Instruction
    BY InstructionTypes
  <2> HIDE DEF i
  <2> QED
    BY <2>1 DEF Gives
<1>2. s.a = a /\ s.d = d /\ s.ram = w /\ s.to = 0
  BY DEF State
<1> HIDE DEF g
<1>3. /\ code \in Seq(Instruction) /\ Len(code) = p /\ p \in DOMAIN code /\ p \in Nat /\ p - 1 = Len(f)
      /\ code[p] = i /\ \A n \in 1 .. Len(f) : code[n] = f[n]
  <2>1. /\ code \in Seq(Instruction) /\ Len(code) = Len(f) + Len(g) /\ Len(f) \in Nat
        /\ \A n \in 1 .. Len(f) + Len(g) : code[n] = IF n <= Len(f) THEN f[n] ELSE g[n - Len(f)]
    <3>1. Len(f) \in Nat
      BY <1>1
    <3>2. /\ code \in Seq(Instruction) /\ Len(code) = Len(f) + Len(g)
          /\ \A n \in 1 .. Len(f) + Len(g) : code[n] = IF n <= Len(f) THEN f[n] ELSE g[n - Len(f)]
      BY ONLY <1>1, ConcatProperties
    <3> QED
      BY <3>1, <3>2
  <2> HIDE DEF code
  <2>2. code[p] = g[p - Len(f)] /\ p - Len(f) = 1
    BY <1>1, <2>1
  <2>3. \A n \in 1 .. Len(f) : code[n] = f[n]
    BY <1>1, <2>1
  <2> QED
    BY <1>1, <2>1, <2>2, <2>3
<1> HIDE DEF code, i
<1>4. ASSUME NEW r, IsRun(r, Computer(First(reg, m), 1, Through), code)
      PROVE  \E n \in 0 .. Len(code) : r[n] = Cycle(Computer(s, p, Through), i)
  <2>1. Reaches(r, 1, First(reg, m))
    BY <1>3, <1>4, AtFirst
  <2>2. Within(f, code, 1)
    <3>1. \A n \in 1 .. Len(f) : 1 + n - 1 = n
      OBVIOUS
    <3>2. 1 \in Nat \ {0} /\ 1 + Len(f) <= Len(code) + 1
      BY <1>1, <1>3
    <3> QED
      BY <1>3, <3>1, <3>2 DEF Within
  <2>3. Reaches(r, 1 + Len(f), s)
    BY <1>3, <1>4, <2>1, <2>2 DEF Gives
  <2>4. 1 + Len(f) = p
    BY <1>1
  <2>5. Reaches(r, p, s)
    BY <2>3, <2>4
  <2> HIDE DEF p, s
  <2>6. PICK n \in 1 .. p : r[n] = Cycle(Computer(s, p, Through), code[p])
    BY <1>3, <1>4, <2>5, OneCycle
  <2>7. n \in 0 .. Len(code)
    BY <1>3
  <2> QED
    BY <1>3, <2>6, <2>7
<1>5. CASE taken
  <2>1. Cycle(Computer(s, p, Through), i) = Computer(s, 0, Addr(a))
    <3>1. out = Out(comp, s.a, s.d, s.ram[Addr(s.a)])
      BY <1>2
    <3> HIDE DEF s, p
    <3> QED
      BY <1>2, <1>5, <3>1, CycleJump DEF i
  <2>2. 0 \notin DOMAIN code
    BY <1>3
  <2> HIDE DEF s
  <2>3. Runs(reg, code, m, s.ram, Addr(a))
    BY <1>3, <1>4, <2>1, <2>2, RunsEnd
  <2> QED
    BY <1>2, <1>5, <2>3 DEF code, g, i
<1>6. CASE ~taken
  <2>1. Cycle(Computer(s, p, Through), i) = Computer(s, p + 1, Through)
    <3>1. out = Out(comp, s.a, s.d, s.ram[Addr(s.a)])
      BY <1>2
    <3> HIDE DEF s, p
    <3> QED
      BY <1>2, <1>6, <3>1, CycleJump DEF i
  <2>2. p + 1 \notin DOMAIN code
    BY <1>3
  <2> HIDE DEF s
  <2>3. Runs(reg, code, m, s.ram, Through)
    BY <1>3, <1>4, <2>1, <2>2, RunsEnd
  <2> QED
    BY <1>2, <1>6, <2>3 DEF code, g, i
<1> QED
  BY <1>5, <1>6

-----------------------------------------------------------------------------
(* push and pop                                                            *)

(* The code without jumps leaves the RAM in which the last fragment ends.   *)
LEMMA Ends ==
  ASSUME NEW reg \in Left, NEW m, NEW code, NEW a, NEW d, NEW w, Gives(code, First(reg, m), State(a, d, w))
  PROVE  Runs(reg, code, m, w, Through)
<1>1. State(a, d, w).ram = w
  BY DEF State
<1> QED
  BY <1>1, Completes

LEMMA SegmentGives ==
  ASSUME NEW c \in PushPop, c.seg # "constant", NEW a, NEW d \in Word, NEW m \in Ram
  PROVE  Gives(set_segment_code(c), State(a, d, m),
               State(tmp_register, SegmentAddress(m, c), set_segment(m, c)))
<1> DEFINE n == SegmentAddress(m, c)
<1>1. n \in Word
  BY SegmentType
<1>2. set_segment(m, c) = [m EXCEPT ![tmp_register] = n]
  BY AddrOfAddress, Registers DEF set_segment, Store
<1>3. c.seg \in {"local", "argument", "this", "that", "temp", "pointer", "static"}
  BY PushPopFields DEF Segment
<1>4. ASSUME NEW f, NEW b, Gives(f, State(a, d, m), State(b, n, m)),
             set_segment_code(c) = f \o Deposit(tmp_register)
      PROVE  Gives(set_segment_code(c), State(a, d, m), State(tmp_register, n, set_segment(m, c)))
  <2> HIDE DEF n
  <2>1. Gives(Deposit(tmp_register), State(b, n, m), State(tmp_register, n, set_segment(m, c)))
    BY <1>1, <1>2, DepositGives, Registers
  <2> QED
    BY <1>4, <2>1, Joined
<1>5. CASE c.seg \in {"local", "argument", "this", "that"}
  <2> DEFINE x == PointerOf(c.seg)
  <2>1. x \in Address /\ n = Add(c.idx, m[x])
    BY <1>5, Registers DEF PointerOf, SegmentAddress
  <2>2. c.idx \in Word
    <3>1. c.idx \in 0 .. MaxIndex
      BY <1>5, PushPopFields
    <3> QED
      BY <3>1, LayoutAssumption, HalfAssumption DEF Word
  <2>3. set_segment_code(c) = (SetD(c.idx) \o <<At(x), Set({"D"}, "D+M")>>) \o Deposit(tmp_register)
    BY <1>5 DEF set_segment_code
  <2> HIDE DEF x, n
  <2>4. x \in Word /\ Addr(x) = x /\ m[x] \in Word
    BY <2>1, Reads
  <2>5. Gives(SetD(c.idx), State(a, d, m), State(c.idx, c.idx, m))
    BY <2>2, SetDGives
  <2>6. Gives(<<At(x)>>, State(c.idx, c.idx, m), State(x, c.idx, m))
    BY <2>4, Loaded
  <2>7. Gives(<<Set({"D"}, "D+M")>>, State(x, c.idx, m), State(x, n, m))
    <3>1. Out("D+M", x, c.idx, m[Addr(x)]) = n
      BY <2>1, <2>2, <2>4, OutIs
    <3> QED
      BY <2>2, <2>4, <3>1, Computed, Texts
  <2>8. Gives(<<At(x), Set({"D"}, "D+M")>>, State(c.idx, c.idx, m), State(x, n, m))
    BY <2>4, <2>6, <2>7, Two, Instructions, Texts
  <2>9. Gives(SetD(c.idx) \o <<At(x), Set({"D"}, "D+M")>>, State(a, d, m), State(x, n, m))
    BY <2>5, <2>8, Joined
  <2> QED
    BY <1>4, <2>3, <2>9 DEF n
<1>6. CASE c.seg \in {"temp", "pointer", "static"}
  <2>1. set_segment_code(c) = SetD(n) \o Deposit(tmp_register)
    BY <1>6 DEF set_segment_code, SegmentAddress
  <2>2. Gives(SetD(n), State(a, d, m), State(n, n, m))
    BY <1>1, SetDGives
  <2> QED
    BY <1>4, <2>1, <2>2
<1> QED
  BY <1>3, <1>5, <1>6

(* The state in which a segment's address was computed.                    *)
LEMMA SegmentState ==
  ASSUME NEW m \in Ram, NEW c \in PushPop, c.seg # "constant"
  PROVE  /\ SegmentAddress(m, c) \in Word /\ set_segment(m, c) \in Ram
         /\ set_segment(m, c)[tmp_register] \in Word
<1>1. SegmentAddress(m, c) \in Word
  BY SegmentType
<1>2. tmp_register \in Word
  BY Registers
<1>3. set_segment(m, c) \in Ram
  BY <1>1, <1>2, StoreType DEF set_segment
<1> QED
  BY <1>1, <1>3, Reads, Registers

LEMMA PushRuns ==
  ASSUME NEW reg \in Left, NEW m \in Ram, NEW c \in PushPop
  PROVE  Runs(reg, push_code(c), m, parse_push(m, c), Through)
<1>0. reg[1] \in Word /\ reg[2] \in Word /\ 1 \in Word
  BY WordRange, LeftWords
<1>1. CASE c.seg = "constant"
  <2>1. c.idx \in Word
    <3>1. c.idx \in 0 .. MaxIndex
      BY <1>1, PushPopFields
    <3> QED
      BY <3>1, LayoutAssumption, HalfAssumption DEF Word
  <2>2. push_code(c) = SetD(c.idx) \o push /\ parse_push(m, c) = PushD(m, c.idx)
    BY <1>1 DEF push_code, parse_push
  <2>3. Gives(SetD(c.idx), First(reg, m), State(c.idx, c.idx, m))
    BY <1>0, <2>1, SetDGives DEF First
  <2>4. Gives(push, State(c.idx, c.idx, m), State(SP, c.idx, PushD(m, c.idx)))
    BY <2>1, PushGives
  <2> QED
    BY <2>2, <2>3, <2>4, Joined, Ends
<1>2. CASE c.seg # "constant"
  <2> DEFINE n == SegmentAddress(m, c)
             s == set_segment(m, c)
             t == s[tmp_register]
             v == Load(s, t)
  <2>1. n \in Word /\ s \in Ram /\ t \in Word
    BY <1>2, SegmentState
  <2>2. push_code(c) = ((set_segment_code(c) \o Follow(tmp_register)) \o <<Set({"D"}, "M")>>) \o push
        /\ parse_push(m, c) = PushD(s, v)
    BY <1>2 DEF push_code, parse_push
  <2>3. Gives(set_segment_code(c), First(reg, m), State(tmp_register, n, s))
    BY <1>0, <1>2, SegmentGives DEF First
  <2> HIDE DEF n, s
  <2>4. Gives(Follow(tmp_register), State(tmp_register, n, s), State(t, n, s))
    BY <2>1, FollowGives, Registers
  <2>5. v \in Word /\ v = s[Addr(t)]
    BY <2>1, StoreType DEF Load
  <2> HIDE DEF t, v
  <2>6. Gives(<<Set({"D"}, "M")>>, State(t, n, s), State(t, v, s))
    <3>1. Out("M", t, n, s[Addr(t)]) = v
      BY <2>1, <2>5, OutIs
    <3> QED
      BY <2>1, <3>1, Computed, Texts
  <2>7. Gives(push, State(t, v, s), State(SP, v, PushD(s, v)))
    BY <2>1, <2>5, PushGives
  <2>8. Gives(set_segment_code(c) \o Follow(tmp_register), First(reg, m), State(t, n, s))
    BY <2>3, <2>4, Joined
  <2>9. Gives((set_segment_code(c) \o Follow(tmp_register)) \o <<Set({"D"}, "M")>>, First(reg, m), State(t, v, s))
    BY <2>6, <2>8, Joined
  <2>10. Gives(push_code(c), First(reg, m), State(SP, v, PushD(s, v)))
    BY <2>2, <2>7, <2>9, Joined
  <2> QED
    BY <2>2, <2>10, Ends
<1> QED
  BY <1>1, <1>2

LEMMA PopRuns ==
  ASSUME NEW reg \in Left, NEW m \in Ram, NEW c \in PushPop, c.seg # "constant"
  PROVE  Runs(reg, pop_code(c), m, parse_pop(m, c), Through)
<1> DEFINE n == SegmentAddress(m, c)
           s == set_segment(m, c)
           p == DecSP(s)
           t == p[tmp_register]
           v == AtSP(p)
<1>0. reg[1] \in Word /\ reg[2] \in Word /\ 1 \in Word
  BY WordRange, LeftWords
<1>1. n \in Word /\ s \in Ram
  BY SegmentState
<1>2. pop_code(c) = ((set_segment_code(c) \o pop) \o Follow(tmp_register)) \o <<Set({"M"}, "D")>>
      /\ parse_pop(m, c) = Store(p, t, v)
  BY DEF pop_code, parse_pop
<1>3. Gives(set_segment_code(c), First(reg, m), State(tmp_register, n, s))
  BY <1>0, SegmentGives DEF First
<1> HIDE DEF n, s
<1>4. Gives(pop, State(tmp_register, n, s), State(p[SP], v, p))
  BY <1>1, PopGives
<1>5. p \in Ram /\ v \in Word /\ t \in Word
  BY <1>1, StackType, Reads, Registers
<1> HIDE DEF p
<1>6. Gives(Follow(tmp_register), State(p[SP], v, p), State(t, v, p))
  BY <1>5, FollowGives, Registers
<1> HIDE DEF t, v
<1>7. Gives(<<Set({"M"}, "D")>>, State(t, v, p), State(t, v, Store(p, t, v)))
  <2>1. Out("D", t, v, p[Addr(t)]) = v
    BY <1>5, OutIs, Reads
  <2> QED
    BY <1>5, <2>1, Computed, Texts
<1>8. Gives(set_segment_code(c) \o pop, First(reg, m), State(p[SP], v, p))
  BY <1>3, <1>4, Joined
<1>9. Gives((set_segment_code(c) \o pop) \o Follow(tmp_register), First(reg, m), State(t, v, p))
  BY <1>6, <1>8, Joined
<1>10. Gives(pop_code(c), First(reg, m), State(t, v, Store(p, t, v)))
  BY <1>2, <1>7, <1>9, Joined
<1> QED
  BY <1>2, <1>10, Ends

-----------------------------------------------------------------------------
(* Arithmetic                                                              *)

(* The operands of a command with two of them: the upper one in D, the      *)
(* lower one at A.                                                         *)
LEMMA OperandsGive ==
  ASSUME NEW reg \in Left, NEW m \in Ram
  PROVE  LET p == DecSP(m)
             q == DecSP(p)
         IN /\ p \in Ram /\ q \in Ram /\ AtSP(p) \in Word /\ AtSP(q) \in Word
            /\ q[SP] \in Word /\ q[Addr(q[SP])] = AtSP(q)
            /\ Gives(pop \o pop_with_m, First(reg, m), State(q[SP], AtSP(p), q))
<1> DEFINE p == DecSP(m)
           q == DecSP(p)
<1>0. reg[1] \in Word /\ reg[2] \in Word /\ 1 \in Word
  BY WordRange, LeftWords
<1>1. p \in Ram /\ AtSP(p) \in Word
  BY <1>0, StackType
<1>2. Gives(pop, First(reg, m), State(p[SP], AtSP(p), p))
  BY <1>0, PopGives DEF First
<1> HIDE DEF p
<1>3. q \in Ram /\ AtSP(q) \in Word /\ q[SP] \in Word /\ q[Addr(q[SP])] = AtSP(q)
  BY <1>1, StackType, Reads, Registers DEF AtSP, Load
<1>4. Gives(pop_with_m, State(p[SP], AtSP(p), p), State(q[SP], AtSP(p), q))
  BY <1>1, PopMGives
<1>5. Gives(pop \o pop_with_m, First(reg, m), State(q[SP], AtSP(p), q))
  BY <1>2, <1>4, Joined
<1> QED
  BY <1>1, <1>3, <1>5 DEF p

LEMMA UnaryRuns ==
  ASSUME NEW reg \in Left, NEW m \in Ram, NEW c, c.fn \in Unary
  PROVE  Runs(reg, arithmetic_code(c.fn), m, parse_arithmetic(m, c), Through)
<1> DEFINE d == reg[2]
           p == DecSP(m)
           v == IF c.fn = "neg" THEN Neg(AtSP(p)) ELSE Not(AtSP(p))
           comp == IF c.fn = "neg" THEN "-M" ELSE "!M"
<1>0. reg[1] \in Word /\ d \in Word
  BY WordRange, LeftWords
<1>1. p \in Ram /\ p[SP] \in Word /\ AtSP(p) \in Word /\ AtSP(p) = p[Addr(p[SP])]
  BY StackType, Reads, Registers DEF AtSP, Load
<1>2. parse_arithmetic(m, c) = PushD(p, v)
  BY DEF parse_arithmetic
<1>3. arithmetic_code(c.fn) = (pop_with_m \o <<Set({"D"}, comp)>>) \o push
  <2>1. CASE c.fn = "neg"
    BY <2>1 DEF arithmetic_code, Compare
  <2>2. CASE c.fn = "not"
    BY <2>2 DEF arithmetic_code, Compare
  <2> QED
    BY <2>1, <2>2 DEF Unary
<1>4. Gives(pop_with_m, First(reg, m), State(p[SP], d, p))
  BY <1>0, PopMGives DEF First
<1> HIDE DEF p, d
<1>5. v \in Word
  BY <1>1, WordOps
<1>6. Out(comp, p[SP], d, p[Addr(p[SP])]) = v /\ comp \in CompText
  <2>0. /\ Out("-M", p[SP], d, p[Addr(p[SP])]) = Neg(AtSP(p))
        /\ Out("!M", p[SP], d, p[Addr(p[SP])]) = Not(AtSP(p))
    BY <1>0, <1>1, OutIs
  <2>1. CASE c.fn = "neg"
    BY <2>0, <2>1, Texts
  <2>2. CASE c.fn # "neg"
    BY <2>0, <2>2, Texts
  <2> QED
    BY <2>1, <2>2
<1> HIDE DEF v, comp
<1>7. Gives(<<Set({"D"}, comp)>>, State(p[SP], d, p), State(p[SP], v, p))
  BY <1>0, <1>1, <1>6, Computed
<1>8. Gives(push, State(p[SP], v, p), State(SP, v, PushD(p, v)))
  BY <1>1, <1>5, PushGives
<1>9. Gives(arithmetic_code(c.fn), First(reg, m), State(SP, v, PushD(p, v)))
  BY <1>3, <1>4, <1>7, <1>8, Joined
<1> QED
  BY <1>2, <1>9, Ends

(* The commands that end with one computation, or two, and a push.         *)
LEMMA BinaryRuns ==
  ASSUME NEW reg \in Left, NEW m \in Ram, NEW c, c.fn \in {"add", "sub", "and", "or"}
  PROVE  Runs(reg, arithmetic_code(c.fn), m, parse_arithmetic(m, c), Through)
<1> DEFINE p == DecSP(m)
           q == DecSP(p)
           x == AtSP(q)
           y == AtSP(p)
           a == q[SP]
           v == Compute(c.fn, x, y)
<1>1. /\ p \in Ram /\ q \in Ram /\ x \in Word /\ y \in Word /\ a \in Word /\ q[Addr(a)] = x
      /\ Gives(pop \o pop_with_m, First(reg, m), State(a, y, q))
  BY OperandsGive
<1>2. parse_arithmetic(m, c) = PushD(q, v)
  BY DEF parse_arithmetic, Unary
<1> HIDE DEF p, q, x, y, a
<1>3. v \in Word
  BY <1>1, ComputeType DEF Binary
<1>4. Gives(push, State(a, v, q), State(SP, v, PushD(q, v)))
  BY <1>1, <1>3, PushGives
<1>5. ASSUME NEW f, Gives(f, State(a, y, q), State(a, v, q)),
             arithmetic_code(c.fn) = ((pop \o pop_with_m) \o f) \o push
      PROVE  Runs(reg, arithmetic_code(c.fn), m, parse_arithmetic(m, c), Through)
  <2> HIDE DEF v
  <2>1. Gives((pop \o pop_with_m) \o f, First(reg, m), State(a, v, q))
    BY <1>1, <1>5, Joined
  <2>2. Gives(arithmetic_code(c.fn), First(reg, m), State(SP, v, PushD(q, v)))
    BY <1>4, <1>5, <2>1, Joined
  <2> QED
    BY <1>2, <2>2, Ends
<1>6. CASE c.fn = "sub"
  <2> DEFINE d == Sub(y, x)
  <2>1. d \in Word /\ v = Neg(d)
    BY <1>1, <1>6, WordOps DEF Compute, Compare
  <2>2. arithmetic_code(c.fn) = ((pop \o pop_with_m) \o <<Set({"D"}, "D-M"), Set({"D"}, "-D")>>) \o push
    BY <1>6 DEF arithmetic_code, Compare
  <2>3. Out("D-M", a, y, q[Addr(a)]) = d
    BY <1>1, OutIs
  <2> HIDE DEF d, v
  <2>4. Out("-D", a, d, q[Addr(a)]) = v
    BY <1>1, <2>1, OutIs
  <2>5. Gives(<<Set({"D"}, "D-M")>>, State(a, y, q), State(a, d, q))
    BY <1>1, <2>3, Computed, Texts
  <2>6. Gives(<<Set({"D"}, "-D")>>, State(a, d, q), State(a, v, q))
    BY <1>1, <2>1, <2>4, Computed, Texts
  <2>7. Gives(<<Set({"D"}, "D-M"), Set({"D"}, "-D")>>, State(a, y, q), State(a, v, q))
    BY <2>5, <2>6, Two, Instructions, Texts
  <2> QED
    BY <1>5, <2>2, <2>7
<1>7. ASSUME NEW comp \in CompText, Out(comp, a, y, q[Addr(a)]) = v,
             arithmetic_code(c.fn) = ((pop \o pop_with_m) \o <<Set({"D"}, comp)>>) \o push
      PROVE  Runs(reg, arithmetic_code(c.fn), m, parse_arithmetic(m, c), Through)
  <2>1. Gives(<<Set({"D"}, comp)>>, State(a, y, q), State(a, v, q))
    <3> HIDE DEF v
    <3> QED
      BY <1>1, <1>7, Computed
  <2> QED
    BY <1>5, <1>7, <2>1
<1>8. CASE c.fn = "add"
  <2>1. Out("D+M", a, y, q[Addr(a)]) = v
    BY <1>1, <1>8, OutIs DEF Compute, Compare
  <2>2. arithmetic_code(c.fn) = ((pop \o pop_with_m) \o <<Set({"D"}, "D+M")>>) \o push
    BY <1>8 DEF arithmetic_code, Compare
  <2> QED
    BY <1>7, <2>1, <2>2, Texts
<1>9. CASE c.fn = "and"
  <2>1. Out("D&M", a, y, q[Addr(a)]) = v
    BY <1>1, <1>9, OutIs DEF Compute, Compare
  <2>2. arithmetic_code(c.fn) = ((pop \o pop_with_m) \o <<Set({"D"}, "D&M")>>) \o push
    BY <1>9 DEF arithmetic_code, Compare
  <2> QED
    BY <1>7, <2>1, <2>2, Texts
<1>10. CASE c.fn = "or"
  <2>1. Out("D|M", a, y, q[Addr(a)]) = v
    BY <1>1, <1>10, OutIs DEF Compute, Compare
  <2>2. arithmetic_code(c.fn) = ((pop \o pop_with_m) \o <<Set({"D"}, "D|M")>>) \o push
    BY <1>10 DEF arithmetic_code, Compare
  <2> QED
    BY <1>7, <2>1, <2>2, Texts
<1> QED
  BY <1>6, <1>8, <1>9, <1>10

-----------------------------------------------------------------------------
(* Jumps out of the code                                                   *)

LEMMA JumpBits ==
  /\ parse_jump("JMP") = <<1,1,1>> /\ parse_jump("JNE") = <<1,0,1>> /\ parse_jump("JEQ") = <<0,1,0>>
  /\ parse_jump("JGT") = <<0,0,1>> /\ parse_jump("JLT") = <<1,0,0>>
  BY DEF parse_jump

LEMMA Taking ==
  ASSUME NEW out \in Word
  PROVE  /\ Taken(0, parse_jump("JMP"))
         /\ Taken(out, parse_jump("JNE")) <=> out # 0
         /\ Taken(out, parse_jump("JEQ")) <=> out = 0
         /\ Taken(out, parse_jump("JGT")) <=> IsPositive(out)
         /\ Taken(out, parse_jump("JLT")) <=> IsNegative(out)
<1>1. out # 0 <=> IsNegative(out) \/ IsPositive(out)
  BY WordRange DEF IsNegative, IsPositive
<1> QED
  BY <1>1, JumpBits DEF Taken

(* A code that ends with @x and a jump.                                    *)
LEMMA LeavesFor ==
  ASSUME NEW reg \in Left, NEW m, NEW f, NEW a, NEW d, NEW w, Gives(f, First(reg, m), State(a, d, w)), NEW x \in Address,
         NEW comp \in CompText, NEW jump \in JumpText, NEW out, out = Out(comp, x, d, w[x])
  PROVE  Runs(reg, f \o <<At(x), JumpIf(comp, jump)>>, m, w,
              IF Taken(out, parse_jump(jump)) THEN x ELSE Through)
<1> DEFINE i == At(x)
           j == JumpIf(comp, jump)
<1>1. x \in Word /\ Addr(x) = x
  BY Registers, AddrOfAddress
<1>2. Gives(<<i>>, State(a, d, w), State(x, d, w))
  BY <1>1, Loaded
<1>3. i \in Instruction /\ j \in Instruction
  BY <1>1, Instructions, InstructionTypes
<1>4. Gives(f \o <<i>>, First(reg, m), State(x, d, w))
  BY <1>2, Joined
<1>5. Runs(reg, (f \o <<i>>) \o <<j>>, m, w, IF Taken(out, parse_jump(jump)) THEN x ELSE Through)
  BY <1>1, <1>4, CompletesJump
<1>6. f \o <<i, j>> = (f \o <<i>>) \o <<j>>
  <2> HIDE DEF i, j
  <2>1. f \in Seq(Instruction) /\ <<i>> \in Seq(Instruction) /\ <<j>> \in Seq(Instruction)
    BY <1>3 DEF Gives
  <2>2. <<i, j>> = <<i>> \o <<j>>
    BY <1>3, TwoIs
  <2> QED
    <3>1. f \o (<<i>> \o <<j>>) = (f \o <<i>>) \o <<j>>
      BY ONLY <2>1, ConcatAssociative
    <3> QED
      BY ONLY <2>2, <3>1
<1> QED
  BY <1>5, <1>6

LEMMA GotoRuns ==
  ASSUME NEW reg \in Left, NEW m \in Ram, NEW x \in Address
  PROVE  Runs(reg, <<At(x), JumpIf("0", "JMP")>>, m, m, x)
<1> DEFINE d == reg[2]
<1>0. reg[1] \in Word /\ d \in Word /\ x \in Word /\ m[x] \in Word /\ Addr(x) = x
  BY WordRange, LeftWords, Reads
<1>1. Out("0", x, d, m[Addr(x)]) = 0 /\ Taken(0, parse_jump("JMP"))
  BY <1>0, OutIs, Taking, WordRange
<1>2. Gives(<<At(x)>>, First(reg, m), State(x, d, m))
  BY <1>0, Loaded DEF First
<1> HIDE DEF d
<1>3. Runs(reg, <<At(x)>> \o <<JumpIf("0", "JMP")>>, m, m, x)
  BY <1>0, <1>1, <1>2, CompletesJump, Texts
<1>4. <<At(x), JumpIf("0", "JMP")>> = <<At(x)>> \o <<JumpIf("0", "JMP")>>
  <2>1. At(x) \in Instruction /\ JumpIf("0", "JMP") \in Instruction
    BY <1>0, Instructions, InstructionTypes, Texts
  <2> QED
    BY <2>1, TwoIs
<1> QED
  BY <1>3, <1>4

LEMMA IfRuns ==
  ASSUME NEW reg \in Left, NEW m \in Ram, NEW x \in Address
  PROVE  Runs(reg, pop \o <<At(x), JumpIf("D", "JNE")>>, m, parse_if(m),
              IF IfValue(m) # 0 THEN x ELSE Through)
<1> DEFINE p == DecSP(m)
           v == AtSP(p)
<1>0. reg[1] \in Word /\ reg[2] \in Word /\ 1 \in Word /\ x \in Word /\ Addr(x) = x
  BY WordRange, LeftWords, Reads
<1>1. p \in Ram /\ v \in Word
  BY <1>0, StackType
<1>2. Gives(pop, First(reg, m), State(p[SP], v, p))
  BY <1>0, PopGives DEF First
<1>3. parse_if(m) = p /\ IfValue(m) = v
  BY DEF parse_if, IfValue
<1> HIDE DEF p, v
<1>4. Out("D", x, v, p[x]) = v
  BY <1>0, <1>1, OutIs, Reads
<1>5. Taken(v, parse_jump("JNE")) <=> v # 0
  BY <1>1, Taking
<1> QED
  BY <1>2, <1>3, <1>4, <1>5, LeavesFor, Texts

LEMMA LabelRuns == ASSUME NEW reg \in Left, NEW m PROVE Runs(reg, <<>>, m, m, Through)
<1> DEFINE code == <<>>
           s == First(reg, m)
<1>1. code \in Seq(Instruction) /\ Len(code) = 0
  OBVIOUS
<1> HIDE DEF code, s
<1>2. ASSUME NEW r, NEW begin, NEW c, NEW p, IsRun(r, begin, c), c \in Seq(Instruction),
             Within(code, c, p), Reaches(r, p, s)
      PROVE  Reaches(r, p + Len(code), s)
  <2>1. p + Len(code) = p
    BY <1>1, <1>2 DEF Within
  <2> QED
    BY <1>2, <2>1
<1>3. Gives(code, s, s)
  BY <1>1, <1>2 DEF Gives
<1> QED
  BY <1>3, Ends DEF First, s, code

-----------------------------------------------------------------------------
(* Comparisons: two ways through the code, which meet at END.              *)

(* A label stands for the address 0 until it is replaced.                  *)
LEMMA AtZero ==
  ASSUME NEW d \in Word, NEW m \in Ram
  PROVE  Out("D", 0, d, m[Addr(0)]) = d /\ Out("0", 0, d, m[Addr(0)]) = 0
<1> DEFINE z == 0
<1>1. z \in Word
  BY WordRange
<1> HIDE DEF z
<1>2. m[Addr(z)] \in Word
  BY <1>1, Reads
<1>3. Out("D", z, d, m[Addr(z)]) = d /\ Out("0", z, d, m[Addr(z)]) = 0
  BY <1>1, <1>2, OutIs
<1> QED
  BY <1>3 DEF z

(* What an instruction behind a label's address, or a jump to one, does.    *)
LEMMA CycleTarget ==
  ASSUME NEW k, NEW d, NEW m, NEW v, NEW p, NEW e
  PROVE  Cycle(Computer(AtTarget(k, d, m), p, e), At(v)) = Computer(State(v, d, m), p + 1, e)
  BY DEF Cycle, Computer, State, AtTarget, At

LEMMA JumpTo ==
  ASSUME NEW k \in Nat \ {0}, NEW d, NEW m, NEW comp, NEW jump, NEW p, NEW e, NEW out,
         out = Out(comp, 0, d, m[Addr(0)])
  PROVE  /\ Taken(out, parse_jump(jump))
              => Cycle(Computer(AtTarget(k, d, m), p, e), JumpIf(comp, jump)) = Computer(AtTarget(k, d, m), k, e)
         /\ ~Taken(out, parse_jump(jump))
              => Cycle(Computer(AtTarget(k, d, m), p, e), JumpIf(comp, jump)) = Computer(AtTarget(k, d, m), p + 1, e)
<1> DEFINE s == AtTarget(k, d, m)
<1>1. s.a = 0 /\ s.to = k /\ s.d = d /\ s.ram = m /\ k # 0
  BY DEF AtTarget
<1> HIDE DEF s
<1>2. out = Out(comp, s.a, s.d, s.ram[Addr(s.a)])
  BY <1>1
<1>3. /\ Taken(out, parse_jump(jump)) => Cycle(Computer(s, p, e), JumpIf(comp, jump)) = Computer(s, k, e)
      /\ ~Taken(out, parse_jump(jump)) => Cycle(Computer(s, p, e), JumpIf(comp, jump)) = Computer(s, p + 1, e)
  BY ONLY <1>1, <1>2, CycleJump
<1> QED
  BY <1>3 DEF s

LEMMA CompareJumps ==
  ASSUME NEW fn \in Compare, NEW d \in Word
  PROVE  /\ CompareJump(fn) \in JumpText
         /\ parse_compare(fn, d) = IF Taken(d, parse_jump(CompareJump(fn))) THEN 2 * Half - 1 ELSE 0
<1>1. CASE fn = "eq"
  BY <1>1, Taking, Texts DEF CompareJump, parse_compare
<1>2. CASE fn = "lt"
  BY <1>2, Taking, Texts DEF CompareJump, parse_compare
<1>3. CASE fn = "gt"
  BY <1>3, Taking, Texts DEF CompareJump, parse_compare
<1> QED
  BY <1>1, <1>2, <1>3 DEF Compare

(* The instructions of the comparison, at their places.                    *)
CompareAt(code, fn) ==
  /\ code[8] = Set({"D"}, "D-M") /\ code[9] = AtLabel(16) /\ code[10] = JumpIf("D", CompareJump(fn))
  /\ code[11] = At(SP) /\ code[12] = Set({"A"}, "M") /\ code[13] = Set({"M"}, "0")
  /\ code[14] = AtLabel(19) /\ code[15] = JumpIf("0", "JMP")
  /\ code[16] = At(SP) /\ code[17] = Set({"A"}, "M") /\ code[18] = Set({"M"}, "-1")
  /\ code[19] = At(SP) /\ code[20] = Set({"M"}, "M+1")

LEMMA CompareLaid ==
  ASSUME NEW f \in Seq(Instruction), Len(f) = 7, NEW fn \in Compare
  PROVE  LET code == f \o compare_code(fn)
         IN /\ code \in Seq(Instruction) /\ Len(code) = 20 /\ CompareAt(code, fn)
            /\ \A i \in 1 .. 7 : code[i] = f[i]
<1> DEFINE g == compare_code(fn)
           code == f \o g
           jump == CompareJump(fn)
<1>1. /\ Set({"D"}, "D-M") \in Instruction /\ AtLabel(16) \in Instruction
      /\ At(SP) \in Instruction /\ Set({"A"}, "M") \in Instruction /\ Set({"M"}, "0") \in Instruction
      /\ AtLabel(19) \in Instruction /\ Set({"M"}, "-1") \in Instruction /\ Set({"M"}, "M+1") \in Instruction
  BY Instructions, InstructionTypes, Texts, Registers
<1>2. JumpIf("D", jump) \in Instruction /\ JumpIf("0", "JMP") \in Instruction
  BY CompareJumps, WordRange, InstructionTypes, Texts
<1> HIDE DEF jump
<1>3. g = <<Set({"D"}, "D-M"), AtLabel(16), JumpIf("D", jump),
            At(SP), Set({"A"}, "M"), Set({"M"}, "0"), AtLabel(19), JumpIf("0", "JMP"),
            At(SP), Set({"A"}, "M"), Set({"M"}, "-1"), At(SP), Set({"M"}, "M+1")>>
  BY DEF compare_code, jump
<1> HIDE DEF g
<1>4. g \in Seq(Instruction) /\ Len(g) = 13
  BY <1>1, <1>2, <1>3
<1>5. /\ g[1] = Set({"D"}, "D-M") /\ g[2] = AtLabel(16) /\ g[3] = JumpIf("D", jump)
      /\ g[4] = At(SP) /\ g[5] = Set({"A"}, "M") /\ g[6] = Set({"M"}, "0")
      /\ g[7] = AtLabel(19) /\ g[8] = JumpIf("0", "JMP")
      /\ g[9] = At(SP) /\ g[10] = Set({"A"}, "M") /\ g[11] = Set({"M"}, "-1")
      /\ g[12] = At(SP) /\ g[13] = Set({"M"}, "M+1")
  BY <1>3
<1>6. /\ code \in Seq(Instruction) /\ Len(code) = Len(f) + Len(g)
      /\ \A i \in 1 .. Len(f) + Len(g) : code[i] = IF i <= Len(f) THEN f[i] ELSE g[i - Len(f)]
  BY ONLY f \in Seq(Instruction), <1>4, ConcatProperties
<1> HIDE DEF code
<1>7. Len(code) = 20 /\ \A i \in 1 .. 20 : code[i] = IF i <= 7 THEN f[i] ELSE g[i - 7]
  BY <1>4, <1>6
<1>8. \A i \in 1 .. 7 : code[i] = f[i]
  <2>1. \A i \in 1 .. 7 : i \in 1 .. 20 /\ i <= 7
    OBVIOUS
  <2> QED
    BY ONLY <1>7, <2>1
<1>9. \A i \in 1 .. 13 : code[i + 7] = g[i]
  <2>1. ASSUME NEW i \in 1 .. 13 PROVE code[i + 7] = g[i]
    <3> DEFINE n == i + 7
    <3>1. n \in 1 .. 20 /\ ~(n <= 7) /\ n - 7 = i
      OBVIOUS
    <3> HIDE DEF n
    <3>2. code[n] = g[i]
      BY <1>7, <3>1
    <3> QED
      BY <3>2 DEF n
  <2> QED
    BY <2>1
<1>10. /\ code[8] = g[1] /\ code[9] = g[2] /\ code[10] = g[3] /\ code[11] = g[4] /\ code[12] = g[5]
       /\ code[13] = g[6] /\ code[14] = g[7] /\ code[15] = g[8] /\ code[16] = g[9] /\ code[17] = g[10]
       /\ code[18] = g[11] /\ code[19] = g[12] /\ code[20] = g[13]
  <2>1. /\ 1 + 7 = 8 /\ 2 + 7 = 9 /\ 3 + 7 = 10 /\ 4 + 7 = 11 /\ 5 + 7 = 12 /\ 6 + 7 = 13 /\ 7 + 7 = 14
        /\ 8 + 7 = 15 /\ 9 + 7 = 16 /\ 10 + 7 = 17 /\ 11 + 7 = 18 /\ 12 + 7 = 19 /\ 13 + 7 = 20
    OBVIOUS
  <2> QED
    BY <1>9, <2>1
<1>11. CompareAt(code, fn)
  BY <1>5, <1>10 DEF CompareAt, jump
<1> QED
  BY <1>6, <1>7, <1>8, <1>11 DEF code, g

(* The lengths of the fragments that pop the operands.                     *)
LEMMA SevenInstructions == Len(pop \o pop_with_m) = 7 /\ pop \o pop_with_m \in Seq(Instruction)
<1>1. /\ At(SP) \in Instruction /\ Set({"M"}, "M-1") \in Instruction /\ Set({"A"}, "M") \in Instruction
      /\ Set({"D"}, "M") \in Instruction
  BY Instructions, Texts, Registers
<1> DEFINE f == pop_with_m
           g == <<Set({"D"}, "M")>>
<1>2. f \in Seq(Instruction) /\ Len(f) = 3 /\ g \in Seq(Instruction) /\ Len(g) = 1
  BY <1>1 DEF pop_with_m
<1>3. pop = f \o g
  BY DEF pop
<1> HIDE DEF f, g
<1>4. pop \in Seq(Instruction) /\ Len(pop) = 4
  <2>1. f \o g \in Seq(Instruction) /\ Len(f \o g) = Len(f) + Len(g)
    BY ONLY <1>2, ConcatProperties
  <2> QED
    BY ONLY <1>2, <1>3, <2>1
<1>5. pop \o f \in Seq(Instruction) /\ Len(pop \o f) = Len(pop) + Len(f)
  BY ONLY <1>2, <1>4, ConcatProperties
<1>6. 4 + 3 = 7
  OBVIOUS
<1> QED
  BY <1>2, <1>4, <1>5, <1>6 DEF f

(* The way of a comparison through its code.                               *)
LEMMA ComparePath ==
  ASSUME NEW fn \in Compare, NEW code \in Seq(Instruction), Len(code) = 20, CompareAt(code, fn),
         NEW r, NEW begin, IsRun(r, begin, code),
         NEW a \in Word, NEW y \in Word, NEW q \in Ram, NEW d, d = Sub(y, q[Addr(a)]),
         Reaches(r, 8, State(a, y, q))
  PROVE  Reaches(r, 21, State(SP, d, PushD(q, parse_compare(fn, d))))
<1> DEFINE v == parse_compare(fn, d)
           b == q[SP]
           t == Store(q, b, v)
           taken == Taken(d, parse_jump(CompareJump(fn)))
<1>0. /\ q[Addr(a)] \in Word /\ b \in Word /\ q[Addr(b)] \in Word /\ SP \in Word /\ Addr(SP) = SP
      /\ 0 \in Word /\ 1 \in Word /\ q[SP] \in Word
  BY Reads, Registers, WordRange
<1>1. d \in Word /\ v \in Word /\ v = (IF taken THEN 2 * Half - 1 ELSE 0)
  <2>1. d \in Word
    BY <1>0, WordOps
  <2> QED
    BY <2>1, CompareJumps, WordRange
<1>2. t \in Ram /\ t[SP] \in Word /\ PushD(q, v) = Store(t, SP, Add(t[SP], 1))
      /\ t = [q EXCEPT ![Addr(b)] = v]
  <2>1. t \in Ram /\ t = [q EXCEPT ![Addr(b)] = v]
    BY <1>0, <1>1, StoreType DEF Store
  <2>2. PushD(q, v) = Store(t, SP, Add(t[SP], 1))
    BY <1>0 DEF PushD, IncSP, Store
  <2> HIDE DEF t
  <2> QED
    BY <2>1, <2>2, Reads, Registers
<1>a. d \in Word
  BY <1>1
<1> HIDE DEF v, b, t, taken
<1>3. ASSUME NEW p \in 1 .. 20, NEW s, Reaches(r, p, s), NEW i, code[p] = i, NEW n \in Nat, p < n, NEW u,
             Cycle(Computer(s, p, Through), i) = Computer(u, n, Through)
      PROVE  Reaches(r, n, u)
  <2>1. p \in DOMAIN code
    OBVIOUS
  <2> QED
    BY <1>3, <2>1, StepTo
<1>4. Reaches(r, 9, State(a, d, q))
  <2>1. Out("D-M", a, y, q[Addr(a)]) = d
    BY <1>0, OutIs
  <2>2. Cycle(Computer(State(a, y, q), 8, Through), Set({"D"}, "D-M")) = Computer(State(a, d, q), 8 + 1, Through)
    BY ONLY <2>1, CycleToD
  <2>3. 8 + 1 = 9
    OBVIOUS
  <2> QED
    BY <1>3, <2>2, <2>3 DEF CompareAt
<1>5. Reaches(r, 10, AtTarget(16, d, q))
  <2>1. Cycle(Computer(State(a, d, q), 9, Through), AtLabel(16)) = Computer(AtTarget(16, d, q), 9 + 1, Through)
    BY ONLY CycleAt
  <2>2. 9 + 1 = 10
    OBVIOUS
  <2> QED
    BY <1>3, <1>4, <2>1, <2>2 DEF CompareAt
<1>6. Out("D", 0, d, q[Addr(0)]) = d
  BY <1>1, AtZero
<1>7. ASSUME NEW s, Reaches(r, 19, s),
             Cycle(Computer(s, 19, Through), At(SP)) = Computer(State(SP, d, t), 19 + 1, Through)
      PROVE  Reaches(r, 21, State(SP, d, PushD(q, v)))
  <2>1. 19 + 1 = 20 /\ 20 + 1 = 21
    OBVIOUS
  <2>2. Reaches(r, 20, State(SP, d, t))
    BY <1>3, <1>7, <2>1 DEF CompareAt
  <2> DEFINE w == Add(t[SP], 1)
             u == [t EXCEPT ![Addr(SP)] = w]
  <2>3. Out("M+1", SP, d, t[Addr(SP)]) = w
    BY <1>0, <1>1, <1>2, OutIs
  <2>5. u = PushD(q, v)
    BY <1>2 DEF Store
  <2> HIDE DEF w
  <2>4. Cycle(Computer(State(SP, d, t), 20, Through), Set({"M"}, "M+1"))
          = Computer(State(SP, d, u), 20 + 1, Through)
    <3> DEFINE k == SP
               p == 20
    <3>1. Out("M+1", k, d, t[Addr(k)]) = w
      BY <2>3
    <3> HIDE DEF k, p
    <3>2. Cycle(Computer(State(k, d, t), p, Through), Set({"M"}, "M+1"))
            = Computer(State(k, d, [t EXCEPT ![Addr(k)] = w]), p + 1, Through)
      BY ONLY <3>1, CycleToM
    <3> QED
      BY <3>2 DEF k, p
  <2> HIDE DEF u
  <2> QED
    BY <1>3, <2>1, <2>2, <2>4, <2>5 DEF CompareAt
<1>8. ASSUME NEW p \in {11, 16}, NEW s, Reaches(r, p, s), NEW comp \in CompText,
             Cycle(Computer(s, p, Through), At(SP)) = Computer(State(SP, d, q), p + 1, Through),
             code[p] = At(SP), code[p + 1] = Set({"A"}, "M"), code[p + 2] = Set({"M"}, comp),
             Out(comp, b, d, q[Addr(b)]) = v
      PROVE  Reaches(r, p + 3, State(b, d, t))
  <2>1. /\ p \in 1 .. 20 /\ p + 1 \in 1 .. 20 /\ p + 2 \in 1 .. 20 /\ p + 3 \in 1 .. 20
        /\ p + 1 \in Nat /\ p + 2 \in Nat /\ p + 3 \in Nat
        /\ p < p + 1 /\ p + 1 < p + 2 /\ p + 2 < p + 3 /\ (p + 1) + 1 = p + 2 /\ (p + 2) + 1 = p + 3
    OBVIOUS
  <2>2. Reaches(r, p + 1, State(SP, d, q))
    BY <1>3, <1>8, <2>1
  <2>3. Cycle(Computer(State(SP, d, q), p + 1, Through), Set({"A"}, "M"))
          = Computer(State(b, d, q), (p + 1) + 1, Through)
    <3>1. Out("M", SP, d, q[Addr(SP)]) = q[SP]
      BY ONLY <1>0, <1>a, OutIs
    <3>2. Out("M", SP, d, q[Addr(SP)]) = b
      BY <3>1 DEF b
    <3> QED
      BY ONLY <3>2, CycleToA
  <2>4. Reaches(r, p + 2, State(b, d, q))
    BY <1>3, <1>8, <2>1, <2>2, <2>3
  <2>5. Cycle(Computer(State(b, d, q), p + 2, Through), Set({"M"}, comp))
          = Computer(State(b, d, [q EXCEPT ![Addr(b)] = v]), (p + 2) + 1, Through)
    BY ONLY <1>8, CycleToM
  <2> QED
    BY <1>2, <1>3, <1>8, <2>1, <2>4, <2>5
<1>9. CASE taken
  <2>1. Cycle(Computer(AtTarget(16, d, q), 10, Through), JumpIf("D", CompareJump(fn)))
          = Computer(AtTarget(16, d, q), 16, Through)
    <3>1. 16 \in Nat \ {0}
      OBVIOUS
    <3> QED
      BY <1>6, <1>9, <3>1, JumpTo DEF taken
  <2>2. Reaches(r, 16, AtTarget(16, d, q))
    BY <1>3, <1>5, <2>1 DEF CompareAt
  <2>3. Out("-1", b, d, q[Addr(b)]) = v
    <3>1. Out("-1", b, d, q[Addr(b)]) = 2 * Half - 1
      BY ONLY <1>0, <1>a, OutIs
    <3> QED
      BY <1>1, <1>9, <3>1
  <2>4. Cycle(Computer(AtTarget(16, d, q), 16, Through), At(SP)) = Computer(State(SP, d, q), 16 + 1, Through)
    BY ONLY CycleTarget
  <2>5. 16 + 1 = 17 /\ 16 + 2 = 18 /\ 16 + 3 = 19
    OBVIOUS
  <2>6. Reaches(r, 19, State(b, d, t))
    BY <1>8, <2>2, <2>3, <2>4, <2>5, Texts DEF CompareAt
  <2>7. Cycle(Computer(State(b, d, t), 19, Through), At(SP)) = Computer(State(SP, d, t), 19 + 1, Through)
    BY ONLY CycleAt
  <2> QED
    BY <1>7, <2>6, <2>7 DEF v
<1>10. CASE ~taken
  <2>1. Cycle(Computer(AtTarget(16, d, q), 10, Through), JumpIf("D", CompareJump(fn)))
          = Computer(AtTarget(16, d, q), 10 + 1, Through)
    <3>1. 16 \in Nat \ {0}
      OBVIOUS
    <3> QED
      BY <1>6, <1>10, <3>1, JumpTo DEF taken
  <2>2. Reaches(r, 11, AtTarget(16, d, q))
    <3>1. 10 + 1 = 11
      OBVIOUS
    <3> QED
      BY <1>3, <1>5, <2>1, <3>1 DEF CompareAt
  <2>3. Out("0", b, d, q[Addr(b)]) = v
    <3>1. Out("0", b, d, q[Addr(b)]) = 0
      BY ONLY <1>0, <1>a, OutIs
    <3> QED
      BY <1>1, <1>10, <3>1
  <2>4. Cycle(Computer(AtTarget(16, d, q), 11, Through), At(SP)) = Computer(State(SP, d, q), 11 + 1, Through)
    BY ONLY CycleTarget
  <2>5. 11 + 1 = 12 /\ 11 + 2 = 13 /\ 11 + 3 = 14
    OBVIOUS
  <2>6. Reaches(r, 14, State(b, d, t))
    BY <1>8, <2>2, <2>3, <2>4, <2>5, Texts DEF CompareAt
  <2>7. Reaches(r, 15, AtTarget(19, d, t))
    <3>1. Cycle(Computer(State(b, d, t), 14, Through), AtLabel(19)) = Computer(AtTarget(19, d, t), 14 + 1, Through)
      BY ONLY CycleAt
    <3>2. 14 + 1 = 15
      OBVIOUS
    <3> QED
      BY <1>3, <2>6, <3>1, <3>2 DEF CompareAt
  <2>8. Reaches(r, 19, AtTarget(19, d, t))
    <3>2. Out("0", 0, d, t[Addr(0)]) = 0 /\ Taken(0, parse_jump("JMP"))
      BY <1>0, <1>1, <1>2, AtZero, Taking
    <3>3. 19 \in Nat \ {0}
      OBVIOUS
    <3>4. Cycle(Computer(AtTarget(19, d, t), 15, Through), JumpIf("0", "JMP"))
            = Computer(AtTarget(19, d, t), 19, Through)
      BY <3>2, <3>3, JumpTo
    <3> QED
      BY <1>3, <2>7, <3>4 DEF CompareAt
  <2>9. Cycle(Computer(AtTarget(19, d, t), 19, Through), At(SP)) = Computer(State(SP, d, t), 19 + 1, Through)
    BY ONLY CycleTarget
  <2> QED
    BY <1>7, <2>8, <2>9 DEF v
<1> QED
  BY <1>9, <1>10

LEMMA CompareRuns ==
  ASSUME NEW reg \in Left, NEW m \in Ram, NEW c, c.fn \in Compare
  PROVE  Runs(reg, arithmetic_code(c.fn), m, parse_arithmetic(m, c), Through)
<1> DEFINE p == DecSP(m)
           q == DecSP(p)
           x == AtSP(q)
           y == AtSP(p)
           a == q[SP]
           d == Sub(y, x)
           f == pop \o pop_with_m
           code == f \o compare_code(c.fn)
           w == PushD(q, parse_compare(c.fn, d))
<1>1. /\ p \in Ram /\ q \in Ram /\ x \in Word /\ y \in Word /\ a \in Word /\ q[Addr(a)] = x
      /\ Gives(f, First(reg, m), State(a, y, q))
  BY OperandsGive
<1>2. parse_arithmetic(m, c) = w
  BY DEF parse_arithmetic, Unary, Compare, Compute
<1>3. arithmetic_code(c.fn) = code
  BY DEF arithmetic_code, Compare
<1>4. f \in Seq(Instruction) /\ Len(f) = 7
  BY SevenInstructions
<1> HIDE DEF p, x, y, a, f
<1>5. /\ code \in Seq(Instruction) /\ Len(code) = 20 /\ CompareAt(code, c.fn)
      /\ \A i \in 1 .. 7 : code[i] = f[i]
  BY <1>4, CompareLaid
<1> HIDE DEF code, w, q
<1>6. ASSUME NEW r, IsRun(r, Computer(First(reg, m), 1, Through), code)
      PROVE  \E n \in 0 .. Len(code) : r[n] = Computer(State(SP, d, w), 21, Through)
  <2>1. Reaches(r, 1, First(reg, m))
    BY <1>5, <1>6, AtFirst
  <2>2. Within(f, code, 1)
    <3>1. \A i \in 1 .. 7 : 1 + i - 1 = i
      OBVIOUS
    <3>2. 1 \in Nat \ {0} /\ 1 + 7 <= 20 + 1
      OBVIOUS
    <3> QED
      BY <1>4, <1>5, <3>1, <3>2 DEF Within
  <2>3. Reaches(r, 1 + 7, State(a, y, q))
    BY <1>1, <1>4, <1>5, <1>6, <2>1, <2>2 DEF Gives
  <2>4. 1 + 7 = 8 /\ 21 - 1 = 20
    OBVIOUS
  <2>5. d = Sub(y, q[Addr(a)])
    BY <1>1
  <2> HIDE DEF d
  <2>6. Reaches(r, 8, State(a, y, q))
    BY <2>3, <2>4
  <2>7. Reaches(r, 21, State(SP, d, w))
    BY <1>1, <1>5, <1>6, <2>5, <2>6, ComparePath DEF w
  <2> QED
    BY <1>5, <2>4, <2>7 DEF Reaches
<1>7. 21 \notin DOMAIN code
  BY <1>5
<1>8. State(SP, d, w).ram = w
  BY DEF State
<1> HIDE DEF d
<1>9. Runs(reg, code, m, w, Through)
  <2> DEFINE s == State(SP, d, w)
  <2>1. \A r : IsRun(r, Computer(First(reg, m), 1, Through), code)
                 => \E n \in 0 .. Len(code) : r[n] = Computer(s, 21, Through)
    BY <1>6
  <2>2. s.ram = w
    BY <1>8
  <2> HIDE DEF s
  <2>3. Runs(reg, code, m, s.ram, Through)
    BY ONLY reg \in Left, <1>5, <1>7, <2>1, RunsEnd
  <2> QED
    BY ONLY <2>2, <2>3
<1> QED
  BY <1>2, <1>3, <1>9

-----------------------------------------------------------------------------
(* call and the bootstrap                                                  *)

(* A register saved on the stack.                                          *)
LEMMA SaveGives ==
  ASSUME NEW f, NEW s, NEW x \in Address, NEW a, NEW d \in Word, NEW m \in Ram, Gives(f, s, State(a, d, m))
  PROVE  LET w == PushD(m, m[x])
         IN w \in Ram /\ m[x] \in Word /\ Gives((f \o Fetch(x)) \o push, s, State(SP, m[x], w))
<1> DEFINE v == m[x]
           w == PushD(m, v)
<1>1. v \in Word
  BY Reads
<1>2. Gives(Fetch(x), State(a, d, m), State(x, v, m))
  BY FetchGives
<1> HIDE DEF v
<1>3. Gives(f \o Fetch(x), s, State(x, v, m))
  BY <1>2, Joined
<1>4. Gives(push, State(x, v, m), State(SP, v, w))
  BY <1>1, PushGives
<1>5. w \in Ram
  BY <1>1, StackType
<1> HIDE DEF w
<1>6. Gives((f \o Fetch(x)) \o push, s, State(SP, v, w))
  BY <1>3, <1>4, Joined
<1> QED
  BY <1>1, <1>5, <1>6 DEF v, w

(* The code of a call up to its jump, in three parts.                      *)
CallSaves(ret) ==
  SetD(ret) \o push
    \o Fetch(LCL) \o push \o Fetch(ARG) \o push \o Fetch(THIS) \o push \o Fetch(THAT) \o push
CallArg == <<At(5), Set({"D"}, "D+A"), At(SP), Set({"D"}, "D-M"), Set({"D"}, "-D")>>
CallBody(ret, n) ==
  ((((CallSaves(ret) \o SetD(n)) \o CallArg) \o Deposit(ARG)) \o Fetch(SP)) \o Deposit(LCL)

LEMMA CallSavesGives ==
  ASSUME NEW m \in Ram, NEW ret \in Word, NEW a, NEW d \in Word
  PROVE  LET m1 == PushD(m, ret)
             m2 == PushD(m1, m1[LCL])
             m3 == PushD(m2, m2[ARG])
             m4 == PushD(m3, m3[THIS])
             m5 == PushD(m4, m4[THAT])
         IN m5 \in Ram /\ \E v \in Word : Gives(CallSaves(ret), State(a, d, m), State(SP, v, m5))
<1> DEFINE m1 == PushD(m, ret)
           m2 == PushD(m1, m1[LCL])
           m3 == PushD(m2, m2[ARG])
           m4 == PushD(m3, m3[THIS])
           m5 == PushD(m4, m4[THAT])
           f1 == SetD(ret) \o push
           f2 == (f1 \o Fetch(LCL)) \o push
           f3 == (f2 \o Fetch(ARG)) \o push
           f4 == (f3 \o Fetch(THIS)) \o push
           f5 == (f4 \o Fetch(THAT)) \o push
           s == State(a, d, m)
<1>1. m1 \in Ram /\ Gives(f1, s, State(SP, ret, m1))
  <2>1. Gives(SetD(ret), State(a, d, m), State(ret, ret, m))
    BY SetDGives
  <2>2. Gives(push, State(ret, ret, m), State(SP, ret, PushD(m, ret)))
    BY PushGives
  <2>3. PushD(m, ret) \in Ram
    BY StackType
  <2> QED
    BY <2>1, <2>2, <2>3, Joined
<1> HIDE DEF s, f1, m1
<1>2. m2 \in Ram /\ m1[LCL] \in Word /\ Gives(f2, s, State(SP, m1[LCL], m2))
  BY <1>1, SaveGives, Registers
<1> HIDE DEF f2, m2
<1>3. m3 \in Ram /\ m2[ARG] \in Word /\ Gives(f3, s, State(SP, m2[ARG], m3))
  BY <1>2, SaveGives, Registers
<1> HIDE DEF f3, m3
<1>4. m4 \in Ram /\ m3[THIS] \in Word /\ Gives(f4, s, State(SP, m3[THIS], m4))
  BY <1>3, SaveGives, Registers
<1> HIDE DEF f4, m4
<1>5. m5 \in Ram /\ m4[THAT] \in Word /\ Gives(f5, s, State(SP, m4[THAT], m5))
  BY <1>4, SaveGives, Registers
<1>6. f5 = CallSaves(ret)
  BY DEF CallSaves, f1, f2, f3, f4
<1> HIDE DEF f5, m5
<1>7. \E v \in Word : Gives(CallSaves(ret), s, State(SP, v, m5))
  BY <1>5, <1>6
<1> QED
  BY <1>5, <1>7 DEF s, m1, m2, m3, m4, m5

(* ARG = -((n + 5) - SP).                                                  *)
LEMMA CallArgGives ==
  ASSUME NEW m \in Ram, NEW n \in 0 .. MaxArgs, NEW a
  PROVE  LET w == Neg(Sub(n + 5, m[SP]))
         IN n \in Word /\ w \in Word /\ Gives(CallArg, State(a, n, m), State(SP, w, m))
<1> DEFINE k == n + 5
           u == Sub(k, m[SP])
           w == Neg(u)
           five == 5
<1>1. n \in Word /\ k \in Word /\ five \in Word
  BY HalfAssumption, LayoutAssumption DEF Word
<1>2. Add(n, five) = k
  BY <1>1, WrapWord DEF Add
<1>3. SP \in Word /\ Addr(SP) = SP /\ m[SP] \in Word
  BY Registers, Reads
<1>4. u \in Word
  BY <1>1, <1>3, WordOps
<1>5. w \in Word
  BY <1>4, WordOps
<1> HIDE DEF k, five
<1>6. Out("D-M", SP, k, m[Addr(SP)]) = u
  <2>1. SP \in Word /\ k \in Word /\ m[Addr(SP)] \in Word /\ m[Addr(SP)] = m[SP]
    BY <1>1, <1>3
  <2>2. Out("D-M", SP, k, m[Addr(SP)]) = Sub(k, m[Addr(SP)])
    BY ONLY <2>1, OutIs
  <2> QED
    BY <2>1, <2>2
<1> HIDE DEF u
<1>7. Out("-D", SP, u, m[Addr(SP)]) = w
  BY <1>3, <1>4, OutIs
<1> HIDE DEF w
<1>8. Out("D+A", five, n, m[Addr(five)]) = k
  <2> DEFINE v == m[Addr(five)]
  <2>1. five \in Word /\ n \in Word /\ v \in Word
    BY <1>1, Reads
  <2> HIDE DEF v
  <2>2. Out("D+A", five, n, v) = Add(n, five)
    BY ONLY <2>1, OutIs
  <2> QED
    BY <1>2, <2>2 DEF v
<1>9. Gives(<<At(five)>>, State(a, n, m), State(five, n, m))
  BY <1>1, Loaded
<1>10. Gives(<<Set({"D"}, "D+A")>>, State(five, n, m), State(five, k, m))
  BY <1>1, <1>8, Computed, Texts
<1>11. Gives(<<At(SP)>>, State(five, k, m), State(SP, k, m))
  BY <1>3, Loaded
<1>12. Gives(<<Set({"D"}, "D-M")>>, State(SP, k, m), State(SP, u, m))
  BY <1>1, <1>3, <1>6, Computed, Texts
<1>13. Gives(<<Set({"D"}, "-D")>>, State(SP, u, m), State(SP, w, m))
  BY <1>3, <1>4, <1>7, Computed, Texts
<1>14. /\ At(five) \in Instruction /\ At(SP) \in Instruction /\ Set({"D"}, "D+A") \in Instruction
       /\ Set({"D"}, "D-M") \in Instruction /\ Set({"D"}, "-D") \in Instruction
  BY <1>1, <1>3, Instructions, Texts
<1>15. Gives(<<At(five), Set({"D"}, "D+A"), At(SP)>>, State(a, n, m), State(SP, k, m))
  BY <1>9, <1>10, <1>11, <1>14, Three
<1>16. Gives(<<Set({"D"}, "D-M"), Set({"D"}, "-D")>>, State(SP, k, m), State(SP, w, m))
  BY <1>12, <1>13, <1>14, Two
<1>17. Gives(<<At(five), Set({"D"}, "D+A"), At(SP), Set({"D"}, "D-M"), Set({"D"}, "-D")>>,
             State(a, n, m), State(SP, w, m))
  BY <1>14, <1>15, <1>16, Five
<1>18. Gives(CallArg, State(a, n, m), State(SP, w, m))
  BY <1>17 DEF CallArg, five
<1> QED
  BY <1>1, <1>5, <1>18 DEF w, u, k

LEMMA CallGives ==
  ASSUME NEW m \in Ram, NEW n \in 0 .. MaxArgs, NEW ret \in Word, NEW a, NEW d \in Word
  PROVE  \E v \in Word : Gives(CallBody(ret, n), State(a, d, m), State(LCL, v, parse_call(m, n, ret)))
<1> DEFINE m1 == PushD(m, ret)
           m2 == PushD(m1, m1[LCL])
           m3 == PushD(m2, m2[ARG])
           m4 == PushD(m3, m3[THIS])
           m5 == PushD(m4, m4[THAT])
           w == Neg(Sub(n + 5, m5[SP]))
           m6 == [m5 EXCEPT ![ARG] = w]
           m7 == [m6 EXCEPT ![LCL] = m6[SP]]
           s == State(a, d, m)
<1>1. m7 = parse_call(m, n, ret)
  BY DEF parse_call
<1>2. PICK v \in Word : Gives(CallSaves(ret), s, State(SP, v, m5))
  BY CallSavesGives
<1>3. m5 \in Ram
  BY CallSavesGives
<1> HIDE DEF s, m5
<1>4. n \in Word /\ w \in Word /\ Gives(CallArg, State(n, n, m5), State(SP, w, m5))
  BY <1>3, CallArgGives
<1> HIDE DEF w
<1>5. m6 \in Ram
  BY <1>3, <1>4, Registers DEF Ram
<1>6. Gives(SetD(n), State(SP, v, m5), State(n, n, m5))
  BY <1>3, <1>4, SetDGives
<1>7. Gives(Deposit(ARG), State(SP, w, m5), State(ARG, w, m6))
  BY <1>3, <1>4, DepositGives, Registers
<1> HIDE DEF m6
<1>8. Gives(Fetch(SP), State(ARG, w, m6), State(SP, m6[SP], m6)) /\ m6[SP] \in Word
  BY <1>4, <1>5, FetchGives, Reads, Registers
<1>9. Gives(Deposit(LCL), State(SP, m6[SP], m6), State(LCL, m6[SP], m7))
  BY <1>5, <1>8, DepositGives, Registers
<1> HIDE DEF m7
<1> DEFINE f1 == CallSaves(ret)
           f2 == f1 \o SetD(n)
           f3 == f2 \o CallArg
           f4 == f3 \o Deposit(ARG)
           f5 == f4 \o Fetch(SP)
           f6 == f5 \o Deposit(LCL)
<1>10. Gives(f2, s, State(n, n, m5))
  BY <1>2, <1>6, Joined
<1> HIDE DEF f2
<1>11. Gives(f3, s, State(SP, w, m5))
  BY <1>4, <1>10, Joined
<1> HIDE DEF f3
<1>12. Gives(f4, s, State(ARG, w, m6))
  BY <1>7, <1>11, Joined
<1> HIDE DEF f4
<1>13. Gives(f5, s, State(SP, m6[SP], m6))
  BY <1>8, <1>12, Joined
<1> HIDE DEF f5
<1>14. Gives(f6, s, State(LCL, m6[SP], m7))
  BY <1>9, <1>13, Joined
<1>15. f6 = CallBody(ret, n)
  BY DEF f2, f3, f4, f5, CallBody
<1> HIDE DEF f6
<1> QED
  BY <1>1, <1>8, <1>14, <1>15 DEF s

(* The jump at the end: nothing but At(to) is needed of it.                *)
LEMMA CallCode ==
  ASSUME NEW ret, NEW n, NEW to
  PROVE  call_code(ret, n, to) = CallBody(ret, n) \o <<At(to), JumpIf("0", "JMP")>>
  BY DEF call_code, CallBody, CallSaves, CallArg

LEMMA Leaves ==
  ASSUME NEW reg \in Left, NEW m, NEW f, NEW a, NEW d \in Word, NEW w \in Ram, Gives(f, First(reg, m), State(a, d, w)), NEW x \in Address
  PROVE  Runs(reg, f \o <<At(x), JumpIf("0", "JMP")>>, m, w, x)
<1> DEFINE out == 0
<1>1. x \in Word /\ w[x] \in Word
  BY Reads
<1>2. Out("0", x, d, w[x]) = out
  BY <1>1, OutIs
<1>3. Taken(out, parse_jump("JMP"))
  BY Taking, WordRange
<1> HIDE DEF out
<1> QED
  BY <1>2, <1>3, LeavesFor, Texts

LEMMA CallRuns ==
  ASSUME NEW reg \in Left, NEW m \in Ram, NEW n \in 0 .. MaxArgs, NEW ret \in Word, NEW x \in Address
  PROVE  Runs(reg, call_code(ret, n, x), m, parse_call(m, n, ret), x)
<1>1. reg[1] \in Word /\ reg[2] \in Word /\ 1 \in Word
  BY WordRange, LeftWords
<1>2. PICK v \in Word : Gives(CallBody(ret, n), First(reg, m), State(LCL, v, parse_call(m, n, ret)))
  BY <1>1, CallGives DEF First
<1>3. parse_call(m, n, ret) \in Ram
  BY CallType
<1> QED
  BY <1>2, <1>3, Leaves, CallCode

LEMMA BootRuns ==
  ASSUME NEW reg \in Left, NEW m \in Ram, NEW ret \in Word, NEW x \in Address
  PROVE  Runs(reg, SetD(StackBase) \o Deposit(SP) \o call_code(ret, 0, x), m, bootstrap(m, ret), x)
<1> DEFINE b == StackBase
           s == [m EXCEPT ![SP] = b]
           f == SetD(b) \o Deposit(SP)
           n == 0
           g == CallBody(ret, n)
           h == <<At(x), JumpIf("0", "JMP")>>
           w == parse_call(s, n, ret)
<1>1. reg[1] \in Word /\ reg[2] \in Word /\ 1 \in Word /\ b \in Word
  BY WordRange, LeftWords, LayoutAssumption DEF Word
<1>2. s \in Ram /\ n \in 0 .. MaxArgs
  BY <1>1, Registers, LayoutAssumption DEF Ram
<1>3. bootstrap(m, ret) = w
  BY DEF bootstrap
<1>4. Gives(SetD(b), First(reg, m), State(b, b, m))
  BY <1>1, SetDGives DEF First
<1>5. Gives(Deposit(SP), State(b, b, m), State(SP, b, s))
  BY <1>1, DepositGives, Registers
<1> HIDE DEF b, s
<1>6. Gives(f, First(reg, m), State(SP, b, s))
  BY <1>4, <1>5, Joined
<1> HIDE DEF f, n
<1>7. PICK v \in Word : Gives(g, State(SP, b, s), State(LCL, v, w))
  BY <1>1, <1>2, CallGives
<1>8. w \in Ram
  BY <1>2, CallType
<1> HIDE DEF g, w
<1>9. Gives(f \o g, First(reg, m), State(LCL, v, w))
  BY <1>6, <1>7, Joined
<1>10. Runs(reg, (f \o g) \o h, m, w, x)
  BY <1>8, <1>9, Leaves
<1>11. (f \o g) \o h = f \o (g \o h)
  <2>1. f \in Seq(Instruction) /\ g \in Seq(Instruction)
    BY <1>6, <1>7 DEF Gives
  <2>2. At(x) \in Instruction /\ JumpIf("0", "JMP") \in Instruction
    BY Reads, Registers, Instructions, InstructionTypes, Texts
  <2>3. h \in Seq(Instruction)
    BY <2>2
  <2> HIDE DEF h
  <2> QED
    BY <2>1, <2>3, ConcatAssociative
<1>12. g \o h = call_code(ret, n, x)
  BY CallCode DEF g
<1> QED
  BY <1>3, <1>10, <1>11, <1>12 DEF f, b, n

-----------------------------------------------------------------------------
(* return                                                                  *)

(* The word k below the frame, in D.                                       *)
LEMMA SavedGives ==
  ASSUME NEW k \in Word, NEW a, NEW d \in Word, NEW m \in Ram
  PROVE  LET t == Sub(m[tmp_register], k)
         IN /\ t \in Word /\ Load(m, t) \in Word
            /\ Gives(Saved_(k), State(a, d, m), State(t, Load(m, t), m))
<1> DEFINE b == tmp_register
           t == Sub(m[b], k)
           v == Load(m, t)
<1>1. b \in Word /\ Addr(b) = b /\ m[b] \in Word
  BY Registers, Reads
<1>2. t \in Word /\ t = Sub(m[Addr(b)], k)
  BY <1>1, WordOps
<1> HIDE DEF t, b
<1>3. v \in Word /\ v = m[Addr(t)]
  BY <1>2, StoreType DEF Load
<1> HIDE DEF v
<1>4. Out("M-D", b, k, m[Addr(b)]) = t
  <2>1. m[Addr(b)] \in Word
    BY <1>1
  <2>2. Out("M-D", b, k, m[Addr(b)]) = Sub(m[Addr(b)], k)
    BY ONLY <1>1, <2>1, k \in Word, OutIs
  <2> QED
    BY <1>2, <2>2
<1>5. Out("M", t, k, m[Addr(t)]) = v
  <2>1. m[Addr(t)] \in Word
    BY <1>3
  <2>2. Out("M", t, k, m[Addr(t)]) = m[Addr(t)]
    BY ONLY <1>2, <2>1, k \in Word, OutIs
  <2> QED
    BY <1>3, <2>2
<1>6. Gives(SetD(k), State(a, d, m), State(k, k, m))
  BY SetDGives
<1>7. Gives(<<At(b)>>, State(k, k, m), State(b, k, m))
  BY <1>1, Loaded
<1>8. Gives(<<Set({"A"}, "M-D")>>, State(b, k, m), State(t, k, m))
  BY <1>1, <1>4, Computed, Texts
<1>9. Gives(<<Set({"D"}, "M")>>, State(t, k, m), State(t, v, m))
  BY <1>2, <1>5, Computed, Texts
<1>10. /\ At(b) \in Instruction /\ Set({"A"}, "M-D") \in Instruction /\ Set({"D"}, "M") \in Instruction
  BY <1>1, Instructions, Texts
<1>11. Gives(<<At(b), Set({"A"}, "M-D"), Set({"D"}, "M")>>, State(k, k, m), State(t, v, m))
  BY <1>7, <1>8, <1>9, <1>10, Three
<1>12. Gives(SetD(k) \o <<At(b), Set({"A"}, "M-D"), Set({"D"}, "M")>>, State(a, d, m), State(t, v, m))
  BY <1>6, <1>11, Joined
<1>13. Gives(Saved_(k), State(a, d, m), State(t, v, m))
  BY <1>12 DEF Saved_, b
<1> QED
  BY <1>2, <1>3, <1>13 DEF v, t, b

(* A register restored from the frame.                                     *)
LEMMA RestoreGives ==
  ASSUME NEW k \in Word, NEW x \in Address, NEW f, NEW s, NEW a, NEW d \in Word, NEW m \in Ram,
         Gives(f, s, State(a, d, m))
  PROVE  LET v == Load(m, Sub(m[tmp_register], k))
             w == [m EXCEPT ![x] = v]
         IN v \in Word /\ w \in Ram /\ Gives((f \o Saved_(k)) \o Deposit(x), s, State(x, v, w))
<1> DEFINE t == Sub(m[tmp_register], k)
           v == Load(m, t)
           w == [m EXCEPT ![x] = v]
<1>1. v \in Word /\ Gives(Saved_(k), State(a, d, m), State(t, v, m))
  BY SavedGives
<1> HIDE DEF v
<1>2. Gives(f \o Saved_(k), s, State(t, v, m))
  BY <1>1, Joined
<1>3. Gives(Deposit(x), State(t, v, m), State(x, v, w))
  BY <1>1, DepositGives
<1>4. w \in Ram
  BY <1>1 DEF Ram
<1> HIDE DEF w
<1>5. Gives((f \o Saved_(k)) \o Deposit(x), s, State(x, v, w))
  BY <1>2, <1>3, Joined
<1> QED
  BY <1>1, <1>4, <1>5 DEF w, v

(* The result to where the first argument was, and SP behind it.           *)
LEMMA ResultGives ==
  ASSUME NEW f, NEW s, NEW a, NEW d \in Word, NEW m \in Ram, Gives(f, s, State(a, d, m))
  PROVE  LET p == DecSP(m)
             w == Store(p, p[ARG], AtSP(p))
         IN w \in Ram /\ Gives(((f \o pop) \o Follow(ARG)) \o <<Set({"M"}, "D")>>, s, State(p[ARG], AtSP(p), w))
<1> DEFINE p == DecSP(m)
           t == p[ARG]
           v == AtSP(p)
           w == Store(p, t, v)
<1>1. Gives(pop, State(a, d, m), State(p[SP], v, p))
  BY PopGives
<1>2. p \in Ram
  BY StackType, WordRange
<1> HIDE DEF p
<1>3. v \in Word /\ t \in Word
  BY <1>2, AtSPType, Reads, Registers
<1>4. Gives(Follow(ARG), State(p[SP], v, p), State(t, v, p))
  BY <1>2, <1>3, FollowGives, Registers
<1> HIDE DEF v, t
<1>5. Gives(<<Set({"M"}, "D")>>, State(t, v, p), State(t, v, w))
  <2>1. p[Addr(t)] \in Word
    BY <1>2, <1>3, Reads
  <2>2. Out("D", t, v, p[Addr(t)]) = v
    BY ONLY <1>3, <2>1, OutIs
  <2> QED
    BY <1>2, <1>3, <2>2, Computed, Texts
<1>6. w \in Ram
  BY <1>2, <1>3, StoreType
<1> HIDE DEF w
<1>7. Gives(f \o pop, s, State(p[SP], v, p))
  BY <1>1, Joined
<1>8. Gives((f \o pop) \o Follow(ARG), s, State(t, v, p))
  BY <1>4, <1>7, Joined
<1>9. Gives(((f \o pop) \o Follow(ARG)) \o <<Set({"M"}, "D")>>, s, State(t, v, w))
  BY <1>5, <1>8, Joined
<1> QED
  BY <1>6, <1>9 DEF w, t, v, p

LEMMA StackGives ==
  ASSUME NEW f, NEW s, NEW a, NEW d \in Word, NEW m \in Ram, Gives(f, s, State(a, d, m))
  PROVE  LET v == Add(m[ARG], 1)
             w == [m EXCEPT ![SP] = v]
         IN /\ v \in Word /\ w \in Ram
            /\ Gives((f \o <<At(ARG), Set({"D"}, "M+1")>>) \o Deposit(SP), s, State(SP, v, w))
<1> DEFINE b == ARG
           v == Add(m[b], 1)
           w == [m EXCEPT ![SP] = v]
<1>1. b \in Word /\ Addr(b) = b /\ m[b] \in Word /\ 1 \in Word
  BY Registers, Reads, WordRange
<1>2. v \in Word
  BY <1>1, WordOps
<1>3. Out("M+1", b, d, m[Addr(b)]) = v
  BY <1>1, OutIs
<1> HIDE DEF v, b
<1>4. Gives(<<At(b)>>, State(a, d, m), State(b, d, m))
  BY <1>1, Loaded
<1>5. Gives(<<Set({"D"}, "M+1")>>, State(b, d, m), State(b, v, m))
  BY <1>1, <1>3, Computed, Texts
<1>6. Gives(<<At(b), Set({"D"}, "M+1")>>, State(a, d, m), State(b, v, m))
  BY <1>1, <1>4, <1>5, Two, Instructions, Texts
<1>7. Gives(f \o <<At(b), Set({"D"}, "M+1")>>, s, State(b, v, m))
  BY <1>6, Joined
<1>8. Gives(Deposit(SP), State(b, v, m), State(SP, v, w))
  BY <1>2, DepositGives, Registers
<1>9. w \in Ram
  BY <1>2, Registers DEF Ram
<1> HIDE DEF w
<1>10. Gives((f \o <<At(b), Set({"D"}, "M+1")>>) \o Deposit(SP), s, State(SP, v, w))
  BY <1>7, <1>8, Joined
<1> QED
  BY <1>2, <1>9, <1>10 DEF w, v, b

(* The word right below the frame needs no D.                              *)
LEMMA BelowGives ==
  ASSUME NEW f, NEW s, NEW a, NEW d \in Word, NEW m \in Ram, Gives(f, s, State(a, d, m))
  PROVE  LET v == Load(m, Sub(m[tmp_register], 1))
             w == [m EXCEPT ![THAT] = v]
         IN /\ v \in Word /\ w \in Ram
            /\ Gives((f \o <<At(tmp_register), Set({"A"}, "M-1"), Set({"D"}, "M")>>) \o Deposit(THAT), s,
                     State(THAT, v, w))
<1> DEFINE b == tmp_register
           t == Sub(m[b], 1)
           v == Load(m, t)
           w == [m EXCEPT ![THAT] = v]
           i == <<At(b), Set({"A"}, "M-1"), Set({"D"}, "M")>>
<1>1. b \in Word /\ Addr(b) = b /\ m[b] \in Word /\ 1 \in Word
  BY Registers, Reads, WordRange
<1>2. t \in Word
  BY <1>1, WordOps
<1>3. Out("M-1", b, d, m[Addr(b)]) = t
  BY <1>1, OutIs
<1> HIDE DEF t, b
<1>4. v \in Word /\ v = m[Addr(t)]
  BY <1>2, StoreType DEF Load
<1> HIDE DEF v
<1>5. Out("M", t, d, m[Addr(t)]) = v
  <2>1. m[Addr(t)] \in Word
    BY <1>4
  <2>2. Out("M", t, d, m[Addr(t)]) = m[Addr(t)]
    BY ONLY <1>2, <2>1, d \in Word, OutIs
  <2> QED
    BY <1>4, <2>2
<1>6. Gives(<<At(b)>>, State(a, d, m), State(b, d, m))
  BY <1>1, Loaded
<1>7. Gives(<<Set({"A"}, "M-1")>>, State(b, d, m), State(t, d, m))
  BY <1>1, <1>3, Computed, Texts
<1>8. Gives(<<Set({"D"}, "M")>>, State(t, d, m), State(t, v, m))
  BY <1>2, <1>5, Computed, Texts
<1>9. Gives(i, State(a, d, m), State(t, v, m))
  <2>1. /\ At(b) \in Instruction /\ Set({"A"}, "M-1") \in Instruction /\ Set({"D"}, "M") \in Instruction
    BY <1>1, Instructions, Texts
  <2> QED
    BY <1>6, <1>7, <1>8, <2>1, Three
<1> HIDE DEF i
<1>10. Gives(f \o i, s, State(t, v, m))
  BY <1>9, Joined
<1>11. Gives(Deposit(THAT), State(t, v, m), State(THAT, v, w))
  BY <1>4, DepositGives, Registers
<1>12. w \in Ram
  BY <1>4, Registers DEF Ram
<1> HIDE DEF w
<1>13. Gives((f \o i) \o Deposit(THAT), s, State(THAT, v, w))
  BY <1>10, <1>11, Joined
<1> QED
  BY <1>4, <1>12, <1>13 DEF i, w, v, t, b

LEMMA ReturnRuns ==
  ASSUME NEW reg \in Left, NEW m \in Ram
  PROVE  Runs(reg, return_code, m, parse_return(m), Addr(parse_return(m)[tmp_ret_register]))
<1> DEFINE Saved(r, k) == Load(r, Sub(r[tmp_register], k))
           m1 == [m EXCEPT ![tmp_register] = m[LCL]]
           m2 == [m1 EXCEPT ![tmp_ret_register] = Saved(m1, 5)]
           m3 == DecSP(m2)
           m4 == Store(m3, m3[ARG], AtSP(m3))
           m5 == [m4 EXCEPT ![SP] = Add(m4[ARG], 1)]
           m6 == [m5 EXCEPT ![THAT] = Saved(m5, 1)]
           m7 == [m6 EXCEPT ![THIS] = Saved(m6, 2)]
           m8 == [m7 EXCEPT ![ARG] = Saved(m7, 3)]
           m9 == [m8 EXCEPT ![LCL] = Saved(m8, 4)]
           f1 == Fetch(LCL) \o Deposit(tmp_register)
           f2 == (f1 \o Saved_(5)) \o Deposit(tmp_ret_register)
           f4 == ((f2 \o pop) \o Follow(ARG)) \o <<Set({"M"}, "D")>>
           f5 == (f4 \o <<At(ARG), Set({"D"}, "M+1")>>) \o Deposit(SP)
           f6 == (f5 \o <<At(tmp_register), Set({"A"}, "M-1"), Set({"D"}, "M")>>) \o Deposit(THAT)
           f7 == (f6 \o Saved_(2)) \o Deposit(THIS)
           f8 == (f7 \o Saved_(3)) \o Deposit(ARG)
           f9 == (f8 \o Saved_(4)) \o Deposit(LCL)
           f10 == f9 \o Follow(tmp_ret_register)
           s == First(reg, m)
<1>1. m9 = parse_return(m)
  BY DEF parse_return
<1>2. f10 \o <<JumpIf("0", "JMP")>> = return_code
  BY DEF return_code
<1>3. m1 \in Ram /\ m[LCL] \in Word /\ Gives(f1, s, State(tmp_register, m[LCL], m1))
  <2>1. m[LCL] \in Word /\ m1 \in Ram
    BY Reads, Registers DEF Ram
  <2>2. Gives(Fetch(LCL), s, State(LCL, m[LCL], m))
    BY LeftWords, FetchGives, Registers DEF First
  <2>3. Gives(Deposit(tmp_register), State(LCL, m[LCL], m), State(tmp_register, m[LCL], m1))
    BY <2>1, DepositGives, Registers
  <2> QED
    BY <2>1, <2>2, <2>3, Joined
<1>n. 2 \in Word /\ 3 \in Word /\ 4 \in Word /\ 5 \in Word
  BY HalfAssumption DEF Word
<1> HIDE DEF s, f1, m1
<1>4. m2 \in Ram /\ Saved(m1, 5) \in Word /\ Gives(f2, s, State(tmp_ret_register, Saved(m1, 5), m2))
  BY <1>3, <1>n, RestoreGives, Registers
<1> HIDE DEF f2, m2
<1>5. m4 \in Ram /\ m3[ARG] \in Word /\ AtSP(m3) \in Word /\ Gives(f4, s, State(m3[ARG], AtSP(m3), m4))
  <2>1. m3 \in Ram
    BY <1>4, StackType, WordRange
  <2>2. m3[ARG] \in Word /\ AtSP(m3) \in Word
    BY <2>1, AtSPType, Reads, Registers
  <2> QED
    BY <1>4, <2>2, ResultGives
<1> HIDE DEF f4, m4
<1>6. m5 \in Ram /\ Add(m4[ARG], 1) \in Word /\ Gives(f5, s, State(SP, Add(m4[ARG], 1), m5))
  BY <1>5, StackGives
<1> HIDE DEF f5, m5
<1>7. m6 \in Ram /\ Saved(m5, 1) \in Word /\ Gives(f6, s, State(THAT, Saved(m5, 1), m6))
  BY <1>6, BelowGives
<1> HIDE DEF f6, m6
<1>8. m7 \in Ram /\ Saved(m6, 2) \in Word /\ Gives(f7, s, State(THIS, Saved(m6, 2), m7))
  BY <1>7, <1>n, RestoreGives, Registers
<1> HIDE DEF f7, m7
<1>9. m8 \in Ram /\ Saved(m7, 3) \in Word /\ Gives(f8, s, State(ARG, Saved(m7, 3), m8))
  BY <1>8, <1>n, RestoreGives, Registers
<1> HIDE DEF f8, m8
<1>10. m9 \in Ram /\ Saved(m8, 4) \in Word /\ Gives(f9, s, State(LCL, Saved(m8, 4), m9))
  BY <1>9, <1>n, RestoreGives, Registers
<1> DEFINE d == Saved(m8, 4)
<1> HIDE DEF f9, m9, d
<1>11. d \in Word /\ Gives(f9, s, State(LCL, d, m9))
  BY <1>10 DEF d
<1> DEFINE a == m9[tmp_ret_register]
<1>12. Gives(Follow(tmp_ret_register), State(LCL, d, m9), State(a, d, m9))
  BY <1>10, <1>11, FollowGives, Registers
<1>13. a \in Word /\ m9[Addr(a)] \in Word
  BY <1>10, Reads, Registers
<1> HIDE DEF a
<1>14. Gives(f10, s, State(a, d, m9))
  BY <1>11, <1>12, Joined
<1> DEFINE out == 0
<1>15. Out("0", a, d, m9[Addr(a)]) = out
  BY ONLY <1>11, <1>13, OutIs
<1>16. Taken(out, parse_jump("JMP"))
  BY Taking, WordRange
<1> HIDE DEF out, f10
<1>17. Runs(reg, f10 \o <<JumpIf("0", "JMP")>>, m, m9, Addr(a))
  BY <1>14, <1>15, <1>16, CompletesJump, Texts DEF s
<1>18. Runs(reg, return_code, m, m9, Addr(a))
  BY <1>2, <1>17 DEF f10, f9, f8, f7, f6, f5, f4, f2, f1
<1> HIDE DEF Saved
<1> QED
  BY <1>1, <1>18 DEF a, m9, m8, m7, m6, m5, m4, m2, m1

-----------------------------------------------------------------------------
(* function                                                                *)

(* Six instructions push a zero.                                           *)
LEMMA ZeroLaid == push_zero \in Seq(Instruction) /\ Len(push_zero) = 6
<1> DEFINE f == <<Set({"D"}, "0")>>
<1>1. /\ Set({"D"}, "0") \in Instruction /\ At(SP) \in Instruction /\ Set({"A"}, "M") \in Instruction
      /\ Set({"M"}, "D") \in Instruction /\ Set({"M"}, "M+1") \in Instruction
  BY Registers, Instructions, Texts
<1>2. f \in Seq(Instruction) /\ Len(f) = 1
  BY <1>1
<1>3. push \in Seq(Instruction) /\ Len(push) = 5
  BY <1>1 DEF push
<1> HIDE DEF f
<1>4. f \o push \in Seq(Instruction) /\ Len(f \o push) = Len(f) + Len(push)
  BY ONLY <1>2, <1>3, ConcatProperties
<1>5. push_zero = f \o push
  BY DEF push_zero, f
<1> QED
  BY <1>2, <1>3, <1>4, <1>5

LEMMA ZeroGives ==
  ASSUME NEW a \in Word, NEW d \in Word, NEW m \in Ram
  PROVE  Gives(push_zero, State(a, d, m), State(SP, 0, PushD(m, 0)))
<1> DEFINE z == 0
<1>1. z \in Word /\ m[Addr(a)] \in Word
  BY WordRange, Reads
<1>2. Out("0", a, d, m[Addr(a)]) = z
  BY <1>1, OutIs
<1> HIDE DEF z
<1>3. Gives(<<Set({"D"}, "0")>>, State(a, d, m), State(a, z, m))
  BY <1>2, Computed, Texts
<1>4. Gives(push, State(a, z, m), State(SP, z, PushD(m, z)))
  BY <1>1, PushGives
<1>5. Gives(push_zero, State(a, d, m), State(SP, z, PushD(m, z)))
  BY <1>3, <1>4, Joined DEF push_zero
<1> QED
  BY <1>5 DEF z

(* One local more is six instructions more.                                *)
LEMMA FunctionLaid ==
  ASSUME NEW k \in Nat
  PROVE  /\ function_code(k) \in Seq(Instruction) /\ Len(function_code(k)) = 6 * k
         /\ function_code(k + 1) = function_code(k) \o push_zero
<1> DEFINE z == push_zero
           At_(i) == z[((i - 1) % 6) + 1]
           f == [i \in 1 .. 6 * k |-> At_(i)]
           g == [i \in 1 .. 6 * k + 6 |-> At_(i)]
<1>1. z \in Seq(Instruction) /\ Len(z) = 6
  BY ZeroLaid
<1> HIDE DEF z
<1>2. \A i \in Nat \ {0} : ((i - 1) % 6) + 1 \in 1 .. 6
  OBVIOUS
<1>3. \A j \in 1 .. 6 : ((6 * k + j - 1) % 6) + 1 = j
  OBVIOUS
<1>4. \A i \in Nat \ {0} : At_(i) \in Instruction
  <2>1. \A j \in 1 .. 6 : z[j] \in Instruction
    BY ONLY <1>1, ElementOfSeq
  <2> QED
    BY <1>2, <2>1
<1>5. \A j \in 1 .. 6 : At_(6 * k + j) = z[j]
  BY <1>3
<1> HIDE DEF At_
<1>6. f \in Seq(Instruction) /\ Len(f) = 6 * k
  BY <1>4
<1>7. g \in Seq(Instruction) /\ Len(g) = 6 * k + 6
  BY <1>4
<1>8. g = f \o z
  <2> DEFINE h == f \o z
  <2>1. /\ h \in Seq(Instruction) /\ Len(h) = Len(f) + Len(z)
        /\ \A i \in 1 .. Len(f) + Len(z) : h[i] = IF i <= Len(f) THEN f[i] ELSE z[i - Len(f)]
    BY ONLY <1>1, <1>6, ConcatProperties
  <2>2. \A i \in 1 .. 6 * k : f[i] = At_(i)
    OBVIOUS
  <2>3. \A i \in 1 .. 6 * k + 6 : g[i] = At_(i)
    OBVIOUS
  <2> HIDE DEF f, g, h
  <2>4. ASSUME NEW i \in 1 .. 6 * k + 6 PROVE h[i] = g[i]
    <3>1. CASE i <= 6 * k
      BY <1>1, <1>6, <2>1, <2>2, <2>3, <3>1
    <3>2. CASE ~(i <= 6 * k)
      <4>1. i - 6 * k \in 1 .. 6 /\ 6 * k + (i - 6 * k) = i
        BY <3>2
      <4>2. At_(i) = z[i - 6 * k]
        BY <1>5, <4>1
      <4> QED
        BY <1>1, <1>6, <2>1, <2>3, <3>2, <4>2
    <3> QED
      BY <3>1, <3>2
  <2>5. Len(h) = 6 * k + 6
    BY <1>1, <1>6, <2>1
  <2>6. h = g
    BY <1>7, <2>1, <2>4, <2>5
  <2> QED
    BY <2>6 DEF h
<1>9. function_code(k) = f /\ function_code(k + 1) = g
  <2>1. k * 6 = 6 * k /\ (k + 1) * 6 = 6 * k + 6
    OBVIOUS
  <2> QED
    BY <1>1, <2>1 DEF function_code, At_, z
<1> QED
  BY <1>6, <1>8, <1>9 DEF z

LEMMA NoLocals ==
  ASSUME NEW m \in Ram, InStack(m[SP])
  PROVE  function_code(0) = <<>> /\ parse_function(m, 0) = m
<1>1. function_code(0) = <<>>
  <2>1. function_code(0) \in Seq(Instruction) /\ Len(function_code(0)) = 0
    BY FunctionLaid
  <2> QED
    BY <2>1
<1>2. m[SP] \in Int /\ m[SP] + 0 = m[SP] /\ Add(m[SP], 0) = m[SP]
  BY StackAddresses, WrapWord, WordRange DEF Add
<1>3. \A a \in Address : parse_function(m, 0)[a] = m[a]
  <2> TAKE a \in Address
  <2>1. ~(m[SP] <= a /\ a < m[SP])
    BY <1>2 DEF Address
  <2> QED
    BY <1>2, <2>1 DEF parse_function
<1> QED
  BY <1>1, <1>3 DEF parse_function, Ram

(* One zero more is one local more.                                        *)
LEMMA ZeroPushed ==
  ASSUME NEW m \in Ram, InStack(m[SP]), NEW k \in Nat, m[SP] + k + 1 <= StackTop
  PROVE  PushD(parse_function(m, k), 0) = parse_function(m, k + 1)
<1> DEFINE x == m[SP]
           p == parse_function(m, k)
           q == PushD(p, 0)
           r == parse_function(m, k + 1)
<1>1. x \in Int /\ 16 <= x /\ x + k \in Address /\ x + k <= StackTop /\ x + (k + 1) = x + k + 1
      /\ x + (k + 1) <= StackTop /\ k + 1 \in Nat /\ 0 \in Word
  BY HalfAssumption, LayoutAssumption DEF InStack, Address, Word
<1>2. p \in Ram /\ p[SP] = x + k /\ r \in Ram /\ r[SP] = x + (k + 1)
  BY <1>1, FunctionEffect
<1>3. \A a \in Address \ {SP} : p[a] = IF x <= a /\ a < x + k THEN 0 ELSE m[a]
  BY DEF parse_function
<1>4. \A a \in Address \ {SP} : r[a] = IF x <= a /\ a < x + (k + 1) THEN 0 ELSE m[a]
  BY DEF parse_function
<1>5. InStack(p[SP])
  BY <1>1, <1>2, LayoutAssumption DEF InStack
<1> HIDE DEF p, r, x
<1>6. /\ q \in Ram /\ q[SP] = x + k + 1 /\ q[x + k] = 0
      /\ \A a \in Address \ {SP, x + k} : q[a] = p[a]
  BY <1>1, <1>2, <1>5, PushEffect
<1> HIDE DEF q
<1>7. ASSUME NEW a \in Address PROVE q[a] = r[a]
  <2>1. a \in Int
    BY DEF Address
  <2>2. CASE a = SP
    BY <1>1, <1>2, <1>6, <2>2
  <2>3. CASE a # SP /\ a = x + k
    BY <1>1, <1>4, <1>6, <2>3
  <2>4. CASE a # SP /\ a # x + k
    BY <1>1, <1>3, <1>4, <1>6, <2>1, <2>4
  <2> QED
    BY <2>2, <2>3, <2>4
<1>8. q = r
  BY <1>2, <1>6, <1>7 DEF Ram
<1> QED
  BY <1>8 DEF q, p, r

LEMMA FunctionRuns ==
  ASSUME NEW reg \in Left, NEW m \in Ram, NEW k \in Nat, InStack(m[SP]), m[SP] + k <= StackTop
  PROVE  Runs(reg, function_code(k), m, parse_function(m, k), Through)
<1> DEFINE Pushed(j) == \E a, d \in Word : Gives(function_code(j), First(reg, m), State(a, d, parse_function(m, j)))
           S == {j \in 0 .. k : Pushed(j)}
<1>1. Pushed(0)
  <2>1. Gives(<<>>, First(reg, m), First(reg, m))
    <3> DEFINE code == <<>>
               s == First(reg, m)
    <3>1. code \in Seq(Instruction) /\ Len(code) = 0
      OBVIOUS
    <3> HIDE DEF code, s
    <3>2. ASSUME NEW r, NEW begin, NEW c, NEW p, IsRun(r, begin, c), c \in Seq(Instruction),
                 Within(code, c, p), Reaches(r, p, s)
          PROVE  Reaches(r, p + Len(code), s)
      <4>1. p + Len(code) = p
        BY <3>1, <3>2 DEF Within
      <4> QED
        BY <3>2, <4>1
    <3>3. Gives(code, s, s)
      BY <3>1, <3>2 DEF Gives
    <3> QED
      BY <3>3 DEF s, code
  <2>2. Gives(function_code(0), First(reg, m), State(reg[1], reg[2], parse_function(m, 0)))
    BY <2>1, NoLocals DEF First
  <2> QED
    BY <2>2, LeftWords
<1>2. ASSUME NEW j \in 0 .. k, Pushed(j), j < k PROVE Pushed(j + 1)
  <2>1. PICK a \in Word, d \in Word : Gives(function_code(j), First(reg, m), State(a, d, parse_function(m, j)))
    BY <1>2
  <2>2. /\ j \in Nat /\ m[SP] \in Int /\ m[SP] + j <= StackTop /\ m[SP] + j + 1 <= StackTop
    BY <1>2, LayoutAssumption DEF InStack
  <2>3. parse_function(m, j) \in Ram
    BY <2>2, FunctionEffect
  <2>4. Gives(push_zero, State(a, d, parse_function(m, j)), State(SP, 0, PushD(parse_function(m, j), 0)))
    BY <2>3, ZeroGives
  <2>5. PushD(parse_function(m, j), 0) = parse_function(m, j + 1)
    BY <2>2, ZeroPushed
  <2>6. function_code(j + 1) = function_code(j) \o push_zero
    BY <2>2, FunctionLaid
  <2>7. Gives(function_code(j + 1), First(reg, m), State(SP, 0, parse_function(m, j + 1)))
    BY <2>1, <2>4, <2>5, <2>6, Joined
  <2> QED
    BY <2>7, WordRange, Registers
<1> HIDE DEF Pushed
<1>3. S \in SUBSET (0 .. k) /\ 0 \in S /\ \A j \in S : j < k => j + 1 \in S
  BY <1>1, <1>2
<1>4. k \in S
  <2>1. \A j \in 0 .. k : j \in S
    BY <1>3, AllRounds
  <2> QED
    BY <2>1
<1>5. PICK a \in Word, d \in Word : Gives(function_code(k), First(reg, m), State(a, d, parse_function(m, k)))
  BY <1>4 DEF Pushed
<1> QED
  BY <1>5, Ends

-----------------------------------------------------------------------------
(* Every command                                                           *)

LEMMA RunsComputes ==
  ASSUME NEW code, NEW effect, NEW target, \A reg \in Left : Runs(reg, code, ram, effect, target)
  PROVE  Computes(code, effect, target)
  BY LeftoverAssumption DEF Runs, Computes, Left

(* An operation has the effect of its own block, whatever the others are.   *)
LEMMA CommandRuns ==
  ASSUME IInv, Running, NEW c \in Program[pc], c.op = "function" => Room(Shape, c.locals)
  PROVE  Computes(parser(pc, c), Effect(c), GoesTo(c))
<1>1. ram \in Ram /\ pc \in Point /\ c \in Command
  BY Pointers, ProgramAssumption
<1>2. RomAddr[NextPoint[pc]] \in Word
  BY <1>1, ProgramAssumption, Registers
<1>3. c.op \in {"goto", "if-goto", "call"} => RomAddr[c.to] \in Address
  BY <1>1, CommandFields, ProgramAssumption
<1>4. CASE c.op = "push"
  <2>1. \A reg \in Left : Runs(reg, push_code(c), ram, parse_push(ram, c), Through)
    BY <1>1, <1>4, CommandFields, PushRuns
  <2>2. parser(pc, c) = push_code(c) /\ Effect(c) = parse_push(ram, c) /\ GoesTo(c) = Through
    BY <1>4 DEF parser, Effect, GoesTo
  <2> QED
    BY <2>1, <2>2, RunsComputes
<1>5. CASE c.op = "pop"
  <2>1. c \in PushPop
    BY <1>1, <1>5, CommandFields
  <2>2. c.seg # "constant"
    BY <1>5, <2>1, PushPopFields
  <2>3. \A reg \in Left : Runs(reg, pop_code(c), ram, parse_pop(ram, c), Through)
    BY <1>1, <2>1, <2>2, PopRuns
  <2>4. parser(pc, c) = pop_code(c) /\ Effect(c) = parse_pop(ram, c) /\ GoesTo(c) = Through
    BY <1>5 DEF parser, Effect, GoesTo
  <2> QED
    BY <2>3, <2>4, RunsComputes
<1>6. CASE c.op = "arithmetic"
  <2>1. c.fn \in Unary \/ c.fn \in {"add", "sub", "and", "or"} \/ c.fn \in Compare
    BY <1>1, <1>6, CommandFields DEF Binary
  <2>2. \A reg \in Left : Runs(reg, arithmetic_code(c.fn), ram, parse_arithmetic(ram, c), Through)
    BY <1>1, <2>1, UnaryRuns, BinaryRuns, CompareRuns
  <2>3. parser(pc, c) = arithmetic_code(c.fn) /\ Effect(c) = parse_arithmetic(ram, c) /\ GoesTo(c) = Through
    BY <1>6 DEF parser, Effect, GoesTo
  <2> QED
    BY <2>2, <2>3, RunsComputes
<1>7. CASE c.op = "label"
  <2>1. \A reg \in Left : Runs(reg, <<>>, ram, ram, Through)
    BY LabelRuns
  <2>2. parser(pc, c) = <<>> /\ Effect(c) = ram /\ GoesTo(c) = Through
    BY <1>7 DEF parser, Effect, GoesTo
  <2> QED
    BY <2>1, <2>2, RunsComputes
<1>8. CASE c.op = "goto"
  <2>1. \A reg \in Left : Runs(reg, <<At(RomAddr[c.to]), JumpIf("0", "JMP")>>, ram, ram, RomAddr[c.to])
    BY <1>1, <1>3, <1>8, GotoRuns
  <2>2. /\ parser(pc, c) = <<At(RomAddr[c.to]), JumpIf("0", "JMP")>> /\ Effect(c) = ram
        /\ GoesTo(c) = RomAddr[c.to]
    BY <1>8 DEF parser, Effect, GoesTo
  <2> QED
    BY <2>1, <2>2, RunsComputes
<1>9. CASE c.op = "if-goto"
  <2>1. \A reg \in Left : Runs(reg, pop \o <<At(RomAddr[c.to]), JumpIf("D", "JNE")>>, ram, parse_if(ram),
             IF IfValue(ram) # 0 THEN RomAddr[c.to] ELSE Through)
    BY <1>1, <1>3, <1>9, IfRuns
  <2>2. /\ parser(pc, c) = pop \o <<At(RomAddr[c.to]), JumpIf("D", "JNE")>> /\ Effect(c) = parse_if(ram)
        /\ GoesTo(c) = IF IfValue(ram) # 0 THEN RomAddr[c.to] ELSE Through
    BY <1>9 DEF parser, Effect, GoesTo
  <2> QED
    BY <2>1, <2>2, RunsComputes
<1>10. CASE c.op = "function"
  <2>1. c.locals \in Nat
    BY <1>1, <1>10, CommandFields, LayoutAssumption
  <2>2. InStack(ram[SP]) /\ ram[SP] + c.locals <= StackTop
    <3>1. ram[SP] \in Int /\ StackBase <= Top.argBase /\ ram[SP] <= StackTop
      BY Pointers
    <3>2. ram[SP] + c.locals <= StackTop
      <4>1. Room(Shape, c.locals)
        BY <1>10
      <4>2. c.locals \in Int
        BY <2>1
      <4> QED
        BY <4>1, <4>2, ShapeBounds
    <3>3. InStack(ram[SP])
      BY Pointers
    <3> QED
      BY <3>2, <3>3
  <2>3. \A reg \in Left : Runs(reg, function_code(c.locals), ram, parse_function(ram, c.locals), Through)
    BY <1>1, <2>1, <2>2, FunctionRuns
  <2>4. /\ parser(pc, c) = function_code(c.locals) /\ Effect(c) = parse_function(ram, c.locals)
        /\ GoesTo(c) = Through
    BY <1>10 DEF parser, Effect, GoesTo
  <2> QED
    BY <2>3, <2>4, RunsComputes
<1>11. CASE c.op = "call"
  <2>1. \A reg \in Left : Runs(reg, call_code(RomAddr[NextPoint[pc]], c.args, RomAddr[c.to]), ram,
             parse_call(ram, c.args, RomAddr[NextPoint[pc]]), RomAddr[c.to])
    BY <1>1, <1>2, <1>3, <1>11, CommandFields, CallRuns
  <2>2. /\ parser(pc, c) = call_code(RomAddr[NextPoint[pc]], c.args, RomAddr[c.to])
        /\ Effect(c) = parse_call(ram, c.args, RomAddr[NextPoint[pc]]) /\ GoesTo(c) = RomAddr[c.to]
    BY <1>11 DEF parser, Effect, GoesTo
  <2> QED
    BY <2>1, <2>2, RunsComputes
<1>12. CASE c.op = "return"
  <2>1. \A reg \in Left : Runs(reg, return_code, ram, parse_return(ram), Addr(parse_return(ram)[tmp_ret_register]))
    BY <1>1, ReturnRuns
  <2>2. /\ parser(pc, c) = return_code /\ Effect(c) = parse_return(ram)
        /\ GoesTo(c) = Addr(Effect(c)[tmp_ret_register])
    BY <1>12 DEF parser, Effect, GoesTo
  <2> QED
    BY <2>1, <2>2, RunsComputes
<1>13. c.op \in {"push", "pop", "arithmetic", "label", "goto", "if-goto", "function", "call", "return"}
  BY <1>1 DEF Command, PushPop, Arithmetic, Jump, Function, Call, Plain
<1> QED
  BY <1>4, <1>5, <1>6, <1>7, <1>8, <1>9, <1>10, <1>11, <1>12, <1>13

LEMMA BootComputes ==
  ASSUME ram \in Ram
  PROVE  Computes(bootstrap_code, bootstrap(ram, RomAddr[NextPoint[Boot]]), RomAddr[SysInit])
<1>1. RomAddr[NextPoint[Boot]] \in Word /\ RomAddr[SysInit] \in Address
  BY ProgramAssumption, Registers
<1>2. \A reg \in Left : Runs(reg, bootstrap_code, ram, bootstrap(ram, RomAddr[NextPoint[Boot]]), RomAddr[SysInit])
  BY <1>1, BootRuns DEF bootstrap_code
<1> QED
  BY <1>2, RunsComputes

(* The code of every command, instruction by instruction, computes what its *)
(* block says and goes on where its action does, in every state the machine *)
(* comes to: 132-464 of vm_backend.c, on the computer of projects/05.       *)
THEOREM CodeCorrect == Spec => []CodeComputes
<1>1. IInv => CodeComputes
  <2> SUFFICES ASSUME IInv, ~fault
               PROVE  /\ pc = Boot => Computes(bootstrap_code, bootstrap(ram, RomAddr[NextPoint[Boot]]),
                                               RomAddr[SysInit])
                      /\ pc # Boot => \A c \in Program[pc] :
                           (c.op = "function" => Room(Shape, c.locals))
                             => Computes(Code[pc][c], Effect(c), GoesTo(c))
    BY DEF CodeComputes
  <2>1. ram \in Ram /\ pc \in Point
    BY DEF IInv, TypeOK, Ram
  <2>2. ASSUME pc # Boot, NEW c \in Program[pc], c.op = "function" => Room(Shape, c.locals)
        PROVE  Computes(Code[pc][c], Effect(c), GoesTo(c))
    <3>1. Running
      BY <2>2 DEF Running
    <3>2. Code[pc][c] = parser(pc, c)
      BY <2>1 DEF Code
    <3> QED
      BY <2>2, <3>1, <3>2, CommandRuns
  <2> QED
    BY <2>1, <2>2, BootComputes
<1> QED
  BY <1>1, InductiveInvariant, PTL
=============================================================================
