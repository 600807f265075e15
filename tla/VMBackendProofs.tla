-------------------------- MODULE VMBackendProofs ---------------------------
(***************************************************************************)
(* Proofs about VMBackend, for every program, word size, memory layout and *)
(* initial content of the RAM that the assumptions allow: the frames, and  *)
(* the refinement of VMachine.                                             *)
(***************************************************************************)
EXTENDS VMBackend, SequenceTheorems, TLAPS

Ram == [Address -> Word]

-----------------------------------------------------------------------------
(* Words and addresses                                                     *)

(* One addition or subtraction leaves the words by less than a modulus.     *)
LEMMA WrapType ==
  ASSUME NEW d \in Int, -(2 * Half) <= d, d < 4 * Half
  PROVE  Wrap(d) \in Word
  BY HalfAssumption DEF Word, Wrap

LEMMA WrapWord == \A d \in Word : Wrap(d) = d
  BY HalfAssumption DEF Word, Wrap

LEMMA WrapNegative == \A d \in Int : d < 0 => Wrap(d) = d + 2 * Half
  BY HalfAssumption DEF Wrap

(* Arithmetic on words yields words.                                        *)
LEMMA WordOps ==
  ASSUME NEW x \in Word, NEW y \in Word
  PROVE  /\ Add(x, y) \in Word
         /\ Sub(x, y) \in Word
         /\ Neg(x) \in Word
         /\ Not(x) \in Word
         /\ Addr(x) \in Address
  <1>1. Half \in Nat /\ x \in 0 .. 2 * Half - 1 /\ y \in 0 .. 2 * Half - 1
    BY HalfAssumption DEF Word
  <1>2. /\ x + y \in Int /\ -(2 * Half) <= x + y /\ x + y < 4 * Half
        /\ x - y \in Int /\ -(2 * Half) <= x - y /\ x - y < 4 * Half
        /\ -x \in Int /\ -(2 * Half) <= -x /\ -x < 4 * Half
    BY <1>1
  <1>3. Add(x, y) \in Word /\ Sub(x, y) \in Word /\ Neg(x) \in Word
    BY <1>2, WrapType DEF Add, Sub, Neg
  <1>4. Not(x) \in Word
    BY <1>1 DEF Word, Not
  <1>5. Addr(x) \in Address
    BY <1>1 DEF Address, Addr
  <1> QED
    BY <1>3, <1>4, <1>5

(* Small numbers are words and addresses.                                   *)
LEMMA Registers ==
  /\ SP \in Address /\ LCL \in Address /\ ARG \in Address
  /\ THIS \in Address /\ THAT \in Address
  /\ tmp_register \in Address /\ tmp_ret_register \in Address
  /\ Address \subseteq Word
  BY HalfAssumption
     DEF Address, Word, SP, LCL, ARG, THIS, THAT, tmp_register, tmp_ret_register

LEMMA AddrOfAddress == \A a \in Address : Addr(a) = a
  BY HalfAssumption DEF Address, Addr

-----------------------------------------------------------------------------
(* The blocks keep the RAM a function from addresses to words.             *)

LEMMA StoreType ==
  ASSUME NEW m \in Ram, NEW a \in Word, NEW v \in Word
  PROVE  Load(m, a) \in Word /\ Store(m, a, v) \in Ram
  BY WordOps DEF Ram, Load, Store

LEMMA AtSPType == \A m \in Ram : AtSP(m) \in Word
  BY StoreType, Registers DEF Ram, AtSP

LEMMA StackType ==
  ASSUME NEW m \in Ram, NEW d \in Word
  PROVE  /\ DecSP(m) \in Ram
         /\ IncSP(m) \in Ram
         /\ AtSP(m) \in Word
         /\ PushD(m, d) \in Ram
  <1>0. 1 \in Word
    BY HalfAssumption DEF Word
  <1>1. \A n \in Ram : DecSP(n) \in Ram /\ IncSP(n) \in Ram /\ n[SP] \in Word
    BY <1>0, WordOps, Registers DEF Ram, DecSP, IncSP
  <1>2. AtSP(m) \in Word /\ Store(m, m[SP], d) \in Ram
    BY <1>1, StoreType DEF AtSP
  <1> QED
    BY <1>1, <1>2 DEF PushD

-----------------------------------------------------------------------------
(* What the building blocks of the code write, when SP is in the stack.    *)

InStack(x) == x \in 16 .. StackTop

LEMMA StackAddresses ==
  ASSUME NEW x, InStack(x)
  PROVE  /\ x \in Word /\ x - 1 \in Address /\ x - 2 \in Address /\ x \in Address
         /\ Addr(x) = x /\ Add(x, 1) = x + 1 /\ Sub(x, 1) = x - 1 /\ Add(x - 1, 1) = x
         /\ Sub(x - 1, 1) = x - 2 /\ Addr(x - 1) = x - 1 /\ Addr(x - 2) = x - 2
         /\ x \notin {SP, LCL, ARG, THIS, THAT, tmp_register, tmp_ret_register}
  <1>1. /\ Half \in Nat /\ StackTop \in Nat /\ StackTop < Half
        /\ x \in Nat /\ 16 <= x /\ x <= StackTop
    BY HalfAssumption, LayoutAssumption DEF InStack
  <1>2. x \in Word /\ x - 1 \in Address /\ x - 2 \in Address /\ x \in Address
    BY <1>1 DEF Word, Address
  <1>3. /\ x + 1 \in Word /\ x - 1 \in Word /\ x - 2 \in Word
        /\ (x - 1) + 1 = x /\ (x - 1) - 1 = x - 2
    BY <1>1 DEF Word
  <1>4. /\ Add(x, 1) = x + 1 /\ Sub(x, 1) = x - 1
        /\ Add(x - 1, 1) = x /\ Sub(x - 1, 1) = x - 2
    BY <1>2, <1>3, WrapWord DEF Add, Sub
  <1>5. Addr(x) = x /\ Addr(x - 1) = x - 1 /\ Addr(x - 2) = x - 2
    BY <1>2, AddrOfAddress
  <1>6. x \notin {SP, LCL, ARG, THIS, THAT, tmp_register, tmp_ret_register}
    BY <1>1 DEF SP, LCL, ARG, THIS, THAT, tmp_register, tmp_ret_register
  <1> QED
    BY <1>2, <1>4, <1>5, <1>6

(* A push writes the word at SP, and moves SP up by one.                    *)
LEMMA PushEffect ==
  ASSUME NEW m \in Ram, NEW d \in Word, InStack(m[SP])
  PROVE  /\ PushD(m, d) \in Ram
         /\ PushD(m, d)[SP] = m[SP] + 1
         /\ PushD(m, d)[m[SP]] = d
         /\ \A a \in Address \ {SP, m[SP]} : PushD(m, d)[a] = m[a]
  <1> DEFINE t == m[SP]
  <1>1. t \in Address /\ Addr(t) = t /\ t # SP /\ Add(t, 1) = t + 1
    BY StackAddresses
  <1>2. Store(m, t, d) = [m EXCEPT ![t] = d]
    BY <1>1 DEF Store
  <1>3. [m EXCEPT ![t] = d][SP] = t
    BY <1>1, Registers DEF Ram
  <1>4. PushD(m, d) = [[m EXCEPT ![t] = d] EXCEPT ![SP] = t + 1]
    BY <1>1, <1>2, <1>3, Registers DEF PushD, IncSP, Ram
  <1>5. PushD(m, d) \in Ram
    BY StackType
  <1> HIDE DEF t
  <1> QED
    BY <1>1, <1>4, <1>5, Registers DEF t, Ram

(* Popping moves SP down to the popped word, and writes nothing else.       *)
LEMMA DecEffect ==
  ASSUME NEW m \in Ram, InStack(m[SP])
  PROVE  /\ DecSP(m) \in Ram
         /\ DecSP(m)[SP] = m[SP] - 1
         /\ AtSP(DecSP(m)) = m[m[SP] - 1]
         /\ \A a \in Address \ {SP} : DecSP(m)[a] = m[a]
  <1>1. /\ m[SP] - 1 \in Address /\ Addr(m[SP] - 1) = m[SP] - 1
        /\ Sub(m[SP], 1) = m[SP] - 1 /\ m[SP] - 1 # SP
    <2>1. m[SP] - 1 # SP
      BY DEF InStack, SP
    <2> QED
      BY <2>1, StackAddresses
  <1>2. DecSP(m) = [m EXCEPT ![SP] = m[SP] - 1]
    BY <1>1, Registers DEF DecSP, Ram
  <1>3. DecSP(m) \in Ram
    BY <1>1, <1>2, Registers DEF Ram
  <1>4. DecSP(m)[SP] = m[SP] - 1 /\ \A a \in Address \ {SP} : DecSP(m)[a] = m[a]
    BY <1>2, Registers DEF Ram
  <1> QED
    BY <1>1, <1>3, <1>4 DEF AtSP, Load

-----------------------------------------------------------------------------
(* Commands                                                                *)

LEMMA CommandFields ==
  ASSUME NEW c \in Command
  PROVE  /\ c.op = "arithmetic" => c.fn \in Unary \cup Binary
         /\ c.op \in {"goto", "if-goto", "call"} => c.to \in Point
         /\ c.op = "function" => c.locals \in 0 .. MaxLocals
         /\ c.op = "call" => c.args \in 0 .. MaxArgs
         /\ c.op \in {"push", "pop"} => c \in PushPop
  BY DEF Command, PushPop, Arithmetic, Jump, Function, Call, Plain

LEMMA PushPopFields ==
  ASSUME NEW c \in PushPop
  PROVE  /\ c.seg \in Segment \cup {"constant", "static"}
         /\ c.seg = "static" => c.idx \in Static
         /\ c.seg # "static" => c.idx \in 0 .. MaxIndex
         /\ c.seg = "constant" => c.op = "push"
  BY DEF PushPop, Segment

LEMMA SegmentType ==
  ASSUME NEW m \in Ram, NEW c \in PushPop, c.seg # "constant"
  PROVE  SegmentAddress(m, c) \in Word
  <1>1. c.seg \in {"local", "argument", "this", "that", "temp", "pointer", "static"}
    BY PushPopFields DEF Segment
  <1>2. CASE c.seg = "static"
    <2>1. StaticAddr[c.idx] \in 16 .. StackBase - 1
      BY <1>2, PushPopFields, LayoutAssumption
    <2>2. StaticAddr[c.idx] \in Word
      BY <2>1, HalfAssumption, LayoutAssumption DEF Word
    <2> QED
      BY <1>2, <2>2 DEF SegmentAddress
  <1>3. CASE c.seg # "static"
    <2>1. c.idx \in Nat /\ c.idx < Half /\ c.idx \in Word
      BY <1>3, PushPopFields, LayoutAssumption, HalfAssumption DEF Word
    <2>2. base_temp + c.idx \in Word /\ base_pointer + c.idx \in Word
      BY <2>1, HalfAssumption DEF Word, base_temp, base_pointer
    <2>3. m[LCL] \in Word /\ m[ARG] \in Word /\ m[THIS] \in Word /\ m[THAT] \in Word
      BY Registers DEF Ram
    <2>4. /\ Add(c.idx, m[LCL]) \in Word /\ Add(c.idx, m[ARG]) \in Word
          /\ Add(c.idx, m[THIS]) \in Word /\ Add(c.idx, m[THAT]) \in Word
      BY <2>1, <2>3, WordOps
    <2> QED
      BY <1>1, <1>3, <2>2, <2>4 DEF SegmentAddress
  <1> QED
    BY <1>2, <1>3

(* push writes R13, the word at SP, and SP.                                 *)
LEMMA ParsePushEffect ==
  ASSUME NEW m \in Ram, NEW c \in PushPop, InStack(m[SP])
  PROVE  LET r == parse_push(m, c)
         IN /\ r \in Ram
            /\ r[SP] = m[SP] + 1
            /\ \A a \in Address \ {SP, tmp_register, m[SP]} : r[a] = m[a]
  <1>1. CASE c.seg = "constant"
    <2>1. c.idx \in Word
      BY <1>1, PushPopFields, LayoutAssumption, HalfAssumption DEF Word
    <2> QED
      BY <1>1, <2>1, PushEffect DEF parse_push
  <1>2. CASE c.seg # "constant"
    <2> DEFINE s == set_segment(m, c)
               d == Load(s, s[tmp_register])
    <2>1. s = [m EXCEPT ![tmp_register] = SegmentAddress(m, c)]
      BY AddrOfAddress, Registers DEF set_segment, Store
    <2>2. /\ s \in Ram /\ s[SP] = m[SP]
          /\ \A a \in Address \ {tmp_register} : s[a] = m[a]
      BY <1>2, <2>1, SegmentType, Registers DEF Ram, SP, tmp_register
    <2>3. d \in Word
      BY <2>2, StoreType, Registers, WordOps DEF Ram, Load
    <2>4. parse_push(m, c) = PushD(s, d)
      BY <1>2 DEF parse_push
    <2> HIDE DEF s, d
    <2> QED
      BY <2>2, <2>3, <2>4, PushEffect
  <1> QED
    BY <1>1, <1>2

(* pop writes R13, SP, and the word the segment and index name.             *)
LEMMA ParsePopEffect ==
  ASSUME NEW m \in Ram, NEW c \in PushPop, c.seg # "constant", InStack(m[SP]),
         Addr(SegmentAddress(m, c)) # SP
  PROVE  LET r == parse_pop(m, c)
             t == Addr(SegmentAddress(m, c))
         IN /\ r \in Ram
            /\ r[SP] = m[SP] - 1
            /\ \A a \in Address \ {SP, tmp_register, t} : r[a] = m[a]
  <1> DEFINE w == SegmentAddress(m, c)
             s == set_segment(m, c)
             p == DecSP(s)
  <1>1. w \in Word /\ Addr(w) \in Address
    BY SegmentType, WordOps
  <1>2. s = [m EXCEPT ![tmp_register] = w]
    BY AddrOfAddress, Registers DEF set_segment, Store
  <1>3. /\ s \in Ram /\ s[SP] = m[SP] /\ s[tmp_register] = w
        /\ \A a \in Address \ {tmp_register} : s[a] = m[a]
    BY <1>1, <1>2, Registers DEF Ram, SP, tmp_register
  <1> HIDE DEF w, s
  <1>4. /\ p \in Ram /\ p[SP] = m[SP] - 1 /\ AtSP(p) \in Word
        /\ \A a \in Address \ {SP} : p[a] = s[a]
    <2>0. p \in Ram
      BY <1>3, DecEffect
    <2>1. AtSP(p) \in Word
      BY <2>0, AtSPType
    <2> QED
      BY <1>3, <2>1, DecEffect
  <1>5. p[tmp_register] = w
    BY <1>3, <1>4, Registers DEF SP, tmp_register
  <1>6. parse_pop(m, c) = [p EXCEPT ![Addr(w)] = AtSP(p)]
    BY <1>5 DEF parse_pop, Store, s
  <1> HIDE DEF p
  <1> QED
    BY <1>1, <1>3, <1>4, <1>6, Registers DEF Ram, w

LEMMA ComputeType ==
  ASSUME NEW fn \in Binary, NEW x \in Word, NEW y \in Word
  PROVE  Compute(fn, x, y) \in Word
  <1>1. 0 \in Word /\ 2 * Half - 1 \in Word
    BY HalfAssumption DEF Word
  <1>2. CASE fn \in Compare
    <2>1. parse_compare(fn, Sub(y, x)) \in Word
      BY <1>1, <1>2 DEF parse_compare
    <2>2. Compute(fn, x, y) = parse_compare(fn, Sub(y, x))
      BY <1>2 DEF Compute, Compare
    <2> QED
      BY <2>1, <2>2
  <1>3. CASE fn = "sub"
    <2>1. Compute(fn, x, y) = Neg(Sub(y, x))
      BY <1>3 DEF Compute, Compare
    <2> QED
      BY <2>1, WordOps
  <1>4. CASE fn \in {"add", "and", "or"}
    <2>1. Compute(fn, x, y) \in {Add(y, x), And(y, x), Or(y, x)}
      BY <1>4 DEF Compute, Compare
    <2> QED
      BY <2>1, WordOps, BitwiseAssumption
  <1> QED
    BY <1>2, <1>3, <1>4 DEF Binary

(* An arithmetic command replaces its operands by one word.                 *)
LEMMA ArithEffect ==
  ASSUME NEW m \in Ram, NEW c \in Command, c.op = "arithmetic",
         NEW n \in {1, 2}, n = IF c.fn \in Unary THEN 1 ELSE 2,
         InStack(m[SP]), InStack(m[SP] - n)
  PROVE  LET r == parse_arithmetic(m, c)
         IN /\ r \in Ram
            /\ r[SP] = m[SP] - n + 1
            /\ \A a \in Address \ {SP, m[SP] - n} : r[a] = m[a]
  <1> DEFINE p == DecSP(m)
             q == DecSP(p)
  <1>0. m[SP] \in Int
    BY DEF InStack
  <1>1. /\ p \in Ram /\ p[SP] = m[SP] - 1
        /\ \A a \in Address \ {SP} : p[a] = m[a]
    BY DecEffect
  <1>2. AtSP(p) \in Word
    BY <1>1, AtSPType
  <1>3. CASE c.fn \in Unary
    <2> DEFINE d == IF c.fn = "neg" THEN Neg(AtSP(p)) ELSE Not(AtSP(p))
    <2>1. d \in Word
      BY <1>2, WordOps
    <2>2. parse_arithmetic(m, c) = PushD(p, d)
      BY <1>3 DEF parse_arithmetic
    <2> HIDE DEF p, d
    <2> QED
      BY <1>0, <1>1, <1>3, <2>1, <2>2, PushEffect
  <1>4. CASE c.fn \notin Unary
    <2>1. n = 2 /\ InStack(p[SP])
      <3>1. m[SP] - 1 \in 16 .. StackTop
        BY <1>0, <1>4, LayoutAssumption DEF InStack
      <3> QED
        BY <1>1, <1>4, <3>1 DEF InStack
    <2>2. /\ q \in Ram /\ q[SP] = m[SP] - 2
          /\ \A a \in Address \ {SP} : q[a] = m[a]
      <3> HIDE DEF p
      <3>1. p[SP] - 1 = m[SP] - 2
        BY <1>0, <1>1
      <3> QED
        BY <1>1, <2>1, <3>1, DecEffect
    <2> DEFINE d == Compute(c.fn, AtSP(q), AtSP(p))
    <2>3. d \in Word
      <3>1. AtSP(q) \in Word
        BY <2>2, AtSPType
      <3> QED
        BY <1>2, <1>4, <3>1, ComputeType, CommandFields
    <2>4. parse_arithmetic(m, c) = PushD(q, d)
      BY <1>4 DEF parse_arithmetic
    <2> HIDE DEF p, q, d
    <2> QED
      BY <1>0, <2>1, <2>2, <2>3, <2>4, PushEffect
  <1> QED
    BY <1>3, <1>4

(* function f k fills k words from SP on, and moves SP over them.           *)
LEMMA FunctionEffect ==
  ASSUME NEW m \in Ram, NEW k \in Nat, InStack(m[SP]), m[SP] + k <= StackTop
  PROVE  LET r == parse_function(m, k)
         IN /\ r \in Ram
            /\ r[SP] = m[SP] + k
            /\ \A a \in Address \ {SP} : ~(m[SP] <= a /\ a < m[SP] + k) => r[a] = m[a]
  <1>1. m[SP] + k \in Word
    BY HalfAssumption, LayoutAssumption DEF InStack, Word
  <1>2. Add(m[SP], k) = m[SP] + k
    BY <1>1, WrapWord DEF Add
  <1>3. 0 \in Word
    BY HalfAssumption DEF Word
  <1> QED
    BY <1>1, <1>2, <1>3, Registers DEF parse_function, Ram

(* call f n: what is where after the jump.                                  *)
LEMMA CallEffect ==
  ASSUME NEW m \in Ram, NEW n \in Nat, NEW ret \in Word,
         InStack(m[SP]), m[SP] + 5 <= StackTop, 0 < m[SP] - n
  PROVE  LET r == parse_call(m, n, ret)
         IN /\ r \in Ram
            /\ r[SP] = m[SP] + 5 /\ r[LCL] = m[SP] + 5 /\ r[ARG] = m[SP] - n
            /\ r[m[SP]] = ret
            /\ r[m[SP] + 1] = m[LCL] /\ r[m[SP] + 2] = m[ARG]
            /\ r[m[SP] + 3] = m[THIS] /\ r[m[SP] + 4] = m[THAT]
            /\ \A a \in Address \ {SP, LCL, ARG} :
                 a \notin m[SP] .. m[SP] + 4 => r[a] = m[a]
  <1> DEFINE s  == m[SP]
             m1 == PushD(m, ret)
             m2 == PushD(m1, m1[LCL])
             m3 == PushD(m2, m2[ARG])
             m4 == PushD(m3, m3[THIS])
             m5 == PushD(m4, m4[THAT])
             Same(r, k) == \A a \in Address \ {SP} : a \notin s .. s + k => r[a] = m[a]
  <1>0. /\ s \in Nat /\ s >= 16 /\ s + 5 <= StackTop /\ StackTop < Half
        /\ Half \in Nat /\ StackTop \in Nat
    BY HalfAssumption, LayoutAssumption DEF InStack
  <1>1. \A k \in 0 .. 5 : s + k \in Address /\ InStack(s + k)
    BY <1>0 DEF InStack, Address
  <1>2. /\ LCL \in 1 .. 4 /\ ARG \in 1 .. 4 /\ THIS \in 1 .. 4 /\ THAT \in 1 .. 4 /\ SP = 0
        /\ LCL # ARG
    BY DEF SP, LCL, ARG, THIS, THAT
  <1>3. /\ m1 \in Ram /\ m1[SP] = s + 1 /\ m1[s] = ret /\ Same(m1, 0)
    BY <1>0, <1>1, PushEffect
  <1>4. m1[LCL] = m[LCL] /\ m[LCL] \in Word
    BY <1>0, <1>2, <1>3, Registers DEF Ram
  <1> HIDE DEF m1
  <1>5. /\ m2 \in Ram /\ m2[SP] = s + 2 /\ m2[s + 1] = m[LCL] /\ m2[s] = ret /\ Same(m2, 1)
    <2>1. InStack(m1[SP])
      BY <1>1, <1>3
    <2> QED
      BY <1>0, <1>1, <1>2, <1>3, <1>4, <2>1, PushEffect
  <1>6. m2[ARG] = m[ARG] /\ m[ARG] \in Word
    BY <1>0, <1>2, <1>5, Registers DEF Ram
  <1> HIDE DEF m2
  <1>7. /\ m3 \in Ram /\ m3[SP] = s + 3 /\ m3[s + 2] = m[ARG]
        /\ m3[s + 1] = m[LCL] /\ m3[s] = ret /\ Same(m3, 2)
    <2>1. InStack(m2[SP])
      BY <1>1, <1>5
    <2> QED
      BY <1>0, <1>1, <1>2, <1>5, <1>6, <2>1, PushEffect
  <1>8. m3[THIS] = m[THIS] /\ m[THIS] \in Word
    BY <1>0, <1>2, <1>7, Registers DEF Ram
  <1> HIDE DEF m3
  <1>9. /\ m4 \in Ram /\ m4[SP] = s + 4 /\ m4[s + 3] = m[THIS] /\ m4[s + 2] = m[ARG]
        /\ m4[s + 1] = m[LCL] /\ m4[s] = ret /\ Same(m4, 3)
    <2>1. InStack(m3[SP])
      BY <1>1, <1>7
    <2> QED
      BY <1>0, <1>1, <1>2, <1>7, <1>8, <2>1, PushEffect
  <1>10. m4[THAT] = m[THAT] /\ m[THAT] \in Word
    BY <1>0, <1>2, <1>9, Registers DEF Ram
  <1> HIDE DEF m4
  <1>11. /\ m5 \in Ram /\ m5[SP] = s + 5 /\ m5[s + 4] = m[THAT] /\ m5[s + 3] = m[THIS]
         /\ m5[s + 2] = m[ARG] /\ m5[s + 1] = m[LCL] /\ m5[s] = ret /\ Same(m5, 4)
    <2>1. InStack(m4[SP])
      BY <1>1, <1>9
    <2> QED
      BY <1>0, <1>1, <1>2, <1>9, <1>10, <2>1, PushEffect
  <1> HIDE DEF m5
  <1>12. Neg(Sub(n + 5, m5[SP])) = s - n
    <2>1. n + 5 - (s + 5) = n - s /\ n - s < 0 /\ n - s >= -(2 * Half)
      BY <1>0
    <2>2. Sub(n + 5, s + 5) = n - s + 2 * Half
      BY <2>1, <1>0, WrapNegative DEF Sub
    <2>3. Neg(n - s + 2 * Half) = s - n
      <3>1. -(n - s + 2 * Half) = s - n - 2 * Half /\ s - n - 2 * Half \in Int
        BY <1>0
      <3>2. Wrap(s - n - 2 * Half) = s - n - 2 * Half + 2 * Half
        BY <1>0, <3>1, WrapNegative
      <3> QED
        BY <1>0, <3>1, <3>2 DEF Neg
    <2> QED
      BY <1>11, <2>2, <2>3
  <1> DEFINE m6 == [m5 EXCEPT ![ARG] = s - n]
             r  == [m6 EXCEPT ![LCL] = s + 5]
  <1>13. parse_call(m, n, ret) = r
    <2>1. m6[SP] = s + 5
      BY <1>2, <1>11, Registers DEF Ram
    <2> QED
      BY <1>12, <2>1 DEF parse_call, m1, m2, m3, m4, m5
  <1>14. s - n \in Word /\ s + 5 \in Word
    BY <1>0 DEF Word
  <1>15. r \in Ram /\ r[ARG] = s - n /\ r[LCL] = s + 5
         /\ \A a \in Address \ {LCL, ARG} : r[a] = m5[a]
    BY <1>2, <1>11, <1>14, Registers DEF Ram
  <1> HIDE DEF r, s
  <1>16. /\ \A k \in 0 .. 5 : s + k \in Address \ {LCL, ARG} /\ s \in Address \ {LCL, ARG}
         /\ SP \in Address \ {LCL, ARG}
    BY <1>0, <1>1, <1>2, Registers
  <1> QED
    BY <1>11, <1>13, <1>15, <1>16 DEF s

(* return: the four pointers and the return address come from the five      *)
(* words below LCL, and the result goes where ARG points.                   *)
LEMMA ReturnEffect ==
  ASSUME NEW m \in Ram, InStack(m[SP]), InStack(m[LCL]), InStack(m[ARG]),
         m[ARG] <= m[LCL] - 5, m[LCL] < m[SP]
  PROVE  LET r == parse_return(m)
         IN /\ r \in Ram
            /\ r[SP] = m[ARG] + 1 /\ r[m[ARG]] = m[m[SP] - 1]
            /\ r[THAT] = m[m[LCL] - 1] /\ r[THIS] = m[m[LCL] - 2]
            /\ r[ARG] = m[m[LCL] - 3] /\ r[LCL] = m[m[LCL] - 4]
            /\ r[tmp_ret_register] = m[m[LCL] - 5]
            /\ \A a \in 16 .. Half - 1 : a # m[ARG] => r[a] = m[a]
  <1> DEFINE f  == m[LCL]
             g  == m[ARG]
             m1 == [m EXCEPT ![tmp_register] = f]
             Saved(r, k) == Load(r, Sub(r[tmp_register], k))
             m2 == [m1 EXCEPT ![tmp_ret_register] = Saved(m1, 5)]
             m3 == DecSP(m2)
             m4 == Store(m3, m3[ARG], AtSP(m3))
             m5 == [m4 EXCEPT ![SP] = Add(m4[ARG], 1)]
             m6 == [m5 EXCEPT ![THAT] = Saved(m5, 1)]
             m7 == [m6 EXCEPT ![THIS] = Saved(m6, 2)]
             m8 == [m7 EXCEPT ![ARG] = Saved(m7, 3)]
             m9 == [m8 EXCEPT ![LCL] = Saved(m8, 4)]
             R  == {SP, LCL, ARG, THIS, THAT, tmp_register, tmp_ret_register}
  <1>1. /\ Half \in Nat /\ StackTop \in Nat /\ StackTop < Half
        /\ f \in Nat /\ g \in Nat /\ m[SP] \in Nat
        /\ 16 <= g /\ g <= f - 5 /\ f < m[SP] /\ m[SP] <= StackTop
    BY HalfAssumption, LayoutAssumption DEF InStack
  <1>2. /\ SP = 0 /\ LCL = 1 /\ ARG = 2 /\ THIS = 3 /\ THAT = 4
        /\ tmp_register = 13 /\ tmp_ret_register = 14
        /\ R \subseteq Address
    BY Registers DEF SP, LCL, ARG, THIS, THAT, tmp_register, tmp_ret_register
  <1>3. \A k \in 1 .. 5 : f - k \in Address /\ f - k \notin R /\ f - k >= g
    BY <1>1, <1>2 DEF Address
  <1>4. \A k \in 1 .. 5 : Sub(f, k) = f - k /\ Addr(f - k) = f - k
    <2> TAKE k \in 1 .. 5
    <2>1. f - k \in Address
      BY <1>3
    <2>2. f - k \in Word
      BY <2>1, Registers
    <2> QED
      BY <2>1, <2>2, AddrOfAddress, WrapWord DEF Sub
  <1>5. \A r \in Ram, k \in 1 .. 5 : r[tmp_register] = f => Saved(r, k) = r[f - k]
    BY <1>4 DEF Load
  <1> HIDE DEF Saved
  <1>6. g \in Address /\ g \notin R /\ Addr(g) = g /\ Add(g, 1) = g + 1 /\ g + 1 \in Word
    <2>1. g + 1 \in Word
      BY <1>1 DEF Word
    <2> QED
      BY <2>1, StackAddresses
  <1> HIDE DEF f, g, R
  <1>7. /\ m1 \in Ram /\ m1[tmp_register] = f
        /\ \A a \in Address \ {tmp_register} : m1[a] = m[a]
    <2>1. f \in Word
      BY <1>1 DEF Word
    <2> QED
      BY <2>1, Registers DEF Ram
  <1> HIDE DEF m1
  <1>8. /\ m2 \in Ram /\ m2[tmp_register] = f /\ m2[tmp_ret_register] = m[f - 5]
        /\ \A a \in Address \ {tmp_register, tmp_ret_register} : m2[a] = m[a]
    <2>1. Saved(m1, 5) = m1[f - 5] /\ m1[f - 5] = m[f - 5] /\ m1[f - 5] \in Word
      <3>1. f - 5 \in Address \ {tmp_register} /\ 5 \in 1 .. 5
        BY <1>2, <1>3 DEF R
      <3>2. m1[f - 5] = m[f - 5] /\ m1[f - 5] \in Word
        BY <1>7, <3>1 DEF Ram
      <3> QED
        BY <1>5, <1>7, <3>1, <3>2
    <2> QED
      BY <1>2, <1>7, <2>1, Registers DEF Ram
  <1> HIDE DEF m2
  <1>9. /\ m3 \in Ram /\ AtSP(m3) = m[m[SP] - 1] /\ AtSP(m3) \in Word
        /\ m3[tmp_register] = f /\ m3[tmp_ret_register] = m[f - 5]
        /\ \A a \in Address \ {SP, tmp_register, tmp_ret_register} : m3[a] = m[a]
    <2>1. m2[SP] = m[SP] /\ InStack(m2[SP])
      BY <1>2, <1>8 DEF R
    <2>2. m[SP] - 1 \in Address /\ m[SP] - 1 \notin {tmp_register, tmp_ret_register}
      BY <1>1, <1>2 DEF Address
    <2>3. m2[m[SP] - 1] = m[m[SP] - 1]
      BY <1>8, <2>2
    <2>4. m3 \in Ram
      BY <1>8, <2>1, DecEffect
    <2>5. AtSP(m3) \in Word
      BY <2>4, AtSPType
    <2> QED
      BY <1>2, <1>8, <2>1, <2>3, <2>4, <2>5, DecEffect, Registers
  <1> HIDE DEF m3
  <1>10. m3[ARG] = g
    BY <1>2, <1>9, Registers DEF g
  <1>11. /\ m4 \in Ram /\ m4[g] = m[m[SP] - 1]
         /\ m4[tmp_register] = f /\ m4[tmp_ret_register] = m[f - 5] /\ m4[ARG] = g
         /\ \A a \in Address \ {SP, tmp_register, tmp_ret_register, g} : m4[a] = m[a]
    <2>1. m4 = [m3 EXCEPT ![g] = AtSP(m3)]
      BY <1>6, <1>10 DEF Store
    <2> HIDE DEF m4
    <2> QED
      BY <1>2, <1>6, <1>9, <1>10, <2>1, Registers DEF Ram, R
  <1> HIDE DEF m4
  <1>12. /\ m5 \in Ram /\ m5[g] = m[m[SP] - 1] /\ m5[SP] = g + 1
         /\ m5[tmp_register] = f /\ m5[tmp_ret_register] = m[f - 5]
         /\ \A a \in Address \ {SP, tmp_register, tmp_ret_register, g} : m5[a] = m[a]
    <2>1. m5 = [m4 EXCEPT ![SP] = g + 1]
      BY <1>6, <1>11
    <2> HIDE DEF m5
    <2> QED
      BY <1>2, <1>6, <1>11, <2>1, Registers DEF Ram, R
  <1> HIDE DEF m5
  <1>13. \A k \in 1 .. 4 : m5[f - k] = m[f - k] /\ m[f - k] \in Word
    <2> TAKE k \in 1 .. 4
    <2>1. f - k # g
      BY <1>1 DEF f, g
    <2> QED
      BY <1>1, <1>2, <1>3, <1>12, <2>1 DEF R, Ram
  <1>14. /\ m6 \in Ram /\ m6[THAT] = m[f - 1] /\ m6[tmp_register] = f
         /\ \A a \in Address \ {THAT} : m6[a] = m5[a]
    <2>1. m6 = [m5 EXCEPT ![THAT] = m[f - 1]]
      BY <1>5, <1>12, <1>13, 1 \in 1 .. 5 /\ 1 \in 1 .. 4
    <2> HIDE DEF m6
    <2> QED
      BY <1>2, <1>12, <1>13, <2>1, Registers DEF Ram
  <1> HIDE DEF m6
  <1>15. /\ m7 \in Ram /\ m7[THIS] = m[f - 2] /\ m7[tmp_register] = f
         /\ \A a \in Address \ {THIS} : m7[a] = m6[a]
    <2>1. m6[f - 2] = m[f - 2]
      BY <1>3, <1>13, <1>14 DEF R
    <2>2. m7 = [m6 EXCEPT ![THIS] = m[f - 2]]
      BY <1>5, <1>14, <2>1, 2 \in 1 .. 5
    <2> HIDE DEF m7
    <2> QED
      BY <1>2, <1>13, <1>14, <2>2, Registers DEF Ram
  <1> HIDE DEF m7
  <1>16. /\ m8 \in Ram /\ m8[ARG] = m[f - 3] /\ m8[tmp_register] = f
         /\ \A a \in Address \ {ARG} : m8[a] = m7[a]
    <2>1. m7[f - 3] = m[f - 3]
      BY <1>3, <1>13, <1>14, <1>15 DEF R
    <2>2. m8 = [m7 EXCEPT ![ARG] = m[f - 3]]
      BY <1>5, <1>15, <2>1, 3 \in 1 .. 5
    <2> HIDE DEF m8
    <2> QED
      BY <1>2, <1>13, <1>15, <2>2, Registers DEF Ram
  <1> HIDE DEF m8
  <1>17. /\ m9 \in Ram /\ m9[LCL] = m[f - 4]
         /\ \A a \in Address \ {LCL} : m9[a] = m8[a]
    <2>1. m8[f - 4] = m[f - 4]
      BY <1>3, <1>13, <1>14, <1>15, <1>16 DEF R
    <2>2. m9 = [m8 EXCEPT ![LCL] = m[f - 4]]
      BY <1>5, <1>16, <2>1, 4 \in 1 .. 5
    <2> HIDE DEF m9
    <2> QED
      BY <1>2, <1>13, <1>16, <2>2, Registers DEF Ram
  <1>18. parse_return(m) = m9
    BY DEF parse_return, m1, m2, m3, m4, m5, m6, m7, m8, f, Saved
  <1> HIDE DEF m9
  <1>19. /\ m9[SP] = g + 1 /\ m9[g] = m[m[SP] - 1] /\ m9[THAT] = m[f - 1]
         /\ m9[THIS] = m[f - 2] /\ m9[ARG] = m[f - 3] /\ m9[LCL] = m[f - 4]
         /\ m9[tmp_ret_register] = m[f - 5]
    <2>1. \A a \in Address \ {LCL, ARG, THIS, THAT} : m9[a] = m5[a]
      BY <1>14, <1>15, <1>16, <1>17
    <2> QED
      BY <1>2, <1>6, <1>12, <1>14, <1>15, <1>16, <1>17, <2>1, Registers DEF R
  <1>20. \A a \in 16 .. Half - 1 : a # g => m9[a] = m[a]
    <2> TAKE a \in 16 .. Half - 1
    <2>1. a \in Address /\ a \notin R
      BY <1>1, <1>2 DEF Address, R
    <2> QED
      BY <1>12, <1>14, <1>15, <1>16, <1>17, <2>1 DEF R
  <1> QED
    BY <1>17, <1>18, <1>19, <1>20 DEF f, g

-----------------------------------------------------------------------------
(* Whatever the stack holds, also after a fault, the RAM holds words.      *)

LEMMA PopType ==
  ASSUME NEW m \in Ram, NEW c \in PushPop, c.seg # "constant"
  PROVE  parse_pop(m, c) \in Ram
  <1> DEFINE s == DecSP(set_segment(m, c))
  <1>1. set_segment(m, c) \in Ram
    BY SegmentType, StoreType, Registers DEF set_segment
  <1>2. s \in Ram /\ AtSP(s) \in Word
    <2>1. s \in Ram
      <3>1. 0 \in Word
        BY HalfAssumption DEF Word
      <3> QED
        BY <1>1, <3>1, StackType
    <2> QED
      BY <2>1, AtSPType
  <1>3. s[tmp_register] \in Word
    BY <1>2, Registers DEF Ram
  <1> HIDE DEF s
  <1>4. Store(s, s[tmp_register], AtSP(s)) \in Ram
    BY <1>2, <1>3, StoreType
  <1> QED
    BY <1>4 DEF parse_pop, s

LEMMA FunctionType ==
  ASSUME NEW m \in Ram, NEW k \in 0 .. MaxLocals
  PROVE  parse_function(m, k) \in Ram
  <1>1. k \in Word /\ 0 \in Word
    BY HalfAssumption, LayoutAssumption DEF Word
  <1>2. Add(m[SP], k) \in Word
    BY <1>1, WordOps, Registers DEF Ram
  <1> QED
    BY <1>1, <1>2 DEF parse_function, Ram

LEMMA CallType ==
  ASSUME NEW m \in Ram, NEW n \in 0 .. MaxArgs, NEW ret \in Word
  PROVE  parse_call(m, n, ret) \in Ram
  <1> DEFINE m1 == PushD(m, ret)
             m2 == PushD(m1, m1[LCL])
             m3 == PushD(m2, m2[ARG])
             m4 == PushD(m3, m3[THIS])
             m5 == PushD(m4, m4[THAT])
             m6 == [m5 EXCEPT ![ARG] = Neg(Sub(n + 5, m5[SP]))]
  <1>1. \A r \in Ram, a \in {SP, LCL, ARG, THIS, THAT} : r[a] \in Word
    BY Registers DEF Ram
  <1>2. m1 \in Ram
    BY StackType
  <1> HIDE DEF m1
  <1>3. m2 \in Ram
    BY <1>1, <1>2, StackType
  <1> HIDE DEF m2
  <1>4. m3 \in Ram
    BY <1>1, <1>3, StackType
  <1> HIDE DEF m3
  <1>5. m4 \in Ram
    BY <1>1, <1>4, StackType
  <1> HIDE DEF m4
  <1>6. m5 \in Ram
    BY <1>1, <1>5, StackType
  <1> HIDE DEF m5
  <1>7. Neg(Sub(n + 5, m5[SP])) \in Word
    <2>1. n + 5 \in Word
      BY HalfAssumption, LayoutAssumption DEF Word
    <2>2. Sub(n + 5, m5[SP]) \in Word
      BY <1>1, <1>6, <2>1, WordOps
    <2> QED
      BY <2>2, WordOps
  <1>8. m6 \in Ram
    BY <1>6, <1>7, Registers DEF Ram
  <1> HIDE DEF m6
  <1>9. [m6 EXCEPT ![LCL] = m6[SP]] \in Ram
    BY <1>1, <1>8, Registers DEF Ram
  <1> QED
    BY <1>9 DEF parse_call, m1, m2, m3, m4, m5, m6

LEMMA ReturnType ==
  ASSUME NEW m \in Ram
  PROVE  parse_return(m) \in Ram
  <1> DEFINE Saved(r, k) == Load(r, Sub(r[tmp_register], k))
             m1 == [m EXCEPT ![tmp_register] = m[LCL]]
             m2 == [m1 EXCEPT ![tmp_ret_register] = Saved(m1, 5)]
             m3 == DecSP(m2)
             m4 == Store(m3, m3[ARG], AtSP(m3))
             m5 == [m4 EXCEPT ![SP] = Add(m4[ARG], 1)]
             m6 == [m5 EXCEPT ![THAT] = Saved(m5, 1)]
             m7 == [m6 EXCEPT ![THIS] = Saved(m6, 2)]
             m8 == [m7 EXCEPT ![ARG] = Saved(m7, 3)]
             m9 == [m8 EXCEPT ![LCL] = Saved(m8, 4)]
  <1>1. \A r \in Ram, k \in 1 .. 5 : Saved(r, k) \in Word
    <2> TAKE r \in Ram, k \in 1 .. 5
    <2>1. r[tmp_register] \in Word /\ k \in Word
      BY Registers, HalfAssumption DEF Ram, Word
    <2> QED
      BY <2>1, WordOps, StoreType
  <1>2. {1, 2, 3, 4, 5} \subseteq 1 .. 5
    OBVIOUS
  <1>3. \A r \in Ram, a \in Address, v \in Word : [r EXCEPT ![a] = v] \in Ram /\ r[a] \in Word
    BY DEF Ram
  <1> HIDE DEF Saved
  <1>4. m1 \in Ram
    BY <1>3, Registers
  <1> HIDE DEF m1
  <1>5. m2 \in Ram
    BY <1>1, <1>2, <1>3, <1>4, Registers
  <1> HIDE DEF m2
  <1>6. m3 \in Ram
    BY <1>3, <1>4, <1>5, StackType, Registers
  <1> HIDE DEF m3
  <1>7. m4 \in Ram
    BY <1>3, <1>6, AtSPType, StoreType, Registers
  <1> HIDE DEF m4
  <1>8. m5 \in Ram
    <2>1. 1 \in Word
      BY HalfAssumption DEF Word
    <2> QED
      BY <1>3, <1>7, <2>1, WordOps, Registers
  <1> HIDE DEF m5
  <1>9. m6 \in Ram
    BY <1>1, <1>2, <1>3, <1>8, Registers
  <1> HIDE DEF m6
  <1>10. m7 \in Ram
    BY <1>1, <1>2, <1>3, <1>9, Registers
  <1> HIDE DEF m7
  <1>11. m8 \in Ram
    BY <1>1, <1>2, <1>3, <1>10, Registers
  <1> HIDE DEF m8
  <1>12. m9 \in Ram
    BY <1>1, <1>2, <1>3, <1>11, Registers
  <1> QED
    BY <1>12 DEF parse_return, m1, m2, m3, m4, m5, m6, m7, m8, Saved

-----------------------------------------------------------------------------
(* The inductive invariant                                                 *)

IInv == TypeOK /\ SavedWordsIntact /\ FramesNested

LEMMA RecordFields ==
  ASSUME NEW f \in CallRecord
  PROVE  /\ f.ret \in ReturnPoint /\ f.base \in Int /\ f.argBase \in Int
         /\ f.args \in Nat /\ f.locals \in Nat /\ f.entering \in BOOLEAN
  BY LayoutAssumption DEF CallRecord

(* Where calls resume, and that a jump to such a place finds it.            *)
LEMMA ReturnPoints == ReturnPoint \subseteq Point \ {Boot} /\ NextPoint[Boot] \in ReturnPoint
  BY ProgramAssumption DEF ReturnPoint

LEMMA CallResumes ==
  ASSUME NEW c, CallFun(c), pc \in Point
  PROVE  NextPoint[pc] \in ReturnPoint
  BY DEF CallFun, Command_, ReturnPoint

LEMMA PointsInText == \A a : PointsAt(a) \subseteq Point
  BY DEF PointsAt

LEMMA ReturnFinds ==
  ASSUME NEW p \in ReturnPoint
  PROVE  PointsAt(RomAddr[p]) = {p}
<1>1. {q \in Point : RomAddr[q] = RomAddr[p]} \cap ReturnPoint = {p}
  BY ProgramAssumption, ReturnPoints
<1> QED
  BY <1>1 DEF PointsAt

(* Where the pointers of a running program lie.                             *)
LEMMA Pointers ==
  ASSUME IInv, Running
  PROVE  /\ ram \in Ram /\ pc \in Point \ {Boot}
         /\ Len(calls) \in Nat /\ Len(calls) > 0 /\ Top \in CallRecord
         /\ Top.argBase \in Int /\ Top.base \in Int /\ ram[SP] \in Int
         /\ Top.args \in Nat /\ Top.locals \in Nat
         /\ StackBase <= Top.argBase /\ Top.base = Top.argBase + Top.args + 5
         /\ Top.base + Top.locals <= ram[SP] /\ ram[SP] <= StackTop
         /\ ram[LCL] = Top.base /\ ram[ARG] = Top.argBase
         /\ InStack(ram[SP]) /\ InStack(ram[LCL]) /\ InStack(ram[ARG])
         /\ 16 <= ram[SP] - 5
  <1>1. /\ ram \in Ram /\ pc \in Point \ {Boot}
        /\ calls \in Seq(CallRecord) /\ Len(calls) > 0
    BY DEF IInv, TypeOK, Running, FramesNested, Ram
  <1>2. /\ Len(calls) \in Nat /\ Top \in CallRecord
        /\ Len(calls) \in 1 .. Len(calls)
    BY <1>1, ElementOfSeq DEF Top
  <1>3. /\ Top.argBase \in Int /\ Top.base \in Int
        /\ Top.args \in Nat /\ Top.locals \in Nat
    BY <1>2, RecordFields
  <1>4. ram[SP] \in Int
    BY <1>1, Registers, HalfAssumption DEF Ram, Word
  <1>5. /\ StackBase <= Top.argBase /\ Top.base = Top.argBase + Top.args + 5
        /\ Top.base + Top.locals <= ram[SP] /\ ram[SP] <= StackTop
        /\ ram[LCL] = Top.base /\ ram[ARG] = Top.argBase
    BY <1>2 DEF IInv, FramesNested, Top
  <1>6. /\ InStack(ram[SP]) /\ InStack(ram[LCL]) /\ InStack(ram[ARG])
        /\ 16 <= ram[SP] - 5
    BY <1>3, <1>4, <1>5, LayoutAssumption DEF InStack
  <1> QED
    BY <1>1, <1>2, <1>3, <1>4, <1>5, <1>6

(* Where the frames lie: the saved words of each are in the stack, and      *)
(* those of a waiting function are below the arguments of the running one.  *)
LEMMA Frames ==
  ASSUME IInv, Running, NEW k \in 1 .. Len(calls)
  PROVE  /\ calls[k] \in CallRecord
         /\ calls[k].base \in Int /\ calls[k].argBase \in Int
         /\ calls[k].args \in Nat /\ calls[k].locals \in Nat
         /\ StackBase <= calls[k].argBase
         /\ calls[k].base = calls[k].argBase + calls[k].args + 5
         /\ k # Len(calls) => calls[k].base + calls[k].locals <= Top.argBase
         /\ calls[k].base <= Top.base
         /\ \A d \in 1 .. 5 :
              /\ calls[k].base - d \in StackBase .. Top.base - 1
              /\ k # Len(calls) => calls[k].base - d < Top.argBase
              /\ calls[k].base - d \notin Top.argBase .. Top.argBase + Top.args - 1
  <1>1. calls \in Seq(CallRecord) /\ calls[k] \in CallRecord
    BY ElementOfSeq DEF IInv, TypeOK
  <1>2. /\ calls[k].base \in Int /\ calls[k].argBase \in Int
        /\ calls[k].args \in Nat /\ calls[k].locals \in Nat
    BY <1>1, RecordFields
  <1>3. /\ StackBase <= calls[k].argBase
        /\ calls[k].base = calls[k].argBase + calls[k].args + 5
    BY DEF IInv, FramesNested
  <1>4. k # Len(calls) => calls[k].base + calls[k].locals <= Top.argBase
    <2>1. Len(calls) \in 1 .. Len(calls)
      BY Pointers
    <2>2. k # Len(calls) => k \in 1 .. Len(calls) - 1
      BY <2>1
    <2> QED
      BY <2>1, <2>2 DEF IInv, FramesNested, Top
  <1>5. calls[k].base <= Top.base
    <2>1. CASE k = Len(calls)
      BY <1>2, <2>1 DEF Top
    <2>2. CASE k # Len(calls)
      <3> DEFINE b == calls[k].base
                 n == calls[k].locals
                 B == Top.base
                 G == Top.argBase
                 m == Top.args
      <3>1. /\ b \in Int /\ n \in Nat /\ B \in Int /\ G \in Int /\ m \in Nat
            /\ B = G + m + 5
        BY <1>2, Pointers
      <3>2. b + n <= G
        BY <1>4, <2>2
      <3> HIDE DEF b, n, B, G, m
      <3>3. b <= B
        BY <3>1, <3>2
      <3> QED
        BY <3>3 DEF b, B
    <2> QED
      BY <2>1, <2>2
  <1>6. \A d \in 1 .. 5 :
          /\ calls[k].base - d \in StackBase .. Top.base - 1
          /\ k # Len(calls) => calls[k].base - d < Top.argBase
          /\ calls[k].base - d \notin Top.argBase .. Top.argBase + Top.args - 1
    <2> DEFINE b == calls[k].base
               g == calls[k].argBase
               B == Top.base
               G == Top.argBase
    <2>1. /\ StackBase \in Int /\ b \in Int /\ g \in Int /\ B \in Int /\ G \in Int
          /\ Top.args \in Int /\ G + Top.args = B - 5 /\ b <= B /\ b - 5 >= g
          /\ StackBase <= g /\ (k # Len(calls) => b <= G) /\ (k = Len(calls) => b = B)
      <3>1. /\ StackBase \in Int /\ B \in Int /\ G \in Int
            /\ Top.args \in Int /\ B = G + Top.args + 5
        BY Pointers, LayoutAssumption, SMTT(40)
      <3>2. k = Len(calls) => b = B
        BY DEF Top
      <3>3. b \in Int /\ g \in Int /\ b - 5 >= g /\ StackBase <= g /\ b <= B
        <4> DEFINE n == calls[k].args
        <4>1. b \in Int /\ g \in Int /\ n \in Nat /\ b = g + n + 5
          BY <1>2, <1>3
        <4> HIDE DEF b, g, n
        <4>2. b - 5 >= g
          BY <4>1
        <4> QED
          BY <1>3, <1>5, <4>1, <4>2 DEF b, g
      <3>4. k # Len(calls) => b <= G
        <4> DEFINE l == calls[k].locals
        <4>1. b \in Int /\ l \in Nat /\ (k # Len(calls) => b + l <= G)
          BY <1>2, <1>4
        <4> HIDE DEF b, l, G
        <4> QED
          BY <3>1, <4>1
      <3>5. G + Top.args = B - 5
        <4> DEFINE n == Top.args
        <4> HIDE DEF G, B, n
        <4>1. n \in Int /\ B = G + n + 5
          BY <3>1 DEF n
        <4> QED
          BY <3>1, <4>1 DEF n
      <3> QED
        BY <3>1, <3>2, <3>3, <3>4, <3>5
    <2> HIDE DEF b, g, B, G
    <2>2. \A d \in 1 .. 5 :
            /\ b - d \in StackBase .. B - 1
            /\ k # Len(calls) => b - d < G
            /\ b - d \notin G .. G + Top.args - 1
      BY <2>1
    <2> QED
      BY <2>2 DEF b, B, G
  <1> QED
    BY <1>1, <1>2, <1>3, <1>4, <1>5, <1>6

(* What a step inside the running frame does: it moves SP within the frame *)
(* and writes below the locals only to the arguments.                       *)
StaysInFrame ==
  /\ UNCHANGED calls
  /\ ram'[LCL] = ram[LCL]
  /\ ram'[ARG] = ram[ARG]
  /\ Top.base + Top.locals <= ram'[SP]
  /\ ram'[SP] <= StackTop
  /\ \A a \in StackBase .. Top.base - 1 :
       a \notin Top.argBase .. Top.argBase + Top.args - 1 => ram'[a] = ram[a]

LEMMA StaysSafe ==
  ASSUME IInv, Running, StaysInFrame
  PROVE  SavedWordsIntact' /\ FramesNested'
  <1>1. \A k \in 1 .. Len(calls), d \in 1 .. 5 :
          ram'[calls[k].base - d] = ram[calls[k].base - d]
    BY Frames DEF StaysInFrame
  <1>2. SavedWordsIntact'
    BY <1>1 DEF IInv, SavedWordsIntact, StaysInFrame
  <1>3. FramesNested'
    BY DEF IInv, FramesNested, StaysInFrame, Top
  <1> QED
    BY <1>2, <1>3

-----------------------------------------------------------------------------
(* What a command that is allowed may count on                             *)

LEMMA AllowedOp ==
  ASSUME NEW c, NEW s, Allowed(c, s)
  PROVE  /\ c.op = "push"       => HasSegment(c, s) /\ Room(s, 1)
         /\ c.op = "pop"        => HasSegment(c, s) /\ s.work >= 1
         /\ c.op = "arithmetic" => s.work >= (IF c.fn \in Unary THEN 1 ELSE 2)
         /\ c.op = "if-goto"    => s.work >= 1
         /\ c.op = "function"   => Room(s, c.locals)
         /\ c.op = "call"       => s.work >= c.args /\ Room(s, 5)
         /\ c.op = "return"     => s.work >= 1 /\ ~s.bottom
  BY DEF Allowed

LEMMA CommandAt ==
  ASSUME IInv, ~fault, NEW op, NEW c, Command_(c, op)
  PROVE  Running /\ c \in Command /\ c.op = op /\ (~fault' => Allowed(c, Shape))
  BY ProgramAssumption DEF Command_, Running, IInv, TypeOK

(* The pointer arithmetic of Shape, in the terms of the stack.              *)
LEMMA ShapeBounds ==
  ASSUME IInv, Running
  PROVE  /\ \A n \in Int : Shape.work >= n => Top.base + Top.locals <= ram[SP] - n
         /\ \A n \in Int : Room(Shape, n) => ram[SP] + n <= StackTop
  <1> DEFINE x == ram[SP]
             b == Top.base
             l == Top.locals
  <1>1. x \in Int /\ b \in Int /\ l \in Int /\ StackBase \in Int /\ StackTop \in Int
    BY Pointers, LayoutAssumption
  <1>2. Shape.work = x - b - l /\ Shape.used = x - StackBase
    BY DEF Shape
  <1> HIDE DEF x, b, l
  <1>3. \A n \in Int : Shape.work >= n => b + l <= x - n
    BY <1>1, <1>2
  <1>4. \A n \in Int : Room(Shape, n) => x + n <= StackTop
    BY <1>1, <1>2 DEF Room
  <1> QED
    BY <1>3, <1>4 DEF x, b, l

(* Cells below the running frame's locals are not scratch registers, and    *)
(* are below SP.                                                            *)
LEMMA BelowStack ==
  ASSUME IInv, Running, NEW a \in StackBase .. Top.base - 1
  PROVE  /\ a \in Address /\ a \in 16 .. Half - 1 /\ a < Top.base /\ a < ram[SP]
         /\ a \notin {SP, LCL, ARG, THIS, THAT, tmp_register, tmp_ret_register}
  <1> DEFINE x == ram[SP]
             b == Top.base
             l == Top.locals
  <1>1. /\ x \in Int /\ b \in Int /\ l \in Nat /\ b + l <= x /\ x <= StackTop
        /\ StackBase \in Nat /\ 16 <= StackBase /\ StackTop \in Nat /\ StackTop < Half
        /\ Half \in Nat /\ a \in StackBase .. b - 1
    BY Pointers, LayoutAssumption, HalfAssumption
  <1> HIDE DEF x, b, l
  <1>2. a \in Int /\ 16 <= a /\ a < Half /\ a < b /\ a < x
    BY <1>1
  <1> QED
    BY <1>1, <1>2
       DEF x, b, Address, SP, LCL, ARG, THIS, THAT, tmp_register, tmp_ret_register

-----------------------------------------------------------------------------
(* The commands that stay in the running frame                             *)

LEMMA PushStays ==
  ASSUME IInv, ~fault, ~fault', NEW c, Push(c)
  PROVE  StaysInFrame
  <1>1. /\ Running /\ c \in PushPop /\ Allowed(c, Shape) /\ c.op = "push"
        /\ ram' = parse_push(ram, c) /\ UNCHANGED calls
    BY CommandAt, CommandFields DEF Push
  <1>2. /\ ram \in Ram /\ InStack(ram[SP])
        /\ ram[SP] + 1 <= StackTop /\ ram[SP] \in Int
        /\ Top.base + Top.locals <= ram[SP] /\ Top.base + Top.locals \in Int
    <2>1. Room(Shape, 1)
      BY <1>1, AllowedOp
    <2>2. ram[SP] + 1 <= StackTop
      BY <1>1, <2>1, ShapeBounds
    <2>3. /\ ram \in Ram /\ InStack(ram[SP]) /\ ram[SP] \in Int
          /\ Top.base + Top.locals <= ram[SP] /\ Top.base + Top.locals \in Int
      BY <1>1, Pointers
    <2> QED
      BY <2>2, <2>3
  <1>3. /\ ram'[SP] = ram[SP] + 1
        /\ \A a \in Address \ {SP, tmp_register, ram[SP]} : ram'[a] = ram[a]
    BY <1>1, <1>2, ParsePushEffect
  <1>4. \A a \in StackBase .. Top.base - 1 : ram'[a] = ram[a]
    <2> TAKE a \in StackBase .. Top.base - 1
    <2>1. a \in Address \ {SP, tmp_register} /\ a < ram[SP] /\ a \in Int
      BY <1>1, BelowStack
    <2> QED
      BY <1>2, <1>3, <2>1
  <1>5. ram'[LCL] = ram[LCL] /\ ram'[ARG] = ram[ARG]
    BY <1>2, <1>3, StackAddresses, Registers DEF SP, LCL, ARG, tmp_register
  <1>6. Top.base + Top.locals <= ram'[SP] /\ ram'[SP] <= StackTop
    <2> DEFINE t == Top.base + Top.locals
    <2> HIDE DEF t
    <2>1. t <= ram[SP] + 1
      BY <1>2 DEF t
    <2> QED
      BY <1>2, <1>3, <2>1 DEF t
  <1> QED
    BY <1>1, <1>4, <1>5, <1>6 DEF StaysInFrame

(* Where a pop may write: not SP, LCL or ARG, and no stack word below the   *)
(* locals but the arguments.                                                *)
LEMMA PopTarget ==
  ASSUME IInv, Running, NEW c \in PushPop, c.seg # "constant", HasSegment(c, Shape)
  PROVE  LET t == Addr(SegmentAddress(ram, c))
         IN /\ t \in Address /\ t \notin {SP, LCL, ARG}
            /\ t \notin StackBase .. Top.argBase - 1
            /\ t \in StackBase .. Top.base - 1 => t \in Top.argBase .. Top.argBase + Top.args - 1
  <1> DEFINE i == c.idx
             w == SegmentAddress(ram, c)
             x == ram[SP]
             b == Top.base
             l == Top.locals
             g == Top.argBase
             n == Top.args
  <1>1. /\ x \in Int /\ b \in Int /\ l \in Nat /\ g \in Int /\ n \in Nat
        /\ b = g + n + 5 /\ b + l <= x /\ x <= StackTop /\ StackBase <= g
        /\ StackBase \in Nat /\ 16 <= StackBase /\ StackTop \in Nat /\ StackTop < Half
        /\ Half \in Nat
    BY Pointers, LayoutAssumption, HalfAssumption
  <1>2. /\ ram \in Ram /\ ram[LCL] = b /\ ram[ARG] = g
        /\ ram[THIS] \in Word /\ ram[THAT] \in Word
    BY Pointers, Registers DEF Ram
  <1>3. /\ Shape.locals = l /\ Shape.args = n
        /\ Shape.this = ram[THIS] /\ Shape.that = ram[THAT]
    BY DEF Shape
  <1>4. \A v \in Address : Addr(v) = v
    BY AddrOfAddress
  <1>5. SP = 0 /\ LCL = 1 /\ ARG = 2 /\ base_temp = 5 /\ base_pointer = 3 /\ NTemp = 8
    BY DEF SP, LCL, ARG, base_temp, base_pointer, NTemp
  <1>6. c.seg # "static" => i \in Nat
    BY PushPopFields, LayoutAssumption
  <1> HIDE DEF i, x, b, l, g, n
  (* An address from 3 to 15, in the static area, among the arguments, or   *)
  (* from the locals up.                                                     *)
  <1> DEFINE Fair(a) == \/ a \in 3 .. StackBase - 1
                        \/ a \in g .. g + n - 1
                        \/ a \in b .. Half - 1
  <1>7. \A a : Fair(a) =>
           /\ a \in Address /\ a \notin {SP, LCL, ARG}
           /\ a \notin StackBase .. g - 1
           /\ a \in StackBase .. b - 1 => a \in g .. g + n - 1
    BY <1>1, <1>5 DEF Address
  <1>8. CASE c.seg = "local"
    <2>1. w = Add(i, b) /\ i < l /\ i \in Nat
      BY <1>2, <1>3, <1>6, <1>8 DEF SegmentAddress, HasSegment, i
    <2>2. i + b \in b .. Half - 1 /\ i + b \in Word
      BY <1>1, <2>1 DEF Word
    <2>3. w = i + b
      BY <2>1, <2>2, WrapWord DEF Add
    <2> HIDE DEF w
    <2> QED
      BY <1>4, <1>7, <2>2, <2>3 DEF w, b, g, n
  <1>9. CASE c.seg = "argument"
    <2>1. w = Add(i, g) /\ i < n /\ i \in Nat
      BY <1>2, <1>3, <1>6, <1>9 DEF SegmentAddress, HasSegment, i
    <2>2. i + g \in g .. g + n - 1 /\ i + g \in Word
      BY <1>1, <2>1 DEF Word
    <2>3. w = i + g
      BY <2>1, <2>2, WrapWord DEF Add
    <2> HIDE DEF w
    <2> QED
      BY <1>4, <1>7, <2>2, <2>3 DEF w, b, g, n
  <1>10. CASE c.seg \in {"this", "that"}
    <2>1. PICK y \in {ram[THIS], ram[THAT]} : w = Add(i, y) /\ y + i \in HeapAddr
      BY <1>3, <1>10 DEF SegmentAddress, HasSegment, i
    <2>2. y \in Int /\ i \in Nat
      BY <1>2, <1>6, <1>10, HalfAssumption DEF Word
    <2>3. i + y \in b .. Half - 1 /\ i + y \in Word
      BY <1>1, <2>1, <2>2 DEF Word, HeapAddr
    <2>4. w = i + y
      BY <2>1, <2>3, WrapWord DEF Add
    <2> HIDE DEF w
    <2> QED
      BY <1>4, <1>7, <2>3, <2>4 DEF w, b, g, n
  <1>11. CASE c.seg \in {"temp", "pointer", "static"}
    <2>1. w \in 3 .. StackBase - 1
      <3>1. c.seg = "temp" => w = base_temp + i /\ i < NTemp
        BY DEF SegmentAddress, HasSegment, i
      <3>2. c.seg = "pointer" => w = base_pointer + i /\ i < 2
        BY DEF SegmentAddress, HasSegment, i
      <3>3. c.seg = "static" => w \in 16 .. StackBase - 1
        BY PushPopFields, LayoutAssumption DEF SegmentAddress
      <3> HIDE DEF w
      <3> QED
        BY <1>1, <1>5, <1>6, <1>11, <3>1, <3>2, <3>3
    <2> HIDE DEF w
    <2> QED
      BY <1>4, <1>7, <2>1 DEF w, b, g, n
  <1> QED
    BY <1>8, <1>9, <1>10, <1>11, PushPopFields DEF Segment

LEMMA PopStays ==
  ASSUME IInv, ~fault, ~fault', NEW c, Pop(c)
  PROVE  StaysInFrame
  <1> DEFINE t == Addr(SegmentAddress(ram, c))
  <1>1. /\ Running /\ c \in PushPop /\ Allowed(c, Shape) /\ c.op = "pop"
        /\ ram' = parse_pop(ram, c) /\ UNCHANGED calls
    BY CommandAt, CommandFields DEF Pop
  <1>2. /\ ram \in Ram /\ InStack(ram[SP])
        /\ ram[SP] <= StackTop /\ ram[SP] \in Int /\ StackTop \in Int
        /\ Top.base + Top.locals <= ram[SP] - 1
    <2>1. Shape.work >= 1
      BY <1>1, AllowedOp
    <2>2. Top.base + Top.locals <= ram[SP] - 1
      BY <1>1, <2>1, ShapeBounds
    <2>3. /\ ram \in Ram /\ InStack(ram[SP])
          /\ ram[SP] <= StackTop /\ ram[SP] \in Int
      BY <1>1, Pointers
    <2> QED
      BY <2>2, <2>3, LayoutAssumption
  <1>3. c.seg # "constant" /\ HasSegment(c, Shape)
    BY <1>1, PushPopFields, AllowedOp
  <1>4. /\ t \in Address /\ t \notin {SP, LCL, ARG}
        /\ t \in StackBase .. Top.base - 1 => t \in Top.argBase .. Top.argBase + Top.args - 1
    BY <1>1, <1>3, PopTarget
  <1>5. /\ ram'[SP] = ram[SP] - 1
        /\ \A a \in Address \ {SP, tmp_register, t} : ram'[a] = ram[a]
    BY <1>1, <1>2, <1>3, <1>4, ParsePopEffect
  <1> HIDE DEF t
  <1>6. \A a \in StackBase .. Top.base - 1 :
          a \notin Top.argBase .. Top.argBase + Top.args - 1 => ram'[a] = ram[a]
    <2> TAKE a \in StackBase .. Top.base - 1
    <2>1. a \in Address \ {SP, tmp_register}
      BY <1>1, BelowStack
    <2> QED
      BY <1>4, <1>5, <2>1
  <1>7. ram'[LCL] = ram[LCL] /\ ram'[ARG] = ram[ARG]
    BY <1>4, <1>5, Registers DEF SP, LCL, ARG, tmp_register
  <1>8. Top.base + Top.locals <= ram'[SP] /\ ram'[SP] <= StackTop
    BY <1>2, <1>5
  <1> QED
    BY <1>1, <1>6, <1>7, <1>8 DEF StaysInFrame

LEMMA ArithStays ==
  ASSUME IInv, ~fault, ~fault', NEW c, Arith(c)
  PROVE  StaysInFrame
  <1>1. /\ Running /\ c \in Command /\ Allowed(c, Shape) /\ c.op = "arithmetic"
        /\ ram' = parse_arithmetic(ram, c) /\ UNCHANGED calls
    BY CommandAt DEF Arith
  <1>2. PICK n \in {1, 2} : n = IF c.fn \in Unary THEN 1 ELSE 2
    OBVIOUS
  <1>3. Shape.work >= n
    BY <1>1, <1>2, AllowedOp
  <1>4. /\ ram \in Ram /\ InStack(ram[SP]) /\ ram[SP] \in Int
        /\ ram[SP] <= StackTop /\ 16 <= ram[SP] - 5 /\ StackTop \in Int
        /\ Top.base \in Int /\ Top.locals \in Nat
    BY <1>1, Pointers, LayoutAssumption
  <1>5. Top.base + Top.locals <= ram[SP] - n
    BY <1>1, <1>2, <1>3, ShapeBounds
  <1>6. InStack(ram[SP] - n)
    BY <1>2, <1>4 DEF InStack
  <1>7. /\ ram'[SP] = ram[SP] - n + 1
        /\ \A a \in Address \ {SP, ram[SP] - n} : ram'[a] = ram[a]
    BY <1>1, <1>2, <1>4, <1>6, ArithEffect
  <1> DEFINE x == ram[SP]
             b == Top.base
             l == Top.locals
  <1>8. \A a \in StackBase .. Top.base - 1 : ram'[a] = ram[a]
    <2> TAKE a \in StackBase .. Top.base - 1
    <2>1. a \in Address \ {SP} /\ a < b /\ a \in Int
      BY <1>1, BelowStack
    <2>2. b \in Int /\ l \in Nat /\ b + l <= x - n /\ x - n \in Int
      BY <1>2, <1>4, <1>5
    <2> HIDE DEF b, l
    <2>3. a # x - n
      BY <2>1, <2>2
    <2> QED
      BY <1>7, <2>1, <2>3
  <1>9. ram'[LCL] = ram[LCL] /\ ram'[ARG] = ram[ARG]
    <2>1. LCL # x - n /\ ARG # x - n
      BY <1>2, <1>4 DEF LCL, ARG
    <2> QED
      BY <1>7, <2>1, Registers DEF SP, LCL, ARG
  <1>10. Top.base + Top.locals <= ram'[SP] /\ ram'[SP] <= StackTop
    <2> DEFINE s == b + l
    <2>1. s \in Int /\ s <= x - n
      BY <1>4, <1>5
    <2> HIDE DEF s
    <2> QED
      BY <1>2, <1>4, <1>7, <2>1 DEF s
  <1> QED
    BY <1>1, <1>8, <1>9, <1>10 DEF StaysInFrame

LEMMA IfGotoStays ==
  ASSUME IInv, ~fault, ~fault', NEW c, IfGoto(c)
  PROVE  StaysInFrame
  <1>1. /\ Running /\ Allowed(c, Shape) /\ c.op = "if-goto"
        /\ ram' = DecSP(ram) /\ UNCHANGED calls
    BY CommandAt DEF IfGoto, parse_if
  <1>2. /\ ram \in Ram /\ InStack(ram[SP])
        /\ ram[SP] <= StackTop /\ ram[SP] \in Int /\ StackTop \in Int
        /\ Top.base + Top.locals <= ram[SP] - 1
    <2>1. Shape.work >= 1
      BY <1>1, AllowedOp
    <2>2. Top.base + Top.locals <= ram[SP] - 1
      BY <1>1, <2>1, ShapeBounds
    <2>3. /\ ram \in Ram /\ InStack(ram[SP])
          /\ ram[SP] <= StackTop /\ ram[SP] \in Int
      BY <1>1, Pointers
    <2> QED
      BY <2>2, <2>3, LayoutAssumption
  <1>3. /\ ram'[SP] = ram[SP] - 1
        /\ \A a \in Address \ {SP} : ram'[a] = ram[a]
    BY <1>1, <1>2, DecEffect
  <1>4. \A a \in StackBase .. Top.base - 1 : ram'[a] = ram[a]
    BY <1>1, <1>3, BelowStack
  <1>5. ram'[LCL] = ram[LCL] /\ ram'[ARG] = ram[ARG]
    BY <1>3, Registers DEF SP, LCL, ARG
  <1>6. Top.base + Top.locals <= ram'[SP] /\ ram'[SP] <= StackTop
    BY <1>2, <1>3
  <1> QED
    BY <1>1, <1>4, <1>5, <1>6 DEF StaysInFrame

LEMMA JumpStays ==
  ASSUME IInv, ~fault, ~fault', NEW c, Label(c) \/ Goto(c)
  PROVE  StaysInFrame
  <1>1. Running /\ UNCHANGED <<ram, calls>>
    BY CommandAt DEF Label, Goto
  <1> QED
    BY <1>1, Pointers DEF StaysInFrame

-----------------------------------------------------------------------------
(* The commands that build and remove frames                               *)

(* function f k: the frame is what it was, with k locals.                   *)
LEMMA FunctionSafe ==
  ASSUME IInv, ~fault, ~fault', NEW c, Function_(c)
  PROVE  /\ SavedWordsIntact' /\ FramesNested' /\ Len(calls') = Len(calls)
         /\ \A a \in StackBase .. Top.argBase - 1 : ram'[a] = ram[a]
  <1> DEFINE n == Len(calls)
             k == c.locals
             x == ram[SP]
  <1>1. /\ Running /\ c \in Command /\ Allowed(c, Shape) /\ c.op = "function"
        /\ ram' = parse_function(ram, k)
        /\ calls' = [calls EXCEPT ![n].locals = k, ![n].entering = FALSE]
    BY CommandAt DEF Function_
  <1>2. k \in Nat
    BY <1>1, CommandFields, LayoutAssumption
  <1>3. /\ n \in Nat /\ n > 0 /\ n \in 1 .. n /\ x \in Int /\ ram \in Ram /\ InStack(x)
        /\ calls \in Seq(CallRecord) /\ calls[n] \in CallRecord /\ 16 <= x - 5
    BY <1>1, Pointers DEF Top, IInv, TypeOK
  <1>4. x + k <= StackTop
    BY <1>1, <1>2, AllowedOp, ShapeBounds
  <1>5. /\ ram'[SP] = x + k
        /\ \A a \in Address \ {SP} : ~(x <= a /\ a < x + k) => ram'[a] = ram[a]
    BY <1>1, <1>2, <1>3, <1>4, FunctionEffect
  <1>6. \A a \in StackBase .. Top.base - 1 : ram'[a] = ram[a]
    <2> TAKE a \in StackBase .. Top.base - 1
    <2>1. a \in Address \ {SP} /\ a < x /\ a \in Int
      BY <1>1, BelowStack
    <2> QED
      BY <1>3, <1>5, <2>1
  <1>7. ram'[LCL] = ram[LCL] /\ ram'[ARG] = ram[ARG]
    BY <1>3, <1>5, Registers DEF SP, LCL, ARG
  <1>8. /\ Len(calls') = n
        /\ \A j \in 1 .. n :
             /\ calls'[j].base = calls[j].base /\ calls'[j].argBase = calls[j].argBase
             /\ calls'[j].args = calls[j].args /\ calls'[j].ret = calls[j].ret
             /\ calls'[j].lcl = calls[j].lcl /\ calls'[j].arg = calls[j].arg
             /\ calls'[j].this = calls[j].this /\ calls'[j].that = calls[j].that
             /\ j # n => calls'[j].locals = calls[j].locals
        /\ calls'[n].locals = k
    <2> DEFINE e == [[calls[n] EXCEPT !.locals = k] EXCEPT !.entering = FALSE]
    <2>1. calls' = [calls EXCEPT ![n] = e]
      BY <1>1, <1>3
    <2>2. /\ e.base = calls[n].base /\ e.argBase = calls[n].argBase /\ e.args = calls[n].args
          /\ e.ret = calls[n].ret /\ e.lcl = calls[n].lcl /\ e.arg = calls[n].arg
          /\ e.this = calls[n].this /\ e.that = calls[n].that /\ e.locals = k
          /\ e \in CallRecord
      BY <1>1, <1>3, CommandFields DEF CallRecord
    <2> HIDE DEF e
    <2>3. Len(calls') = n /\ \A j \in 1 .. n : calls'[j] = IF j = n THEN e ELSE calls[j]
      BY <1>3, <2>1, <2>2, ExceptSeq
    <2> QED
      BY <1>3, <2>2, <2>3
  <1>9. SavedWordsIntact'
    <2>1. \A j \in 1 .. n, d \in 1 .. 5 :
            ram'[calls[j].base - d] = ram[calls[j].base - d]
      BY <1>1, <1>6, Frames
    <2> QED
      BY <1>1, <1>8, <2>1 DEF IInv, SavedWordsIntact
  <1>10. Top.base <= x
    <2> DEFINE b == Top.base
               l == Top.locals
    <2>1. b \in Int /\ l \in Nat /\ b + l <= x
      BY <1>1, Pointers
    <2> HIDE DEF b, l
    <2> QED
      BY <1>3, <2>1 DEF b
  <1>11. Top'.base + Top'.locals <= ram'[SP]
    <2> DEFINE b == Top.base
    <2>1. Top'.base = b /\ Top'.locals = k /\ b \in Int
      BY <1>1, <1>3, <1>8, Pointers DEF Top
    <2> HIDE DEF b
    <2> QED
      BY <1>2, <1>3, <1>5, <1>10, <2>1 DEF b
  <1>12. /\ ram'[LCL] = Top'.base /\ ram'[ARG] = Top'.argBase /\ ram'[SP] <= StackTop
    BY <1>1, <1>3, <1>4, <1>5, <1>7, <1>8, Pointers DEF Top
  <1>13. \A i \in 1 .. n :
           /\ StackBase <= calls'[i].argBase
           /\ calls'[i].base = calls'[i].argBase + calls'[i].args + 5
           /\ i > 1 => /\ calls'[i].lcl = calls'[i - 1].base
                       /\ calls'[i].arg = calls'[i - 1].argBase
           /\ \A j \in 1 .. i - 1 : calls'[j].base + calls'[j].locals <= calls'[i].argBase
    <2> TAKE i \in 1 .. n
    <2>1. \A j \in 1 .. i - 1 : j \in 1 .. n /\ j # n
      BY <1>3
    <2>2. i > 1 => i - 1 \in 1 .. n
      BY <1>3
    <2> QED
      BY <1>1, <1>8, <2>1, <2>2 DEF IInv, FramesNested
  <1>14. FramesNested'
    BY <1>3, <1>8, <1>11, <1>12, <1>13 DEF FramesNested
  <1>15. \A a \in StackBase .. Top.argBase - 1 : a \in StackBase .. Top.base - 1
    <2> DEFINE b == Top.base
               g == Top.argBase
               l == Top.args
    <2>1. b \in Int /\ g \in Int /\ l \in Nat /\ b = g + l + 5 /\ StackBase \in Int
      BY <1>1, Pointers, LayoutAssumption
    <2> HIDE DEF b, g, l
    <2>2. \A a \in StackBase .. g - 1 : a \in StackBase .. b - 1
      BY <2>1
    <2> QED
      BY <2>2 DEF b, g
  <1> QED
    BY <1>6, <1>8, <1>9, <1>14, <1>15

(* call f n: the new frame begins with the n words on top of the caller's   *)
(* operand stack, and the caller's frame ends below them.                   *)
LEMMA CallSafe ==
  ASSUME IInv, ~fault, ~fault', NEW c, CallFun(c)
  PROVE  /\ SavedWordsIntact' /\ FramesNested' /\ Len(calls') = Len(calls) + 1
         /\ \A a \in StackBase .. Top.base - 1 : ram'[a] = ram[a]
  <1> DEFINE n == Len(calls)
             k == c.args
             x == ram[SP]
             b == Top.base
             l == Top.locals
             g == Top.argBase
             ret == RomAddr[NextPoint[pc]]
             f == Record(ram, NextPoint[pc], k)
  <1>1. /\ Running /\ c \in Command /\ Allowed(c, Shape) /\ c.op = "call"
        /\ ram' = parse_call(ram, k, ret) /\ calls' = Append(calls, f)
    BY CommandAt DEF CallFun
  <1>2. /\ k \in 0 .. MaxArgs /\ k \in Nat
        /\ ret \in Word /\ NextPoint[pc] \in Point
    <2>1. k \in 0 .. MaxArgs /\ MaxArgs \in Nat
      BY <1>1, CommandFields, LayoutAssumption
    <2>2. NextPoint[pc] \in Point
      BY <1>1, Pointers, ProgramAssumption
    <2>3. ret \in Word
      BY <2>2, Registers, ProgramAssumption
    <2> QED
      BY <2>1, <2>2, <2>3
  <1>3. /\ n \in Nat /\ n > 0 /\ x \in Int /\ ram \in Ram /\ InStack(x)
        /\ calls \in Seq(CallRecord) /\ b \in Int /\ l \in Nat /\ g \in Int
        /\ ram[LCL] = b /\ ram[ARG] = g /\ StackBase \in Nat /\ 16 <= StackBase
        /\ calls[n].base = b /\ calls[n].locals = l /\ calls[n].argBase = g
        /\ b + l <= x
    BY <1>1, Pointers, LayoutAssumption DEF Top, IInv, TypeOK
  <1>4. StackBase <= b
    <2> DEFINE a == Top.args
    <2>1. a \in Nat /\ b = g + a + 5 /\ StackBase <= g
      BY <1>1, Pointers
    <2> HIDE DEF a, b, g
    <2> QED
      BY <1>3, <2>1
  <1>5. x + 5 <= StackTop /\ b + l <= x - k
    BY <1>1, <1>2, AllowedOp, ShapeBounds
  <1>6. f \in CallRecord
    <2>0. NextPoint[pc] \in ReturnPoint
      BY <1>1, Pointers, CallResumes
    <2>1. ram[LCL] \in Word /\ ram[ARG] \in Word /\ ram[THIS] \in Word /\ ram[THAT] \in Word
      BY <1>3, Registers DEF Ram
    <2>2. 0 \in 0 .. MaxLocals /\ x - k \in Int /\ x + 5 \in Int
      BY <1>2, <1>3, LayoutAssumption, SMTT(40)
    <2> QED
      BY <1>2, <2>0, <2>1, <2>2 DEF Record, CallRecord
  <1>7. /\ f.ret = NextPoint[pc] /\ f.lcl = b /\ f.arg = g
        /\ f.this = ram[THIS] /\ f.that = ram[THAT] /\ f.argBase = x - k
        /\ f.base = x + 5 /\ f.args = k /\ f.locals = 0
    BY <1>3 DEF Record
  <1>8. /\ Len(calls') = n + 1 /\ calls'[n + 1] = f
        /\ \A j \in 1 .. n : calls'[j] = calls[j]
    BY <1>1, <1>3, <1>6, AppendProperties
  <1>9. \A a \in StackBase .. b - 1 : a \in Address \ {SP, LCL, ARG} /\ a < b /\ a \in Int
    BY <1>1, BelowStack
  <1>10. \A j \in 1 .. n :
           /\ calls[j].base \in Int /\ calls[j].locals \in Nat /\ calls[j].argBase \in Int
           /\ calls[j].args \in Nat /\ StackBase <= calls[j].argBase
           /\ calls[j].base = calls[j].argBase + calls[j].args + 5
           /\ j # n => calls[j].base + calls[j].locals <= g
           /\ \A d \in 1 .. 5 : calls[j].base - d \in StackBase .. b - 1
    BY <1>1, Frames
  <1> HIDE DEF f, b, l, g, x, k, ret
  <1>11. x \in Nat /\ 16 <= x /\ StackTop \in Int /\ StackTop < Half /\ Half \in Int
         /\ 0 < x - k /\ StackBase <= x - k
    BY <1>2, <1>3, <1>4, <1>5, LayoutAssumption, HalfAssumption DEF InStack
  <1>12. /\ ram'[SP] = x + 5 /\ ram'[LCL] = x + 5 /\ ram'[ARG] = x - k
         /\ ram'[x] = ret
         /\ ram'[x + 1] = b /\ ram'[x + 2] = g
         /\ ram'[x + 3] = ram[THIS] /\ ram'[x + 4] = ram[THAT]
         /\ \A a \in Address \ {SP, LCL, ARG} : a \notin x .. x + 4 => ram'[a] = ram[a]
    <2>1. /\ ram' = parse_call(ram, k, ret) /\ ram \in Ram /\ k \in Nat /\ ret \in Word
          /\ InStack(ram[SP]) /\ ram[SP] + 5 <= StackTop /\ 0 < ram[SP] - k
      BY <1>1, <1>2, <1>3, <1>5, <1>11 DEF x, k, ret
    <2> HIDE DEF x
    <2>2. /\ ram'[SP] = ram[SP] + 5 /\ ram'[LCL] = ram[SP] + 5 /\ ram'[ARG] = ram[SP] - k
          /\ ram'[ram[SP]] = ret
          /\ ram'[ram[SP] + 1] = ram[LCL] /\ ram'[ram[SP] + 2] = ram[ARG]
          /\ ram'[ram[SP] + 3] = ram[THIS] /\ ram'[ram[SP] + 4] = ram[THAT]
          /\ \A a \in Address \ {SP, LCL, ARG} :
               a \notin ram[SP] .. ram[SP] + 4 => ram'[a] = ram[a]
      BY <2>1, CallEffect
    <2> QED
      BY <1>3, <2>2 DEF x
  <1>13. \A a \in StackBase .. b - 1 : ram'[a] = ram[a]
    <2> TAKE a \in StackBase .. b - 1
    <2>1. a < x
      BY <1>3, <1>9
    <2> QED
      BY <1>9, <1>11, <1>12, <2>1
  <1>14. SavedWordsIntact'
    <2>1. \A j \in 1 .. n, d \in 1 .. 5 :
            ram'[calls[j].base - d] = ram[calls[j].base - d]
      BY <1>10, <1>13
    <2>2. /\ f.base - 5 = x /\ f.base - 4 = x + 1 /\ f.base - 3 = x + 2
          /\ f.base - 2 = x + 3 /\ f.base - 1 = x + 4
      BY <1>7, <1>11
    <2>3. /\ ram'[f.base - 5] = RomAddr[f.ret] /\ ram'[f.base - 4] = f.lcl
          /\ ram'[f.base - 3] = f.arg /\ ram'[f.base - 2] = f.this
          /\ ram'[f.base - 1] = f.that
      BY <1>7, <1>12, <2>2 DEF ret
    <2>4. \A j \in 1 .. n + 1 : j = n + 1 \/ j \in 1 .. n
      BY <1>3
    <2> QED
      BY <1>1, <1>8, <2>1, <2>3, <2>4 DEF IInv, SavedWordsIntact
  <1>15. /\ Top' = f /\ Len(calls') > 0 /\ ram'[LCL] = Top'.base /\ ram'[ARG] = Top'.argBase
         /\ Top'.base + Top'.locals <= ram'[SP] /\ ram'[SP] <= StackTop
    <2>1. Top' = f
      BY <1>8 DEF Top
    <2>2. x + 5 + 0 <= ram'[SP]
      BY <1>11, <1>12
    <2> QED
      BY <1>3, <1>5, <1>7, <1>8, <1>12, <2>1, <2>2
  <1>16. \A j \in 1 .. n : calls[j].base + calls[j].locals <= x - k
    <2> TAKE j \in 1 .. n
    <2> DEFINE e == calls[j].base + calls[j].locals
    <2>1. e \in Int /\ (j # n => e <= g) /\ (j = n => e = b + l) /\ g <= b
      <3>1. g <= b
        <4> DEFINE a == Top.args
        <4>1. a \in Nat /\ b = g + a + 5
          BY <1>1, Pointers DEF b, g
        <4> HIDE DEF a
        <4> QED
          BY <1>3, <4>1
      <3>2. e \in Int
        <4> DEFINE p == calls[j].base
                   q == calls[j].locals
        <4>1. p \in Int /\ q \in Nat
          BY <1>10
        <4> HIDE DEF p, q
        <4>2. p + q \in Int
          BY <4>1
        <4> QED
          BY <4>2 DEF p, q
      <3> QED
        BY <1>3, <1>10, <3>1, <3>2
    <2> HIDE DEF e
    <2>2. e <= x - k
      BY <1>2, <1>3, <1>5, <2>1
    <2> QED
      BY <2>2 DEF e
  <1>17. \A i \in 1 .. n + 1 :
           /\ StackBase <= calls'[i].argBase
           /\ calls'[i].base = calls'[i].argBase + calls'[i].args + 5
           /\ i > 1 => /\ calls'[i].lcl = calls'[i - 1].base
                       /\ calls'[i].arg = calls'[i - 1].argBase
           /\ \A j \in 1 .. i - 1 : calls'[j].base + calls'[j].locals <= calls'[i].argBase
    <2> TAKE i \in 1 .. n + 1
    <2>1. CASE i = n + 1
      <3>1. i - 1 = n /\ n \in 1 .. n /\ 1 .. i - 1 = 1 .. n
        BY <1>3, <2>1
      <3>2. calls'[i] = f /\ calls'[i - 1] = calls[n]
        BY <1>8, <2>1, <3>1
      <3>3. /\ StackBase <= f.argBase
            /\ f.base = f.argBase + f.args + 5
        <4>1. x + 5 = x - k + k + 5
          BY <1>2, <1>3
        <4> QED
          BY <1>7, <1>11, <4>1
      <3>4. f.lcl = calls[n].base /\ f.arg = calls[n].argBase
        BY <1>7 DEF b, g, n, Top
      <3>5. \A j \in 1 .. i - 1 : calls'[j].base + calls'[j].locals <= f.argBase
        BY <1>7, <1>8, <1>16, <3>1
      <3> QED
        BY <3>2, <3>3, <3>4, <3>5
    <2>2. CASE i \in 1 .. n
      <3>1. \A j \in 1 .. i - 1 : j \in 1 .. n
        BY <1>3, <2>2
      <3>2. i > 1 => i - 1 \in 1 .. n
        BY <1>3, <2>2
      <3>3. /\ calls'[i] = calls[i]
            /\ i > 1 => calls'[i - 1] = calls[i - 1]
            /\ \A j \in 1 .. i - 1 : calls'[j] = calls[j]
        BY <1>8, <2>2, <3>1, <3>2
      <3>4. /\ StackBase <= calls[i].argBase
            /\ calls[i].base = calls[i].argBase + calls[i].args + 5
            /\ i > 1 => /\ calls[i].lcl = calls[i - 1].base
                        /\ calls[i].arg = calls[i - 1].argBase
            /\ \A j \in 1 .. i - 1 : calls[j].base + calls[j].locals <= calls[i].argBase
        BY <1>1, <2>2 DEF IInv, FramesNested
      <3>5. /\ StackBase <= calls'[i].argBase
            /\ calls'[i].base = calls'[i].argBase + calls'[i].args + 5
        BY <3>3, <3>4
      <3>6. i > 1 => /\ calls'[i].lcl = calls'[i - 1].base
                     /\ calls'[i].arg = calls'[i - 1].argBase
        BY <3>3, <3>4
      <3>7. \A j \in 1 .. i - 1 : calls'[j].base + calls'[j].locals <= calls'[i].argBase
        BY <3>3, <3>4
      <3> QED
        BY <3>5, <3>6, <3>7
    <2> QED
      BY <1>3, <2>1, <2>2
  <1>18. FramesNested'
    BY <1>8, <1>15, <1>17 DEF FramesNested
  <1> QED
    BY <1>8, <1>13, <1>14, <1>18 DEF b

(* return: the caller's frame is the running one again, with the result on  *)
(* its operand stack where the arguments were.                              *)
LEMMA ReturnSafe ==
  ASSUME IInv, ~fault, ~fault', NEW c, Return(c)
  PROVE  /\ SavedWordsIntact' /\ FramesNested' /\ Len(calls') = Len(calls) - 1
         /\ \A a \in StackBase .. Top.argBase - 1 : ram'[a] = ram[a]
         /\ pc' = Top.ret
         /\ ram'[LCL] = Top.lcl /\ ram'[ARG] = Top.arg
         /\ ram'[THIS] = Top.this /\ ram'[THAT] = Top.that
         /\ ram'[SP] = Top.argBase + 1
         /\ ram'[Top.argBase] = ram[ram[SP] - 1]
  <1> DEFINE n == Len(calls)
             x == ram[SP]
             b == Top.base
             l == Top.locals
             g == Top.argBase
             k == Top.args
  <1>1. /\ Running /\ c \in Command /\ Allowed(c, Shape) /\ c.op = "return"
        /\ ram' = parse_return(ram) /\ calls' = SubSeq(calls, 1, n - 1)
        /\ pc' \in PointsAt(ram'[tmp_ret_register])
    BY CommandAt DEF Return
  <1>2. /\ n \in Nat /\ n > 0 /\ n \in 1 .. n /\ x \in Int /\ ram \in Ram /\ InStack(x)
        /\ InStack(ram[LCL]) /\ InStack(ram[ARG])
        /\ calls \in Seq(CallRecord) /\ b \in Int /\ l \in Nat /\ g \in Int /\ k \in Nat
        /\ ram[LCL] = b /\ ram[ARG] = g /\ StackBase \in Nat /\ 16 <= StackBase
        /\ b = g + k + 5 /\ StackBase <= g /\ x <= StackTop
        /\ Top = calls[n] /\ Top \in CallRecord
    BY <1>1, Pointers, LayoutAssumption DEF Top, IInv, TypeOK
  <1>3. n > 1 /\ b + l <= x - 1
    <2>1. ~Shape.bottom /\ Shape.work >= 1
      BY <1>1, AllowedOp
    <2>2. n # 1
      BY <2>1 DEF Shape
    <2>3. b + l <= x - 1
      BY <1>1, <2>1, ShapeBounds
    <2>4. n > 1
      <3> HIDE DEF n
      <3> QED
        BY <1>2, <2>2
    <2> QED
      BY <2>3, <2>4
  <1>4. /\ ram[b - 5] = RomAddr[Top.ret] /\ ram[b - 4] = Top.lcl /\ ram[b - 3] = Top.arg
        /\ ram[b - 2] = Top.this /\ ram[b - 1] = Top.that
    BY <1>1, <1>2 DEF IInv, SavedWordsIntact
  <1>5. /\ Top.lcl = calls[n - 1].base /\ Top.arg = calls[n - 1].argBase
        /\ Top.ret \in ReturnPoint
    BY <1>1, <1>2, <1>3, RecordFields DEF IInv, FramesNested
  <1>6. /\ Len(calls') = n - 1
        /\ \A j \in 1 .. n - 1 : calls'[j] = calls[j]
    <2>1. \A j \in 1 .. n - 1 : calls[j] \in CallRecord
      BY <1>2, ElementOfSeq
    <2> QED
      BY <1>1, <1>2, <1>3, <2>1, SubSeqProperties
  <1>7. \A j \in 1 .. n - 1 :
          /\ calls[j].base \in Int /\ calls[j].locals \in Nat
          /\ calls[j].base + calls[j].locals <= g
          /\ \A d \in 1 .. 5 :
               /\ calls[j].base - d \in StackBase .. b - 1
               /\ calls[j].base - d < g
    BY <1>1, <1>2, Frames
  <1>8. \A a \in StackBase .. g - 1 : a \in 16 .. Half - 1 /\ a # g
    <2>1. \A a \in StackBase .. b - 1 : a \in 16 .. Half - 1
      BY <1>1, BelowStack
    <2>2. \A a \in StackBase .. g - 1 : a \in StackBase .. b - 1 /\ a # g
      <3>1. g \in Int /\ k \in Nat /\ b = g + k + 5 /\ StackBase \in Nat
        BY <1>2
      <3> HIDE DEF g, b, k
      <3> QED
        BY ONLY <3>1
    <2> QED
      BY <2>1, <2>2
  <1>9. g <= b - 5 /\ b < x /\ g + 1 <= StackTop /\ g \in Nat
    <2> HIDE DEF g, b, k, l, x
    <2> QED
      BY <1>2, <1>3, LayoutAssumption
  <1>10. /\ ram'[SP] = g + 1 /\ ram'[g] = ram[x - 1]
         /\ ram'[THAT] = ram[b - 1] /\ ram'[THIS] = ram[b - 2]
         /\ ram'[ARG] = ram[b - 3] /\ ram'[LCL] = ram[b - 4]
         /\ ram'[tmp_ret_register] = ram[b - 5]
         /\ \A a \in 16 .. Half - 1 : a # g => ram'[a] = ram[a]
    <2>1. /\ ram[ARG] <= ram[LCL] - 5 /\ ram[LCL] < ram[SP]
      BY <1>2, <1>9
    <2>2. /\ ram \in Ram /\ InStack(ram[SP]) /\ InStack(ram[LCL]) /\ InStack(ram[ARG])
          /\ ram[LCL] = b /\ ram[ARG] = g /\ ram' = parse_return(ram)
      BY <1>1, <1>2
    <2> HIDE DEF b, g, k, n, l, x
    <2>3. LET r == parse_return(ram)
          IN /\ r[SP] = ram[ARG] + 1 /\ r[ram[ARG]] = ram[ram[SP] - 1]
             /\ r[THAT] = ram[ram[LCL] - 1] /\ r[THIS] = ram[ram[LCL] - 2]
             /\ r[ARG] = ram[ram[LCL] - 3] /\ r[LCL] = ram[ram[LCL] - 4]
             /\ r[tmp_ret_register] = ram[ram[LCL] - 5]
             /\ \A a \in 16 .. Half - 1 : a # ram[ARG] => r[a] = ram[a]
      BY <2>1, <2>2, ReturnEffect
    <2> QED
      BY <2>2, <2>3 DEF x
  <1>11. \A a \in StackBase .. g - 1 : ram'[a] = ram[a]
    BY <1>8, <1>10
  <1>12. pc' = Top.ret
    <2>1. ram'[tmp_ret_register] = RomAddr[Top.ret]
      BY <1>4, <1>10
    <2> QED
      BY <1>1, <1>5, <2>1, ReturnFinds
  <1>13. SavedWordsIntact'
    <2>1. \A j \in 1 .. n - 1, d \in 1 .. 5 :
            ram'[calls[j].base - d] = ram[calls[j].base - d]
      <3> TAKE j \in 1 .. n - 1, d \in 1 .. 5
      <3> DEFINE a == calls[j].base - d
      <3>1. a \in StackBase .. b - 1 /\ a < g
        BY <1>7
      <3> HIDE DEF a, g, b
      <3>2. a \in StackBase .. g - 1
        BY <1>2, <3>1
      <3> QED
        BY <1>11, <3>2 DEF a
    <2>2. \A j \in 1 .. n - 1 : j \in 1 .. n
      BY <1>2
    <2> QED
      BY <1>1, <1>6, <2>1, <2>2 DEF IInv, SavedWordsIntact
  <1>14. /\ Len(calls') > 0 /\ Top' = calls[n - 1]
         /\ ram'[LCL] = Top'.base /\ ram'[ARG] = Top'.argBase
         /\ Top'.base + Top'.locals <= ram'[SP] /\ ram'[SP] <= StackTop
    <2>1. Top' = calls[n - 1] /\ n - 1 \in 1 .. n - 1
      <3>1. n - 1 \in 1 .. n - 1
        <4> HIDE DEF n
        <4> QED
          BY <1>2, <1>3
      <3>2. Top' = calls'[n - 1]
        BY <1>6 DEF Top
      <3> QED
        BY <1>6, <3>1, <3>2
    <2>2. calls[n - 1].base + calls[n - 1].locals <= g + 1
      <3> DEFINE p == calls[n - 1].base
                 q == calls[n - 1].locals
      <3>1. p \in Int /\ q \in Nat /\ p + q <= g
        BY <1>7, <2>1
      <3> HIDE DEF p, q, g
      <3>2. p + q <= g + 1
        BY <1>9, <3>1
      <3> QED
        BY <3>2 DEF p, q
    <2> QED
      BY <1>2, <1>3, <1>4, <1>5, <1>6, <1>9, <1>10, <2>1, <2>2
  <1>15. \A i \in 1 .. n - 1 :
           /\ StackBase <= calls'[i].argBase
           /\ calls'[i].base = calls'[i].argBase + calls'[i].args + 5
           /\ i > 1 => /\ calls'[i].lcl = calls'[i - 1].base
                       /\ calls'[i].arg = calls'[i - 1].argBase
           /\ \A j \in 1 .. i - 1 : calls'[j].base + calls'[j].locals <= calls'[i].argBase
    <2> TAKE i \in 1 .. n - 1
    <2>1. i \in 1 .. n /\ (i > 1 => i - 1 \in 1 .. n - 1) /\ \A j \in 1 .. i - 1 : j \in 1 .. n - 1
      BY <1>2
    <2> QED
      BY <1>1, <1>6, <2>1 DEF IInv, FramesNested
  <1>16. FramesNested'
    BY <1>6, <1>14, <1>15 DEF FramesNested
  <1> QED
    BY <1>4, <1>6, <1>10, <1>11, <1>12, <1>13, <1>16

(* The bootstrap builds the frame of Sys.init at the bottom of the stack.   *)
LEMMA StartSafe ==
  ASSUME TypeOK, ~fault, Start
  PROVE  TypeOK' /\ SavedWordsIntact' /\ FramesNested'
  <1> DEFINE m == [ram EXCEPT ![SP] = StackBase]
             p == NextPoint[Boot]
             ret == RomAddr[p]
             f == Record(m, p, 0)
             x == StackBase
  <1>1. /\ ram \in Ram /\ pc' = SysInit /\ calls' = <<f>> /\ fault' = fault
        /\ ram' = parse_call(m, 0, ret)
    BY DEF TypeOK, Start, bootstrap, Ram
  <1>2. /\ x \in Nat /\ 16 <= x /\ x + 5 <= StackTop /\ StackTop \in Nat
        /\ StackTop < Half /\ Half \in Nat /\ x \in Word /\ 0 \in 0 .. MaxLocals
        /\ 0 \in 0 .. MaxArgs
    BY LayoutAssumption, HalfAssumption DEF Word
  <1>3. p \in ReturnPoint /\ ret \in Word /\ SysInit \in Point
    BY ProgramAssumption, ReturnPoints, Registers
  <1>4. /\ m \in Ram /\ m[SP] = x
        /\ m[LCL] \in Word /\ m[ARG] \in Word /\ m[THIS] \in Word /\ m[THAT] \in Word
    BY <1>1, <1>2, Registers DEF Ram
  <1> HIDE DEF m
  <1>5. /\ ram' \in Ram
        /\ ram'[SP] = x + 5 /\ ram'[LCL] = x + 5 /\ ram'[ARG] = x - 0
        /\ ram'[x] = ret
        /\ ram'[x + 1] = m[LCL] /\ ram'[x + 2] = m[ARG]
        /\ ram'[x + 3] = m[THIS] /\ ram'[x + 4] = m[THAT]
    <2>1. InStack(m[SP]) /\ m[SP] + 5 <= StackTop /\ 0 < m[SP] - 0 /\ 0 \in Nat
      BY <1>2, <1>4 DEF InStack
    <2> HIDE DEF x, ret
    <2> QED
      BY <1>1, <1>3, <1>4, <2>1, CallEffect
  <1>6. /\ f.ret = p /\ f.lcl = m[LCL] /\ f.arg = m[ARG]
        /\ f.this = m[THIS] /\ f.that = m[THAT] /\ f.argBase = x - 0
        /\ f.base = x + 5 /\ f.args = 0 /\ f.locals = 0
    BY <1>4 DEF Record
  <1>7. f \in CallRecord
    <2>1. x - 0 \in Int /\ x + 5 \in Int
      BY <1>2
    <2> QED
      BY <1>2, <1>3, <1>4, <2>1 DEF Record, CallRecord
  <1> HIDE DEF f
  <1>8. calls' \in Seq(CallRecord) /\ Len(calls') = 1 /\ calls'[1] = f
    BY <1>1, <1>7
  <1>9. TypeOK'
    BY <1>1, <1>3, <1>5, <1>8 DEF TypeOK, Ram
  <1>10. SavedWordsIntact'
    <2>1. /\ f.base - 5 = x /\ f.base - 4 = x + 1 /\ f.base - 3 = x + 2
          /\ f.base - 2 = x + 3 /\ f.base - 1 = x + 4
      BY <1>2, <1>6
    <2> QED
      BY <1>5, <1>6, <1>8, <2>1 DEF SavedWordsIntact
  <1>11. FramesNested'
    <2>1. Top' = f
      BY <1>8 DEF Top
    <2>2. \A k \in 1 .. 1 : k = 1 /\ ~(k > 1) /\ 1 .. k - 1 = {}
      OBVIOUS
    <2>3. x + 5 + 0 <= x + 5 /\ x <= x - 0 /\ x + 5 = x - 0 + 0 + 5
      BY <1>2
    <2> QED
      BY <1>2, <1>5, <1>6, <1>8, <2>1, <2>2, <2>3 DEF FramesNested
  <1> QED
    BY <1>9, <1>10, <1>11

-----------------------------------------------------------------------------
(* The invariant holds initially and is preserved                          *)

LEMMA StepCase ==
  ASSUME NEW c, Push(c) \/ Pop(c) \/ Arith(c) \/ Label(c) \/ Goto(c) \/ IfGoto(c)
                  \/ Function_(c) \/ CallFun(c) \/ Return(c),
         IInv, ~fault
  PROVE  TypeOK'
  <1>1. /\ c \in Command /\ Running /\ ram \in Ram /\ pc \in Point /\ calls \in Seq(CallRecord)
        /\ InStack(ram[SP]) /\ 16 <= ram[SP] - 5 /\ ram[SP] \in Int /\ ram[SP] <= StackTop
        /\ StackTop \in Int /\ Len(calls) \in 1 .. Len(calls) /\ Top \in CallRecord
        /\ fault' \in BOOLEAN
    <2>1. Running /\ c \in Command
      BY CommandAt DEF Push, Pop, Arith, Label, Goto, IfGoto, Function_, CallFun, Return
    <2>2. fault' \in BOOLEAN
      BY DEF Command_, Push, Pop, Arith, Label, Goto, IfGoto, Function_, CallFun, Return
    <2>3. /\ ram \in Ram /\ InStack(ram[SP]) /\ 16 <= ram[SP] - 5 /\ ram[SP] \in Int /\ ram[SP] <= StackTop
          /\ Len(calls) \in Nat /\ Len(calls) > 0 /\ Top \in CallRecord
      BY <2>1, Pointers
    <2>4. pc \in Point /\ calls \in Seq(CallRecord)
      BY DEF IInv, TypeOK
    <2>5. Len(calls) \in 1 .. Len(calls)
      <3> DEFINE n == Len(calls)
      <3>1. n \in Nat /\ n > 0
        BY <2>3
      <3> HIDE DEF n
      <3>2. n \in 1 .. n
        BY <3>1
      <3> QED
        BY <3>2 DEF n
    <2>6. StackTop \in Int
      BY LayoutAssumption
    <2> QED
      BY ONLY <2>1, <2>2, <2>3, <2>4, <2>5, <2>6
  <1>2. NextPoint[pc] \in Point /\ RomAddr[NextPoint[pc]] \in Word
    BY <1>1, ProgramAssumption, Registers
  <1>3. CASE Push(c)
    <2>1. c \in PushPop
      BY <1>1, <1>3, CommandFields DEF Push, Command_
    <2>2. ram' \in Ram
      BY <1>1, <1>3, <2>1, ParsePushEffect DEF Push
    <2> QED
      BY <1>1, <1>2, <1>3, <2>2 DEF Push, TypeOK, Ram
  <1>4. CASE Pop(c)
    <2>1. c \in PushPop /\ c.seg # "constant"
      BY <1>1, <1>4, CommandFields, PushPopFields DEF Pop, Command_
    <2>2. ram' \in Ram
      BY <1>1, <1>4, <2>1, PopType DEF Pop
    <2> QED
      BY <1>1, <1>2, <1>4, <2>2 DEF Pop, TypeOK, Ram
  <1>5. CASE Arith(c)
    <2>1. PICK n \in {1, 2} : n = IF c.fn \in Unary THEN 1 ELSE 2
      OBVIOUS
    <2>2. InStack(ram[SP] - n)
      BY <1>1, <2>1 DEF InStack
    <2>3. ram' \in Ram
      BY <1>1, <1>5, <2>1, <2>2, ArithEffect DEF Arith, Command_
    <2> QED
      BY <1>1, <1>2, <1>5, <2>3 DEF Arith, TypeOK, Ram
  <1>6. CASE Label(c) \/ Goto(c)
    <2>1. c.op = "goto" => c.to \in Point
      BY <1>1, CommandFields
    <2> QED
      BY <1>1, <1>2, <1>6, <2>1 DEF Label, Goto, Command_, TypeOK, Ram
  <1>7. CASE IfGoto(c)
    <2>1. c.to \in Point
      BY <1>1, <1>7, CommandFields DEF IfGoto, Command_
    <2>2. ram' \in Ram
      BY <1>1, <1>7, DecEffect DEF IfGoto, parse_if
    <2> QED
      BY <1>1, <1>2, <1>7, <2>1, <2>2 DEF IfGoto, TypeOK, Ram
  <1>8. CASE Function_(c)
    <2> DEFINE n == Len(calls)
               e == [[calls[n] EXCEPT !.locals = c.locals] EXCEPT !.entering = FALSE]
    <2>1. c.locals \in 0 .. MaxLocals
      BY <1>1, <1>8, CommandFields DEF Function_, Command_
    <2>2. ram' \in Ram
      BY <1>1, <1>8, <2>1, FunctionType DEF Function_
    <2>3. calls' = [calls EXCEPT ![n] = e]
      BY <1>1, <1>8 DEF Function_
    <2>4. e \in CallRecord
      BY <1>1, <2>1 DEF Top, CallRecord
    <2> HIDE DEF e
    <2>5. calls' \in Seq(CallRecord)
      BY <1>1, <2>3, <2>4, ExceptSeq
    <2> QED
      BY <1>1, <1>2, <1>8, <2>2, <2>5 DEF Function_, TypeOK, Ram
  <1>9. CASE CallFun(c)
    <2> DEFINE f == Record(ram, NextPoint[pc], c.args)
    <2>1. c.args \in 0 .. MaxArgs /\ c.to \in Point /\ 0 \in 0 .. MaxLocals
      BY <1>1, <1>9, CommandFields, LayoutAssumption DEF CallFun, Command_
    <2>2. ram' \in Ram
      BY <1>1, <1>2, <1>9, <2>1, CallType DEF CallFun
    <2>3. f \in CallRecord
      <3>0. NextPoint[pc] \in ReturnPoint
        BY <1>1, <1>9, CallResumes
      <3>1. ram[LCL] \in Word /\ ram[ARG] \in Word /\ ram[THIS] \in Word /\ ram[THAT] \in Word
        BY <1>1, Registers DEF Ram
      <3>2. ram[SP] - c.args \in Int /\ ram[SP] + 5 \in Int
        BY <1>1, <2>1, LayoutAssumption
      <3> QED
        BY <2>1, <3>0, <3>1, <3>2 DEF Record, CallRecord
    <2> HIDE DEF f
    <2>4. calls' \in Seq(CallRecord)
      BY <1>1, <1>9, <2>3, AppendProperties DEF CallFun, f
    <2> QED
      BY <1>1, <1>9, <2>1, <2>2, <2>4 DEF CallFun, TypeOK, Ram
  <1>10. CASE Return(c)
    <2>1. ram' \in Ram
      BY <1>1, <1>10, ReturnType DEF Return
    <2>2. calls' \in Seq(CallRecord)
      <3>1. \A i \in 1 .. Len(calls) - 1 : calls[i] \in CallRecord
        BY <1>1, ElementOfSeq
      <3> QED
        BY <1>1, <1>10, <3>1, SubSeqProperties DEF Return
    <2>3. pc' \in Point
      BY <1>10, PointsInText DEF Return
    <2> QED
      BY <1>1, <1>10, <2>1, <2>2, <2>3 DEF Return, TypeOK, Ram, Command_
  <1> QED
    BY <1>3, <1>4, <1>5, <1>6, <1>7, <1>8, <1>9, <1>10

LEMMA InitIInv == Init => IInv
  <1> SUFFICES ASSUME Init PROVE IInv
    OBVIOUS
  <1>1. TypeOK
    BY InitialRamAssumption, ProgramAssumption, EmptySeq DEF Init, TypeOK
  <1>2. ~Running
    BY DEF Init, Running
  <1> QED
    BY <1>1, <1>2 DEF IInv, SavedWordsIntact, FramesNested

LEMMA NextIInv == IInv /\ [Next]_vars => IInv'
  <1> SUFFICES ASSUME IInv, [Next]_vars PROVE IInv'
    OBVIOUS
  <1>1. CASE UNCHANGED vars
    BY <1>1 DEF vars, IInv, TypeOK, SavedWordsIntact, FramesNested, Running, Top
  <1>2. CASE Undefined
    BY <1>1, <1>2 DEF Undefined
  <1>3. CASE ~fault /\ Start
    BY <1>3, StartSafe DEF IInv
  <1>4. CASE ~fault /\ Step
    <2>1. PICK c : Push(c) \/ Pop(c) \/ Arith(c) \/ Label(c) \/ Goto(c) \/ IfGoto(c)
                     \/ Function_(c) \/ CallFun(c) \/ Return(c)
      BY <1>4 DEF Step
    <2>2. TypeOK'
      BY <1>4, <2>1, StepCase
    <2>3. CASE fault'
      BY <2>2, <2>3 DEF IInv, SavedWordsIntact, FramesNested, Running
    <2>4. CASE ~fault'
      <3>1. Running
        BY <1>4, <2>1, CommandAt
           DEF Push, Pop, Arith, Label, Goto, IfGoto, Function_, CallFun, Return
      <3>2. CASE Push(c) \/ Pop(c) \/ Arith(c) \/ Label(c) \/ Goto(c) \/ IfGoto(c)
        <4>1. StaysInFrame
          BY <1>4, <2>4, <3>2, PushStays, PopStays, ArithStays, JumpStays, IfGotoStays
        <4> QED
          BY <2>2, <3>1, <4>1, StaysSafe DEF IInv
      <3>3. CASE Function_(c)
        BY <1>4, <2>2, <2>4, <3>3, FunctionSafe DEF IInv
      <3>4. CASE CallFun(c)
        BY <1>4, <2>2, <2>4, <3>4, CallSafe DEF IInv
      <3>5. CASE Return(c)
        BY <1>4, <2>2, <2>4, <3>5, ReturnSafe DEF IInv
      <3> QED
        BY <2>1, <3>2, <3>3, <3>4, <3>5
    <2> QED
      BY <2>3, <2>4
  <1> QED
    BY <1>1, <1>2, <1>3, <1>4 DEF Next

LEMMA InductiveInvariant == Spec => []IInv
  BY InitIInv, NextIInv, PTL DEF Spec

-----------------------------------------------------------------------------
(* The theorems                                                            *)

(* The RAM holds words, the program counter is a point of the program, and  *)
(* the history is a sequence of frame records (TypeOK of the run vm_frames).*)
THEOREM TypeCorrect == Spec => []TypeOK
  <1>1. IInv => TypeOK
    BY DEF IInv
  <1> QED
    BY <1>1, InductiveInvariant, PTL

(* Whatever the running function and the functions it called did, the five  *)
(* words that call pushed (vm_backend.c 281-296) are in place in every      *)
(* frame for return (307-327) to restore from.                              *)
THEOREM SavedWordsSafe == Spec => []SavedWordsIntact
  <1>1. IInv => SavedWordsIntact
    BY DEF IInv
  <1> QED
    BY <1>1, InductiveInvariant, PTL

(* LCL, ARG and SP delimit the running frame, and frames lie one above the  *)
(* other in the stack region, each from its arguments to its locals.        *)
THEOREM FramesSafe == Spec => []FramesNested
  <1>1. IInv => FramesNested
    BY DEF IInv
  <1> QED
    BY <1>1, InductiveInvariant, PTL

(* No command writes a stack word below the arguments of the running        *)
(* function: whatever waits there for its return is left alone.             *)
THEOREM CallerSafe == Spec => CallerUntouched
  <1> DEFINE Untouched == Running /\ ~fault' =>
                \A a \in StackBase .. Top.argBase - 1 : ram'[a] = ram[a]
  <1>1. IInv /\ [Next]_vars => [Untouched]_vars
    <2> SUFFICES ASSUME IInv, Next, Running, ~fault'
                 PROVE  \A a \in StackBase .. Top.argBase - 1 : ram'[a] = ram[a]
      OBVIOUS
    <2>1. ~fault /\ pc # Boot
      BY DEF Running
    <2>2. PICK c : Push(c) \/ Pop(c) \/ Arith(c) \/ Label(c) \/ Goto(c) \/ IfGoto(c)
                     \/ Function_(c) \/ CallFun(c) \/ Return(c)
      BY <2>1 DEF Next, Undefined, Start, Step
    <2>3. \A a \in StackBase .. Top.argBase - 1 :
            /\ a \in StackBase .. Top.base - 1
            /\ a \notin Top.argBase .. Top.argBase + Top.args - 1
      <3> DEFINE b == Top.base
                 g == Top.argBase
                 k == Top.args
      <3>1. b \in Int /\ g \in Int /\ k \in Nat /\ b = g + k + 5 /\ StackBase \in Int
        BY Pointers, LayoutAssumption
      <3> HIDE DEF b, g, k
      <3>2. \A a \in StackBase .. g - 1 : a \in StackBase .. b - 1 /\ a \notin g .. g + k - 1
        BY <3>1
      <3> QED
        BY <3>2 DEF b, g, k
    <2>4. CASE Push(c) \/ Pop(c) \/ Arith(c) \/ Label(c) \/ Goto(c) \/ IfGoto(c)
      <3>1. StaysInFrame
        BY <2>1, <2>4, PushStays, PopStays, ArithStays, JumpStays, IfGotoStays
      <3> QED
        BY <2>3, <3>1 DEF StaysInFrame
    <2>5. CASE Function_(c)
      BY <2>1, <2>5, FunctionSafe
    <2>6. CASE CallFun(c)
      BY <2>1, <2>3, <2>6, CallSafe
    <2>7. CASE Return(c)
      BY <2>1, <2>7, ReturnSafe
    <2> QED
      BY <2>2, <2>4, <2>5, <2>6, <2>7
  <1> QED
    BY <1>1, InductiveInvariant, PTL DEF Spec, CallerUntouched

(* A return gives the caller its pointers, its place in the program and     *)
(* exactly one result, also when the function had no arguments and the      *)
(* result goes where the return address was (vm_backend.c 310-314).         *)
THEOREM ReturnCorrect == Spec => ReturnRestores
  <1> DEFINE Restores ==
        Running /\ ~fault' /\ Len(calls') < Len(calls) =>
          /\ pc' = Top.ret
          /\ <<ram'[LCL], ram'[ARG], ram'[THIS], ram'[THAT]>>
               = <<Top.lcl, Top.arg, Top.this, Top.that>>
          /\ ram'[SP] = Top.argBase + 1
          /\ ram'[Top.argBase] = ram[ram[SP] - 1]
  <1>1. IInv /\ [Next]_vars => [Restores]_vars
    <2> SUFFICES ASSUME IInv, Next, Running, ~fault', Len(calls') < Len(calls)
                 PROVE  Restores
      OBVIOUS
    <2>1. ~fault /\ pc # Boot /\ Len(calls) \in Nat
      BY Pointers DEF Running
    <2>2. PICK c : Push(c) \/ Pop(c) \/ Arith(c) \/ Label(c) \/ Goto(c) \/ IfGoto(c)
                     \/ Function_(c) \/ CallFun(c) \/ Return(c)
      BY <2>1 DEF Next, Undefined, Start, Step
    <2>3. Len(calls') # Len(calls) /\ Len(calls') # Len(calls) + 1
      BY <2>1
    <2>4. Return(c)
      <3>1. ~(Push(c) \/ Pop(c) \/ Arith(c) \/ Label(c) \/ Goto(c) \/ IfGoto(c))
        BY <2>3 DEF Push, Pop, Arith, Label, Goto, IfGoto
      <3>2. ~Function_(c)
        BY <2>1, <2>3, FunctionSafe
      <3>3. ~CallFun(c)
        BY <2>1, <2>3, CallSafe
      <3> QED
        BY <2>2, <3>1, <3>2, <3>3
    <2> QED
      BY <2>1, <2>4, ReturnSafe
  <1> QED
    BY <1>1, InductiveInvariant, PTL DEF Spec, ReturnRestores

-----------------------------------------------------------------------------
(***************************************************************************)
(* VMBackend implements VMachine: the frames read back from the RAM do,     *)
(* for every program the language allows, what the abstract machine says.  *)
(***************************************************************************)

(* The words from .. to - 1 of m.                                           *)
Cells(m, from, to) == [i \in 1 .. to - from |-> m[from + i - 1]]

(* A frame, its words taken from m and its place from the history cs.       *)
FrameAt(m, cs, k) ==
  [ret      |-> cs[k].ret,
   base     |-> cs[k].base - StackBase,
   args     |-> Cells(m, cs[k].argBase, cs[k].argBase + cs[k].args),
   locals   |-> Cells(m, cs[k].base, cs[k].base + cs[k].locals),
   work     |-> Cells(m, cs[k].base + cs[k].locals,
                      IF k = Len(cs) THEN m[SP] ELSE cs[k + 1].argBase),
   this     |-> IF k = Len(cs) THEN m[THIS] ELSE cs[k + 1].this,
   that     |-> IF k = Len(cs) THEN m[THAT] ELSE cs[k + 1].that,
   entering |-> cs[k].entering]

FramesAt(m, cs) == [k \in 1 .. Len(cs) |-> FrameAt(m, cs, k)]

(* What IInv says of where the frames of a running program lie.             *)
Laid(m, cs) ==
  /\ m \in Ram /\ cs \in Seq(CallRecord) /\ Len(cs) > 0
  /\ cs[Len(cs)].base + cs[Len(cs)].locals <= m[SP]
  /\ m[SP] <= StackTop
  /\ \A k \in 1 .. Len(cs) :
       /\ StackBase <= cs[k].argBase
       /\ cs[k].base = cs[k].argBase + cs[k].args + 5
       /\ \A j \in 1 .. k - 1 : cs[j].base + cs[j].locals <= cs[k].argBase

(* A frame that is being entered is empty, and none that waits is entered.  *)
Entered ==
  Running =>
    /\ \A k \in 1 .. Len(calls) : calls[k].ret # Boot
    /\ \A k \in 1 .. Len(calls) - 1 : ~calls[k].entering
    /\ Top.entering => Top.locals = 0 /\ ram[SP] = Top.base

RInv == IInv /\ Entered

-----------------------------------------------------------------------------
(* Cells                                                                   *)
LEMMA CellsTyped ==
  ASSUME NEW m \in Ram, NEW from \in Nat, NEW to \in Nat, from <= to, to <= Half
  PROVE  /\ Cells(m, from, to) \in Seq(Word) /\ Len(Cells(m, from, to)) = to - from
         /\ \A i \in 1 .. to - from : Cells(m, from, to)[i] = m[from + i - 1]
         /\ Cells(m, from, to) = [i \in 1 .. to - from |-> Load(m, from + i - 1)]
<1>1. Half \in Nat
  BY HalfAssumption
<1>2. \A i \in 1 .. to - from : from + i - 1 \in Address
  BY <1>1 DEF Address
<1>3. \A i \in 1 .. to - from : m[from + i - 1] \in Word
  BY <1>2 DEF Ram
<1>4. to - from \in Nat
  OBVIOUS
<1> DEFINE n == to - from
<1>5. Cells(m, from, to) \in [1 .. n -> Word]
  BY <1>3 DEF Cells
<1>6. [1 .. n -> Word] \subseteq Seq(Word)
  BY <1>4
<1>7. Cells(m, from, to) \in Seq(Word) /\ Len(Cells(m, from, to)) = n
  BY <1>4, <1>5, <1>6
<1>8. \A i \in 1 .. n : Load(m, from + i - 1) = m[from + i - 1]
  BY <1>2, AddrOfAddress DEF Load
<1>9. Cells(m, from, to) = [i \in 1 .. n |-> Load(m, from + i - 1)]
  BY <1>8 DEF Cells
<1> QED
  BY <1>7, <1>9 DEF Cells

LEMMA CellsSame ==
  ASSUME NEW m, NEW r, NEW from \in Int, NEW to \in Int, \A a \in from .. to - 1 : r[a] = m[a]
  PROVE  Cells(r, from, to) = Cells(m, from, to)
<1>1. \A i \in 1 .. to - from : from + i - 1 \in from .. to - 1
  OBVIOUS
<1>2. \A i \in 1 .. to - from : r[from + i - 1] = m[from + i - 1]
  BY <1>1
<1> QED
  BY <1>2 DEF Cells

(* One of the cells is written.                                             *)
LEMMA CellsPut ==
  ASSUME NEW m, NEW r, NEW from \in Int, NEW to \in Int, NEW i \in Nat, from + i < to,
         \A a \in from .. to - 1 : a # from + i => r[a] = m[a]
  PROVE  Cells(r, from, to) = [Cells(m, from, to) EXCEPT ![i + 1] = r[from + i]]
<1>1. \A j \in 1 .. to - from : /\ from + j - 1 \in from .. to - 1
                                /\ j # i + 1 => from + j - 1 # from + i
                                /\ j = i + 1 => from + j - 1 = from + i
  OBVIOUS
<1>2. i + 1 \in 1 .. to - from
  OBVIOUS
<1>3. \A j \in 1 .. to - from : j # i + 1 => r[from + j - 1] = m[from + j - 1]
  BY <1>1
<1> QED
  BY <1>1, <1>2, <1>3 DEF Cells

(* The cell behind is written, too.                                         *)
LEMMA CellsPush ==
  ASSUME NEW m \in Ram, NEW r \in Ram, NEW from \in Nat, NEW to \in Nat, from <= to, to < Half,
         \A a \in from .. to - 1 : r[a] = m[a]
  PROVE  Cells(r, from, to + 1) = Append(Cells(m, from, to), r[to])
<1> DEFINE s == Cells(m, from, to)
           t == Cells(r, from, to + 1)
           n == to - from
<1>0. /\ Half \in Nat /\ to + 1 <= Half /\ to <= Half /\ to + 1 \in Nat /\ to \in Address
      /\ from <= to + 1
  BY HalfAssumption DEF Address
<1>1. /\ s \in Seq(Word) /\ Len(s) = n /\ \A i \in 1 .. n : s[i] = m[from + i - 1]
      /\ t \in Seq(Word) /\ Len(t) = n + 1 /\ \A i \in 1 .. n + 1 : t[i] = r[from + i - 1]
  <2>1. to + 1 - from = n + 1
    OBVIOUS
  <2>2. /\ s \in Seq(Word) /\ Len(s) = n /\ \A i \in 1 .. n : s[i] = m[from + i - 1]
    BY <1>0, CellsTyped, ZenonT(30)
  <2>3. /\ t \in Seq(Word) /\ Len(t) = to + 1 - from
        /\ \A i \in 1 .. to + 1 - from : t[i] = r[from + i - 1]
    <3> DEFINE e == to + 1
    <3>1. e \in Nat /\ from <= e /\ e <= Half
      BY <1>0
    <3> HIDE DEF e
    <3>2. /\ Cells(r, from, e) \in Seq(Word) /\ Len(Cells(r, from, e)) = e - from
          /\ \A i \in 1 .. e - from : Cells(r, from, e)[i] = r[from + i - 1]
      BY <3>1, CellsTyped
    <3> QED
      BY <3>2 DEF e
  <2> QED
    BY <2>1, <2>2, <2>3
<1>2. n \in Nat /\ from + (n + 1) - 1 = to /\ r[to] \in Word
  BY <1>0 DEF Ram
<1>3. \A i \in 1 .. n : t[i] = s[i]
  <2>1. \A i \in 1 .. n : i \in 1 .. n + 1 /\ from + i - 1 \in from .. to - 1
    OBVIOUS
  <2> HIDE DEF s, t, n
  <2> QED
    BY <1>1, <2>1
<1>4. t[n + 1] = r[to]
  <2> DEFINE p == n + 1
  <2>1. p \in 1 .. p /\ from + p - 1 = to
    OBVIOUS
  <2>2. \A i \in 1 .. p : t[i] = r[from + i - 1]
    BY <1>1
  <2> HIDE DEF t, p
  <2>3. t[p] = r[to]
    BY <2>1, <2>2
  <2> QED
    BY <2>3 DEF p
<1> HIDE DEF s, t
<1> DEFINE u == Append(s, r[to])
<1>5. u \in Seq(Word) /\ Len(u) = n + 1 /\ u[n + 1] = r[to] /\ \A i \in 1 .. n : u[i] = s[i]
  BY <1>1, <1>2, AppendProperties
<1> HIDE DEF u
<1>6. \A i \in 1 .. Len(t) : t[i] = u[i]
  <2> SUFFICES ASSUME NEW i \in 1 .. n + 1 PROVE t[i] = u[i]
    BY <1>1
  <2>1. i \in 1 .. n \/ i = n + 1
    BY <1>2
  <2> QED
    BY <2>1, <1>3, <1>4, <1>5
<1>7. t = u
  BY <1>1, <1>5, <1>6, SeqEqual
<1> QED
  BY <1>7 DEF s, t, u

(* The first cells, and the last.                                          *)
LEMMA CellsCut ==
  ASSUME NEW m \in Ram, NEW from \in Nat, NEW to \in Nat, from <= to, to <= Half,
         NEW k \in Nat, k <= to - from
  PROVE  /\ Cells(m, from, to - k) = VM!Without(Cells(m, from, to), k)
         /\ Cells(m, to - k, to) = VM!Last(Cells(m, from, to), k)
<1> DEFINE s == Cells(m, from, to)
           n == to - from
           a == Cells(m, from, to - k)
           z == Cells(m, to - k, to)
<1>1. s \in Seq(Word) /\ Len(s) = n /\ \A i \in 1 .. n : s[i] = m[from + i - 1]
  BY CellsTyped
<1>2. n \in Nat /\ k \in 0 .. n /\ to - k \in Nat /\ from <= to - k /\ to - k <= to
  OBVIOUS
<1>3. /\ a \in Seq(Word) /\ Len(a) = n - k /\ \A i \in 1 .. n - k : a[i] = m[from + i - 1]
  <2> DEFINE e == to - k
  <2>1. e - from = n - k /\ e <= Half /\ e \in Nat /\ from <= e
    BY HalfAssumption
  <2> HIDE DEF e
  <2>2. /\ Cells(m, from, e) \in Seq(Word) /\ Len(Cells(m, from, e)) = e - from
        /\ \A i \in 1 .. e - from : Cells(m, from, e)[i] = m[from + i - 1]
    BY <2>1, CellsTyped
  <2> QED
    BY <2>1, <2>2 DEF e
<1>4. /\ z \in Seq(Word) /\ Len(z) = k /\ \A i \in 1 .. k : z[i] = m[to - k + i - 1]
  <2> DEFINE e == to - k
  <2>1. to - e = k /\ e \in Nat /\ e <= to
    OBVIOUS
  <2> HIDE DEF e
  <2>2. /\ Cells(m, e, to) \in Seq(Word) /\ Len(Cells(m, e, to)) = to - e
        /\ \A i \in 1 .. to - e : Cells(m, e, to)[i] = m[e + i - 1]
    BY <2>1, CellsTyped, ZenonT(30)
  <2> QED
    BY <2>1, <2>2 DEF e
<1>5. \A i \in 1 .. n - k : a[i] = s[i]
  BY <1>1, <1>2, <1>3
<1>6. \A i \in 1 .. k : z[i] = s[n - k + i]
  <2> SUFFICES ASSUME NEW i \in 1 .. k PROVE z[i] = s[n - k + i]
    OBVIOUS
  <2>1. n - k + i \in 1 .. n /\ from + (n - k + i) - 1 = to - k + i - 1
    BY <1>2
  <2> QED
    BY <1>1, <1>4, <2>1
<1> HIDE DEF s, a, z
<1> DEFINE b == SubSeq(s, 1, n - k)
           y == SubSeq(s, n - k + 1, n)
<1>7. /\ b \in Seq(Word) /\ Len(b) = n - k /\ \A i \in 1 .. n - k : b[i] = s[i]
  <2> DEFINE f == n - k
  <2>1. /\ f \in Nat /\ f - 1 + 1 = f /\ (IF 1 <= f THEN f ELSE 0) = f
        /\ \A i \in 1 .. f : 1 + i - 1 = i
        /\ \A i \in 1 .. f : i \in 1 .. n
    BY <1>2
  <2> HIDE DEF f, n
  <2>2. \A i \in 1 .. f : s[i] \in Word
    BY <1>1, <2>1, ElementOfSeq
  <2>3. /\ SubSeq(s, 1, f) \in Seq(Word)
        /\ Len(SubSeq(s, 1, f)) = IF 1 <= f THEN f - 1 + 1 ELSE 0
        /\ \A i \in 1 .. f - 1 + 1 : SubSeq(s, 1, f)[i] = s[1 + i - 1]
    BY <2>1, <2>2, SubSeqProperties
  <2> QED
    BY <2>1, <2>3 DEF f, b
<1>8. /\ y \in Seq(Word) /\ Len(y) = k /\ \A i \in 1 .. k : y[i] = s[n - k + i]
  <2> DEFINE f == n - k + 1
  <2>1. /\ f \in Int /\ n \in Int /\ n - f + 1 = k /\ (IF f <= n THEN k ELSE 0) = k
        /\ \A i \in 1 .. k : f + i - 1 = n - k + i
        /\ \A i \in f .. n : i \in 1 .. n
    BY <1>2
  <2> HIDE DEF f, n
  <2>2. \A i \in f .. n : s[i] \in Word
    BY <1>1, <2>1, ElementOfSeq
  <2>3. /\ SubSeq(s, f, n) \in Seq(Word)
        /\ Len(SubSeq(s, f, n)) = IF f <= n THEN n - f + 1 ELSE 0
        /\ \A i \in 1 .. n - f + 1 : SubSeq(s, f, n)[i] = s[f + i - 1]
    BY <2>1, <2>2, SubSeqProperties
  <2> QED
    BY <2>1, <2>3 DEF f, y
<1> HIDE DEF b, y
<1>9. a = b
  BY <1>3, <1>5, <1>7, SeqEqual
<1>10. z = y
  BY <1>4, <1>6, <1>8, SeqEqual
<1> QED
  BY <1>1, <1>9, <1>10 DEF s, a, z, b, y, VM!Without, VM!Last

-----------------------------------------------------------------------------
(* Frames                                                                  *)

(* The words of a frame lie one behind the other, up to the end of its      *)
(* operand stack.                                                          *)
LEMMA FramePlaces ==
  ASSUME NEW m, NEW cs, Laid(m, cs), NEW k \in 1 .. Len(cs)
  PROVE  LET e == IF k = Len(cs) THEN m[SP] ELSE cs[k + 1].argBase
         IN /\ cs[k] \in CallRecord
            /\ cs[k].argBase \in Nat /\ cs[k].base \in Nat /\ cs[k].args \in Nat /\ cs[k].locals \in Nat
            /\ StackBase <= cs[k].argBase
            /\ cs[k].base = cs[k].argBase + cs[k].args + 5
            /\ cs[k].base + cs[k].locals <= e /\ e \in Nat /\ e <= StackTop /\ e < Half
            /\ k # Len(cs) => e <= cs[Len(cs)].argBase
<1> DEFINE n == Len(cs)
<1>1. n \in Nat /\ n > 0 /\ m[SP] \in Int /\ m[SP] <= StackTop
      /\ StackBase \in Nat /\ StackTop \in Nat /\ StackTop < Half /\ Half \in Nat
  <2>1. SP \in Address /\ m \in Ram
    BY Registers DEF Laid
  <2>2. m[SP] \in Word
    BY <2>1 DEF Ram
  <2> QED
    BY <2>2, LenProperties, LayoutAssumption, HalfAssumption DEF Laid, Word
<1>2. \A j \in 1 .. n :
        /\ cs[j] \in CallRecord
        /\ cs[j].base \in Int /\ cs[j].argBase \in Int /\ cs[j].args \in Nat /\ cs[j].locals \in Nat
        /\ StackBase <= cs[j].argBase
        /\ cs[j].base = cs[j].argBase + cs[j].args + 5
  <2> SUFFICES ASSUME NEW j \in 1 .. n
               PROVE  /\ cs[j] \in CallRecord
                      /\ cs[j].base \in Int /\ cs[j].argBase \in Int /\ cs[j].args \in Nat
                      /\ cs[j].locals \in Nat
                      /\ StackBase <= cs[j].argBase
                      /\ cs[j].base = cs[j].argBase + cs[j].args + 5
    OBVIOUS
  <2>1. cs[j] \in CallRecord
    BY ElementOfSeq DEF Laid
  <2> QED
    BY <2>1, RecordFields DEF Laid
<1>3. \A i, j \in 1 .. n : i < j => cs[i].base + cs[i].locals <= cs[j].argBase
  <2> SUFFICES ASSUME NEW i \in 1 .. n, NEW j \in 1 .. n, i < j
               PROVE  cs[i].base + cs[i].locals <= cs[j].argBase
    OBVIOUS
  <2>1. i \in 1 .. j - 1
    BY <1>1
  <2> QED
    BY <2>1 DEF Laid
<1>4. n \in 1 .. n /\ cs[n].base + cs[n].locals <= m[SP]
  BY <1>1 DEF Laid
<1> DEFINE t == cs[n].argBase
<1>5. t \in Int /\ t <= m[SP]
  <2> DEFINE b == cs[n].base
             a == cs[n].args
             l == cs[n].locals
  <2>1. /\ t \in Int /\ b \in Int /\ a \in Nat /\ l \in Nat /\ b = t + a + 5 /\ b + l <= m[SP]
    BY <1>2, <1>4
  <2> HIDE DEF t, b, a, l
  <2> QED
    BY <1>1, <2>1
<1> DEFINE b == cs[k].base
           g == cs[k].argBase
           a == cs[k].args
           l == cs[k].locals
<1>6. /\ cs[k] \in CallRecord /\ b \in Int /\ g \in Int /\ a \in Nat /\ l \in Nat
      /\ StackBase <= g /\ b = g + a + 5
  BY <1>2
<1>7. CASE k = n
  <2>1. b + l <= m[SP]
    BY <1>4, <1>7
  <2> HIDE DEF b, g, a, l, t
  <2>2. /\ g \in Nat /\ b \in Nat /\ m[SP] \in Nat /\ m[SP] < Half
    BY <1>1, <1>6, <2>1
  <2> QED
    BY <1>1, <1>6, <1>7, <2>1, <2>2 DEF b, g, a, l
<1>8. CASE k # n
  <2>1. k + 1 \in 1 .. n /\ k < k + 1 /\ (k + 1 = n \/ k + 1 < n)
    BY <1>1, <1>8
  <2> DEFINE e == cs[k + 1].argBase
             b1 == cs[k + 1].base
             a1 == cs[k + 1].args
             l1 == cs[k + 1].locals
  <2>2. e \in Int /\ b1 \in Int /\ a1 \in Nat /\ l1 \in Nat /\ b1 = e + a1 + 5 /\ b + l <= e
    BY <1>2, <1>3, <2>1
  <2>3. k + 1 < n => b1 + l1 <= t
    BY <1>3, <1>4, <2>1
  <2>4. k + 1 = n => e = t
    OBVIOUS
  <2> HIDE DEF b, g, a, l, t, e, b1, a1, l1
  <2>5. e <= t
    BY <1>5, <2>1, <2>2, <2>3, <2>4
  <2>6. /\ g \in Nat /\ b \in Nat /\ e \in Nat /\ e <= StackTop /\ e < Half
    BY <1>1, <1>5, <1>6, <2>2, <2>5
  <2> QED
    BY <1>6, <1>8, <2>2, <2>5, <2>6 DEF b, g, a, l, e, t
<1> QED
  BY <1>7, <1>8

(* The frames of VMBackend, as a function of the RAM and the history.       *)
FramesOf(m, cs) ==
  LET Read(from, to) == [i \in 1 .. to - from |-> Load(m, from + i - 1)]
      Frame(k) ==
        [ret      |-> cs[k].ret,
         base     |-> cs[k].base - StackBase,
         args     |-> Read(cs[k].argBase, cs[k].argBase + cs[k].args),
         locals   |-> Read(cs[k].base, cs[k].base + cs[k].locals),
         work     |-> Read(cs[k].base + cs[k].locals,
                           IF k = Len(cs) THEN m[SP] ELSE cs[k + 1].argBase),
         this     |-> IF k = Len(cs) THEN m[THIS] ELSE cs[k + 1].this,
         that     |-> IF k = Len(cs) THEN m[THAT] ELSE cs[k + 1].that,
         entering |-> cs[k].entering]
  IN SubSeq([k \in 1 .. Len(cs) |-> Frame(k)], 1, Len(cs))

LEMMA FramesOfNow == AbsFrames = FramesOf(ram, calls) /\ AbsFrames' = FramesOf(ram', calls')
BY DEF AbsFrames, AbsFrame, Words, WorkEnd, FramesOf

LEMMA FramesOfLaid ==
  ASSUME NEW m, NEW cs, Laid(m, cs)
  PROVE  /\ FramesOf(m, cs) = FramesAt(m, cs)
         /\ Len(FramesAt(m, cs)) = Len(cs) /\ Len(cs) \in Nat /\ Len(cs) \in 1 .. Len(cs)
<1> DEFINE n == Len(cs)
           Read(from, to) == [i \in 1 .. to - from |-> Load(m, from + i - 1)]
           Frame(k) ==
             [ret      |-> cs[k].ret,
              base     |-> cs[k].base - StackBase,
              args     |-> Read(cs[k].argBase, cs[k].argBase + cs[k].args),
              locals   |-> Read(cs[k].base, cs[k].base + cs[k].locals),
              work     |-> Read(cs[k].base + cs[k].locals,
                                IF k = Len(cs) THEN m[SP] ELSE cs[k + 1].argBase),
              this     |-> IF k = Len(cs) THEN m[THIS] ELSE cs[k + 1].this,
              that     |-> IF k = Len(cs) THEN m[THAT] ELSE cs[k + 1].that,
              entering |-> cs[k].entering]
<1>1. n \in Nat /\ n > 0 /\ n \in 1 .. n
  BY LenProperties DEF Laid
<1>2. ASSUME NEW k \in 1 .. n PROVE Frame(k) = FrameAt(m, cs, k)
  <2> DEFINE g == cs[k].argBase
             a == cs[k].args
             b == cs[k].base
             l == cs[k].locals
             e == IF k = Len(cs) THEN m[SP] ELSE cs[k + 1].argBase
  <2>1. /\ g \in Nat /\ b \in Nat /\ a \in Nat /\ l \in Nat /\ b = g + a + 5
        /\ b + l <= e /\ e \in Nat /\ e < Half /\ m \in Ram
    BY FramePlaces DEF Laid
  <2> HIDE DEF g, a, b, l, e
  <2>2. /\ g + a \in Nat /\ g <= g + a /\ g + a <= Half
        /\ b + l \in Nat /\ b <= b + l /\ b + l <= Half /\ e <= Half
    BY <2>1, HalfAssumption
  <2> DEFINE gEnd == g + a
             bEnd == b + l
  <2>6. /\ gEnd \in Nat /\ g <= gEnd /\ gEnd <= Half /\ bEnd \in Nat /\ b <= bEnd /\ bEnd <= Half
        /\ bEnd <= e /\ e <= Half
    BY <2>1, <2>2
  <2> HIDE DEF gEnd, bEnd
  <2>7. Cells(m, g, gEnd) = Read(g, gEnd) /\ Cells(m, b, bEnd) = Read(b, bEnd) /\ Cells(m, bEnd, e) = Read(bEnd, e)
    <3>1. Cells(m, g, gEnd) = Read(g, gEnd)
      <4>1. m \in Ram
        BY <2>1
      <4>2. g \in Nat
        BY <2>1
      <4>3. gEnd \in Nat /\ g <= gEnd /\ gEnd <= Half
        BY <2>6
      <4>4. Cells(m, g, gEnd) = [i \in 1 .. gEnd - g |-> Load(m, g + i - 1)]
        BY <4>1, <4>2, <4>3, CellsTyped
      <4> QED
        BY <4>4
    <3>2. Cells(m, b, bEnd) = Read(b, bEnd)
      <4>1. /\ m \in Ram /\ b \in Nat /\ bEnd \in Nat /\ b <= bEnd /\ bEnd <= Half
        BY <2>1, <2>6
      <4>2. Cells(m, b, bEnd) = [i \in 1 .. bEnd - b |-> Load(m, b + i - 1)]
        BY <4>1, CellsTyped
      <4> QED
        BY <4>2
    <3>3. Cells(m, bEnd, e) = Read(bEnd, e)
      BY <2>1, <2>6, CellsTyped
    <3> QED
      BY <3>1, <3>2, <3>3
  <2>3. Cells(m, g, g + a) = Read(g, g + a)
    BY <2>7 DEF gEnd
  <2>4. Cells(m, b, b + l) = Read(b, b + l)
    BY <2>7 DEF bEnd
  <2>5. Cells(m, b + l, e) = Read(b + l, e)
    BY <2>7 DEF bEnd
  <2> HIDE DEF Read
  <2> QED
    BY <2>3, <2>4, <2>5 DEF FrameAt, g, a, b, l, e
<1>3. FramesOf(m, cs) = SubSeq([k \in 1 .. n |-> Frame(k)], 1, n)
  BY DEF FramesOf
<1> HIDE DEF Frame
<1>4. [k \in 1 .. n |-> Frame(k)] = FramesAt(m, cs)
  BY <1>2 DEF FramesAt
<1> DEFINE f == FramesAt(m, cs)
           S == {FrameAt(m, cs, k) : k \in 1 .. n}
<1>5. f \in [1 .. n -> S]
  BY DEF FramesAt
<1> HIDE DEF f, S
<1>6. f \in Seq(S) /\ Len(f) = n
  BY <1>1, <1>5
<1>7. SubSeq(f, 1, n) = f
  <2> DEFINE u == SubSeq(f, 1, n)
  <2>1. \A i \in 1 .. n : f[i] \in S
    BY <1>5
  <2>2. /\ u \in Seq(S) /\ Len(u) = n /\ \A i \in 1 .. n : u[i] = f[i]
    <3> HIDE DEF n
    <3>1. /\ SubSeq(f, 1, n) \in Seq(S)
          /\ Len(SubSeq(f, 1, n)) = IF 1 <= n THEN n - 1 + 1 ELSE 0
          /\ \A i \in 1 .. n - 1 + 1 : SubSeq(f, 1, n)[i] = f[1 + i - 1]
      BY <1>1, <2>1, SubSeqProperties
    <3>2. n - 1 + 1 = n /\ 1 <= n /\ \A i \in 1 .. n : 1 + i - 1 = i
      BY <1>1
    <3> QED
      BY <3>1, <3>2
  <2> HIDE DEF u
  <2>3. u = f
    BY <1>6, <2>2, SeqEqual
  <2> QED
    BY <2>3 DEF u
<1> QED
  BY <1>1, <1>3, <1>4, <1>6, <1>7 DEF f

(* A change from m and cs to r and ds that leaves what lies below the       *)
(* arguments of frame n.                                                   *)
KeepsBelow(m, cs, r, ds, n) ==
  /\ \A k \in 1 .. n - 1 : ds[k] = cs[k]
  /\ ds[n].argBase = cs[n].argBase /\ ds[n].this = cs[n].this /\ ds[n].that = cs[n].that
  /\ \A a \in StackBase .. cs[n].argBase - 1 : r[a] = m[a]

(* The frames below frame n stay.                                           *)
LEMMA LowerFrames ==
  ASSUME NEW m, NEW cs, NEW r, NEW ds, Laid(m, cs), Laid(r, ds),
         NEW n, n \in 1 .. Len(cs), n <= Len(ds), KeepsBelow(m, cs, r, ds, n)
  PROVE  \A k \in 1 .. n - 1 : FrameAt(r, ds, k) = FrameAt(m, cs, k)
<1>0. SUFFICES ASSUME NEW k \in 1 .. n - 1 PROVE FrameAt(r, ds, k) = FrameAt(m, cs, k)
  OBVIOUS
<1>1. /\ Len(cs) \in Nat /\ Len(ds) \in Nat /\ k \in 1 .. Len(cs) /\ n \in Nat
      /\ k # Len(cs) /\ k # Len(ds) /\ ds[k] = cs[k] /\ (k + 1 = n \/ k + 1 \in 1 .. n - 1)
  <2>1. ds[k] = cs[k]
    BY DEF KeepsBelow
  <2> QED
    BY <2>1, LenProperties DEF Laid
<1>2. /\ ds[k + 1].argBase = cs[k + 1].argBase /\ ds[k + 1].this = cs[k + 1].this
      /\ ds[k + 1].that = cs[k + 1].that
  BY <1>1 DEF KeepsBelow
<1> DEFINE g == cs[k].argBase
           a == cs[k].args
           b == cs[k].base
           l == cs[k].locals
           e == cs[k + 1].argBase
           t == cs[n].argBase
<1>3. /\ g \in Nat /\ b \in Nat /\ a \in Nat /\ l \in Nat /\ b = g + a + 5
      /\ b + l <= e /\ e \in Nat /\ StackBase <= g /\ StackBase \in Nat
  <2> DEFINE f == IF k = Len(cs) THEN m[SP] ELSE cs[k + 1].argBase
  <2>1. /\ g \in Nat /\ b \in Nat /\ a \in Nat /\ l \in Nat /\ b = g + a + 5
        /\ b + l <= f /\ f \in Nat /\ StackBase <= g
    BY <1>1, FramePlaces
  <2>2. f = e
    BY <1>1
  <2> HIDE DEF f, g, a, b, l, e
  <2> QED
    BY <2>1, <2>2, LayoutAssumption
<1>4. e <= t /\ t \in Nat
  <2>1. CASE k + 1 = n
    BY <1>3, <2>1, SMTT(40)
  <2>2. CASE k + 1 \in 1 .. n - 1
    <3>1. k + 1 \in 1 .. Len(cs) /\ n \in 1 .. Len(cs)
      BY <1>1, <2>2
    <3> DEFINE a1 == cs[k + 1].args
               b1 == cs[k + 1].base
               l1 == cs[k + 1].locals
    <3>2. b1 + l1 <= t
      BY <3>1, <2>2 DEF Laid
    <3>3. /\ t \in Nat /\ b1 = e + a1 + 5 /\ b1 \in Nat /\ l1 \in Nat /\ a1 \in Nat
      BY <3>1, FramePlaces
    <3> HIDE DEF e, t, a1, b1, l1
    <3> QED
      BY <1>3, <3>2, <3>3
  <2> QED
    BY <1>1, <2>1, <2>2
<1>5. \A x \in StackBase .. t - 1 : r[x] = m[x]
  BY DEF KeepsBelow
<1> HIDE DEF g, a, b, l, e, t
<1> DEFINE gEnd == g + a
           bEnd == b + l
<1>6. /\ gEnd \in Nat /\ bEnd \in Nat /\ StackBase <= g /\ gEnd <= t /\ StackBase <= b /\ bEnd <= t
      /\ StackBase <= bEnd
  BY <1>3, <1>4
<1> HIDE DEF gEnd, bEnd
<1>7. /\ \A x \in g .. gEnd - 1 : r[x] = m[x]
      /\ \A x \in b .. bEnd - 1 : r[x] = m[x]
      /\ \A x \in bEnd .. e - 1 : r[x] = m[x]
  <2>1. /\ \A x \in g .. gEnd - 1 : x \in StackBase .. t - 1
        /\ \A x \in b .. bEnd - 1 : x \in StackBase .. t - 1
        /\ \A x \in bEnd .. e - 1 : x \in StackBase .. t - 1
    BY <1>3, <1>4, <1>6
  <2> QED
    BY <1>5, <2>1
<1>8. /\ Cells(r, g, gEnd) = Cells(m, g, gEnd) /\ Cells(r, b, bEnd) = Cells(m, b, bEnd)
      /\ Cells(r, bEnd, e) = Cells(m, bEnd, e)
  BY <1>3, <1>6, <1>7, CellsSame
<1> QED
  BY <1>1, <1>2, <1>8 DEF FrameAt, g, a, b, l, e, gEnd, bEnd

(* All frames but the running one stay.                                     *)
LEMMA OnlyTop ==
  ASSUME NEW m, NEW cs, NEW r, NEW ds, Laid(m, cs), Laid(r, ds), Len(ds) = Len(cs),
         KeepsBelow(m, cs, r, ds, Len(cs))
  PROVE  FramesAt(r, ds) =
           [FramesAt(m, cs) EXCEPT ![Len(FramesAt(m, cs))] = FrameAt(r, ds, Len(cs))]
<1>1. /\ Len(cs) \in 1 .. Len(cs) /\ Len(FramesAt(m, cs)) = Len(cs) /\ Len(cs) \in Nat
      /\ Len(cs) <= Len(ds)
  <2>1. Len(FramesAt(m, cs)) = Len(cs) /\ Len(cs) \in 1 .. Len(cs) /\ Len(cs) \in Nat
    BY FramesOfLaid
  <2> QED
    BY <2>1
<1>2. \A k \in 1 .. Len(cs) - 1 : FrameAt(r, ds, k) = FrameAt(m, cs, k)
  BY <1>1, LowerFrames
<1>3. \A k \in 1 .. Len(cs) : k # Len(cs) => k \in 1 .. Len(cs) - 1
  BY <1>1
<1> QED
  BY <1>1, <1>2, <1>3 DEF FramesAt

LEMMA LaidNow == ASSUME IInv, Running PROVE Laid(ram, calls)
BY Pointers DEF IInv, TypeOK, FramesNested, Laid, Ram, Top

LEMMA LaidNext == ASSUME IInv', Running' PROVE Laid(ram', calls')
<1>1. ram' \in Ram /\ calls' \in Seq(CallRecord)
  BY DEF IInv, TypeOK, Ram
<1> QED
  BY <1>1 DEF IInv, FramesNested, Laid, Top

(* The running frame.                                                      *)
LEMMA TopFrame ==
  ASSUME IInv, Running
  PROVE  LET n == Len(calls)
             w == ram[SP] - Top.base - Top.locals
         IN /\ AbsFrames = FramesAt(ram, calls) /\ Len(AbsFrames) = n
            /\ n \in Nat /\ n \in 1 .. n /\ Laid(ram, calls)
            /\ VM!Top = FrameAt(ram, calls, n)
            /\ VM!Top = [ret |-> Top.ret, base |-> Top.base - StackBase,
                         args |-> Cells(ram, Top.argBase, Top.argBase + Top.args),
                         locals |-> Cells(ram, Top.base, Top.base + Top.locals),
                         work |-> Cells(ram, Top.base + Top.locals, ram[SP]),
                         this |-> ram[THIS], that |-> ram[THAT], entering |-> Top.entering]
            /\ VM!Top.args \in Seq(Word) /\ Len(VM!Top.args) = Top.args
            /\ VM!Top.locals \in Seq(Word) /\ Len(VM!Top.locals) = Top.locals
            /\ VM!Top.work \in Seq(Word) /\ Len(VM!Top.work) = w /\ w \in Nat
            /\ \A i \in 1 .. Top.args : VM!Top.args[i] = ram[Top.argBase + i - 1]
            /\ \A i \in 1 .. Top.locals : VM!Top.locals[i] = ram[Top.base + i - 1]
            /\ \A i \in 1 .. w : VM!Top.work[i] = ram[Top.base + Top.locals + i - 1]
<1> DEFINE n == Len(calls)
           w == ram[SP] - Top.base - Top.locals
           g == Top.argBase
           a == Top.args
           b == Top.base
           l == Top.locals
           x == ram[SP]
           T == FrameAt(ram, calls, n)
<1>1. Laid(ram, calls)
  BY LaidNow
<1>2. AbsFrames = FramesAt(ram, calls) /\ Len(AbsFrames) = n /\ n \in Nat /\ n \in 1 .. n
  BY <1>1, FramesOfLaid, FramesOfNow
<1>3. VM!Top = T
  BY <1>2 DEF VM!Top, FramesAt
<1>4. T = [ret |-> Top.ret, base |-> b - StackBase, args |-> Cells(ram, g, g + a),
           locals |-> Cells(ram, b, b + l), work |-> Cells(ram, b + l, x),
           this |-> ram[THIS], that |-> ram[THAT], entering |-> Top.entering]
  BY <1>2 DEF FrameAt, Top
<1>5. /\ g \in Nat /\ a \in Nat /\ b \in Nat /\ l \in Nat /\ x \in Nat
      /\ b = g + a + 5 /\ b + l <= x /\ x < Half /\ ram \in Ram
  <2>1. /\ g \in Int /\ a \in Nat /\ b \in Int /\ l \in Nat /\ x \in Int /\ StackBase <= g
        /\ b = g + a + 5 /\ b + l <= x /\ x <= StackTop /\ ram \in Ram
    BY Pointers
  <2>2. StackBase \in Nat /\ StackTop \in Nat /\ StackTop < Half /\ Half \in Nat
    BY LayoutAssumption, HalfAssumption
  <2> HIDE DEF g, a, b, l, x
  <2>3. g \in Nat /\ x < Half
    BY <2>1, <2>2
  <2>4. b \in Nat
    BY <2>1, <2>3
  <2>5. x \in Nat
    BY <2>1, <2>4
  <2> QED
    BY <2>1, <2>3, <2>4, <2>5
<1> HIDE DEF n, T, g, a, b, l, x
<1> DEFINE gEnd == g + a
           bEnd == b + l
<1>6. /\ gEnd \in Nat /\ bEnd \in Nat /\ g <= gEnd /\ b <= bEnd /\ bEnd <= x
      /\ gEnd <= Half /\ bEnd <= Half /\ x <= Half
      /\ gEnd - g = a /\ bEnd - b = l /\ x - bEnd = x - b - l /\ x - b - l \in Nat
  BY <1>5, HalfAssumption
<1> HIDE DEF gEnd, bEnd
<1>7. /\ Cells(ram, g, gEnd) \in Seq(Word) /\ Len(Cells(ram, g, gEnd)) = a
      /\ \A i \in 1 .. a : Cells(ram, g, gEnd)[i] = ram[g + i - 1]
  <2>1. /\ ram \in Ram /\ g \in Nat /\ gEnd \in Nat /\ g <= gEnd /\ gEnd <= Half /\ gEnd - g = a
    BY <1>5, <1>6
  <2> QED
    BY <2>1, CellsTyped
<1>8. /\ Cells(ram, b, bEnd) \in Seq(Word) /\ Len(Cells(ram, b, bEnd)) = l
      /\ \A i \in 1 .. l : Cells(ram, b, bEnd)[i] = ram[b + i - 1]
  <2>1. /\ ram \in Ram /\ b \in Nat /\ bEnd \in Nat /\ b <= bEnd /\ bEnd <= Half /\ bEnd - b = l
    BY <1>5, <1>6
  <2> QED
    BY <2>1, CellsTyped
<1>9. /\ Cells(ram, bEnd, x) \in Seq(Word) /\ Len(Cells(ram, bEnd, x)) = x - b - l
      /\ \A i \in 1 .. x - b - l : Cells(ram, bEnd, x)[i] = ram[bEnd + i - 1]
  BY <1>5, <1>6, CellsTyped
<1>10. /\ T.args = Cells(ram, g, gEnd) /\ T.locals = Cells(ram, b, bEnd) /\ T.work = Cells(ram, bEnd, x)
  BY <1>4 DEF gEnd, bEnd
<1> QED
  BY <1>1, <1>2, <1>3, <1>4, <1>6, <1>7, <1>8, <1>9, <1>10 DEF n, T, g, a, b, l, x, gEnd, bEnd

LEMMA SameShape == ASSUME IInv, Running PROVE VM!Shape = Shape
<1> DEFINE T == VM!Top
           x == ram[SP]
           b == Top.base
           l == Top.locals
<1>1. /\ Len(T.args) = Top.args /\ Len(T.locals) = l /\ Len(T.work) = x - b - l
      /\ T.this = ram[THIS] /\ T.that = ram[THAT] /\ T.entering = Top.entering
      /\ T.base = b - StackBase /\ Len(AbsFrames) = Len(calls)
  BY TopFrame
<1>2. x \in Int /\ b \in Int /\ l \in Int /\ StackBase \in Int
  BY Pointers, LayoutAssumption
<1> HIDE DEF T, x, b, l
<1>3. T.base + Len(T.locals) + Len(T.work) = x - StackBase
  BY <1>1, <1>2
<1>4. VM!Shape = [args |-> Len(T.args), locals |-> Len(T.locals), work |-> Len(T.work),
                  used |-> T.base + Len(T.locals) + Len(T.work), this |-> T.this, that |-> T.that,
                  entering |-> T.entering, bottom |-> Len(AbsFrames) = 1]
  BY DEF VM!Shape, T
<1> QED
  BY <1>1, <1>3, <1>4 DEF Shape, x, b, l

LEMMA SameRules ==
  /\ \A c, s : VM!Allowed(c, s) = Allowed(c, s)
  /\ VM!Word = Word /\ VM!Unary = Unary /\ VM!Binary = Binary
  /\ VM!HeapAddr = HeapAddr /\ VM!NTemp = NTemp
BY DEF VM!Allowed, Allowed, VM!HasSegment, HasSegment, VM!Room, Room, VM!HeapAddr, HeapAddr,
       VM!NTemp, NTemp, VM!Unary, Unary, VM!Binary, Binary, VM!Compare, Compare, VM!Word, Word

LEMMA SameWrap == ASSUME NEW e PROVE VM!Wrap(e) = Wrap(e)
BY DEF VM!Wrap, Wrap

LEMMA SameSub == ASSUME NEW x, NEW y PROVE VM!Sub(x, y) = Sub(x, y)
<1> DEFINE e == x - y
<1>1. VM!Sub(x, y) = VM!Wrap(e)
  BY Zenon DEF VM!Sub
<1>2. Sub(x, y) = Wrap(e)
  BY Zenon DEF Sub
<1> HIDE DEF e
<1> QED
  BY <1>1, <1>2, SameWrap, Zenon

LEMMA SameAdd == ASSUME NEW x, NEW y PROVE VM!Add(x, y) = Add(x, y)
<1> DEFINE e == x + y
<1>1. VM!Add(x, y) = VM!Wrap(e)
  BY Zenon DEF VM!Add
<1>2. Add(x, y) = Wrap(e)
  BY Zenon DEF Add
<1> HIDE DEF e
<1> QED
  BY <1>1, <1>2, SameWrap, Zenon

LEMMA SubResult == ASSUME NEW x, NEW y PROVE VM!Results("sub", x, y) = {Sub(x, y)}
<1>1. VM!Results("sub", x, y) = {VM!Sub(x, y)}
  <2> DEFINE a == VM!Sub(x, y)
  <2> HIDE DEF a
  <2> QED
    BY DEF VM!Results, a
<1> QED
  BY <1>1, SameSub, Zenon

LEMMA AddResult == ASSUME NEW x, NEW y PROVE VM!Results("add", x, y) = {Add(x, y)}
<1>1. VM!Results("add", x, y) = {VM!Add(x, y)}
  BY DEF VM!Results
<1> QED
  BY <1>1, SameAdd, Zenon

-----------------------------------------------------------------------------
(* Commands that stay in their frame                                       *)

(* The running frame, its words taken from m.                               *)
TopAt(m) ==
  [ret |-> Top.ret, base |-> Top.base - StackBase,
   args |-> Cells(m, Top.argBase, Top.argBase + Top.args),
   locals |-> Cells(m, Top.base, Top.base + Top.locals),
   work |-> Cells(m, Top.base + Top.locals, m[SP]),
   this |-> m[THIS], that |-> m[THAT], entering |-> Top.entering]

LEMMA TopNow == ASSUME IInv, Running PROVE VM!Top = TopAt(ram)
BY TopFrame DEF TopAt

LEMMA StayTop ==
  ASSUME IInv, Running, IInv', Running', StaysInFrame
  PROVE  VM!SetTop(TopAt(ram'))
<1>1. /\ Laid(ram, calls) /\ Laid(ram', calls') /\ calls' = calls
      /\ AbsFrames = FramesAt(ram, calls)
  BY LaidNow, LaidNext, TopFrame DEF StaysInFrame
<1>2. \A a \in StackBase .. Top.argBase - 1 : ram'[a] = ram[a]
  <2> DEFINE b == Top.base
             g == Top.argBase
             k == Top.args
  <2>1. b \in Int /\ g \in Int /\ k \in Nat /\ b = g + k + 5 /\ StackBase \in Int
    BY Pointers, LayoutAssumption
  <2>2. \A a \in StackBase .. b - 1 : a \notin g .. g + k - 1 => ram'[a] = ram[a]
    BY DEF StaysInFrame
  <2> HIDE DEF b, g, k
  <2>3. \A a \in StackBase .. g - 1 : a \in StackBase .. b - 1 /\ a \notin g .. g + k - 1
    BY <2>1
  <2>4. \A a \in StackBase .. g - 1 : ram'[a] = ram[a]
    BY <2>2, <2>3
  <2> QED
    BY <2>4 DEF g
<1>3. KeepsBelow(ram, calls, ram', calls, Len(calls))
  BY <1>2 DEF KeepsBelow, Top
<1>4. FramesAt(ram', calls) =
        [FramesAt(ram, calls) EXCEPT ![Len(FramesAt(ram, calls))] = FrameAt(ram', calls, Len(calls))]
  BY <1>1, <1>3, OnlyTop
<1>5. AbsFrames' = FramesAt(ram', calls)
  BY <1>1, FramesOfNow, FramesOfLaid
<1>6. FrameAt(ram', calls, Len(calls)) = TopAt(ram')
  BY DEF FrameAt, TopAt, Top
<1> QED
  BY <1>1, <1>4, <1>5, <1>6 DEF VM!SetTop, VM!WithTop

(* What a command leaves alone outside the stack.                           *)
LEMMA StaticsStay ==
  ASSUME \A a \in 16 .. StackBase - 1 : ram'[a] = ram[a] PROVE UNCHANGED AbsStatics
<1>1. \A v \in Static : StaticAddr[v] \in 16 .. StackBase - 1
  BY LayoutAssumption
<1> QED
  BY <1>1 DEF AbsStatics

LEMMA TempsStay ==
  ASSUME \A a \in 5 .. 12 : ram'[a] = ram[a] PROVE UNCHANGED AbsTemps
<1>1. \A i \in 0 .. NTemp - 1 : base_temp + i \in 5 .. 12
  BY DEF NTemp, base_temp
<1> QED
  BY <1>1 DEF AbsTemps

LEMMA HeapStays ==
  ASSUME \A a \in HeapAddr : ram'[a] = ram[a] PROVE UNCHANGED AbsHeap
BY DEF AbsHeap

(* The addresses outside the stack and the registers.                      *)
LEMMA OutsideAddresses ==
  ASSUME NEW a, a \in 5 .. 12 \/ a \in 16 .. StackBase - 1 \/ a \in HeapAddr
  PROVE  /\ a \in Address /\ a \notin {SP, LCL, ARG, THIS, THAT, tmp_register, tmp_ret_register}
         /\ a \notin StackBase .. StackTop - 1
<1>1. /\ Half \in Nat /\ Half > 16 /\ StackBase \in Nat /\ 16 <= StackBase
      /\ StackTop \in Nat /\ StackTop < Half /\ StackBase <= StackTop
  BY HalfAssumption, LayoutAssumption
<1> QED
  BY <1>1 DEF HeapAddr, Address, SP, LCL, ARG, THIS, THAT, tmp_register, tmp_ret_register

(* A command that writes only registers and the stack.                     *)
LEMMA OutsideStays ==
  ASSUME \A a \in Address : /\ a \notin {SP, LCL, ARG, THIS, THAT, tmp_register, tmp_ret_register}
                            /\ a \notin StackBase .. StackTop - 1
                            => ram'[a] = ram[a]
  PROVE  UNCHANGED <<AbsStatics, AbsTemps, AbsHeap>>
<1>1. \A a : a \in 5 .. 12 \/ a \in 16 .. StackBase - 1 \/ a \in HeapAddr => ram'[a] = ram[a]
  BY OutsideAddresses
<1> QED
  BY <1>1, StaticsStay, TempsStay, HeapStays

(* The address that set_segment computes, when the language allows it.     *)
LEMMA Target ==
  ASSUME IInv, Running, NEW c \in PushPop, c.seg # "constant", HasSegment(c, Shape)
  PROVE  LET w == SegmentAddress(ram, c)
         IN /\ w \in Address /\ Addr(w) = w /\ w # SP /\ w # tmp_register
            /\ c.seg = "local"    => w = Top.base + c.idx /\ c.idx \in 0 .. Top.locals - 1
            /\ c.seg = "argument" => w = Top.argBase + c.idx /\ c.idx \in 0 .. Top.args - 1
            /\ c.seg = "this"     => w = ram[THIS] + c.idx /\ w \in HeapAddr
            /\ c.seg = "that"     => w = ram[THAT] + c.idx /\ w \in HeapAddr
            /\ c.seg = "temp"     => w = base_temp + c.idx /\ c.idx \in 0 .. NTemp - 1
            /\ c.seg = "pointer"  => w = base_pointer + c.idx /\ c.idx \in {0, 1}
            /\ c.seg = "static"   => w = StaticAddr[c.idx] /\ w \in 16 .. StackBase - 1
<1> DEFINE i == c.idx
           w == SegmentAddress(ram, c)
           x == ram[SP]
           b == Top.base
           l == Top.locals
           g == Top.argBase
           n == Top.args
           h == ram[THIS]
           t == ram[THAT]
<1>1. /\ x \in Int /\ b \in Int /\ l \in Nat /\ g \in Int /\ n \in Nat
      /\ b = g + n + 5 /\ b + l <= x /\ x <= StackTop /\ StackBase <= g
      /\ StackBase \in Nat /\ 16 <= StackBase /\ StackTop \in Nat /\ StackTop < Half
      /\ Half \in Nat /\ Half > 16
  BY Pointers, LayoutAssumption, HalfAssumption
<1>2. /\ ram \in Ram /\ ram[LCL] = b /\ ram[ARG] = g /\ h \in Word /\ t \in Word
  BY Pointers, Registers DEF Ram
<1>3. Shape.locals = l /\ Shape.args = n /\ Shape.this = h /\ Shape.that = t
  BY DEF Shape
<1>4. \A v \in Address : Addr(v) = v
  BY AddrOfAddress
<1>5. SP = 0 /\ tmp_register = 13 /\ base_temp = 5 /\ base_pointer = 3 /\ NTemp = 8
  BY DEF SP, tmp_register, base_temp, base_pointer, NTemp
<1>6. c.seg # "static" => i \in Nat
  BY PushPopFields, LayoutAssumption
<1>7. \A v \in Int : (1 <= v /\ v < 13) \/ (16 <= v /\ v < Half) =>
        v \in Address /\ v \in Word /\ v # SP /\ v # tmp_register
  BY <1>1, <1>5 DEF Address, Word
<1>8. CASE c.seg = "local"
  <2>1. w = Add(i, b) /\ i < l /\ i \in Nat
    BY <1>2, <1>3, <1>6, <1>8 DEF SegmentAddress, HasSegment
  <2> HIDE DEF i, w, x, b, l, g, n
  <2>2. i + b \in Int /\ 16 <= i + b /\ i + b < Half /\ i \in 0 .. l - 1 /\ i + b = b + i
    BY <1>1, <2>1
  <2>3. w = b + i /\ w \in Address /\ w # SP /\ w # tmp_register
    BY <1>7, <2>1, <2>2, WrapWord DEF Add
  <2> QED
    BY <1>4, <1>8, <2>2, <2>3 DEF w, b, i, l
<1>9. CASE c.seg = "argument"
  <2>1. w = Add(i, g) /\ i < n /\ i \in Nat
    BY <1>2, <1>3, <1>6, <1>9 DEF SegmentAddress, HasSegment
  <2> HIDE DEF i, w, x, b, l, g, n
  <2>2. i + g \in Int /\ 16 <= i + g /\ i + g < Half /\ i \in 0 .. n - 1 /\ i + g = g + i
    BY <1>1, <2>1
  <2>3. w = g + i /\ w \in Address /\ w # SP /\ w # tmp_register
    BY <1>7, <2>1, <2>2, WrapWord DEF Add
  <2> QED
    BY <1>4, <1>9, <2>2, <2>3 DEF w, g, i, n
<1>10. CASE c.seg = "this"
  <2>1. w = Add(i, h) /\ h + i \in HeapAddr /\ i \in Nat
    BY <1>3, <1>6, <1>10 DEF SegmentAddress, HasSegment
  <2> HIDE DEF i, w, h
  <2>2. i + h \in Int /\ 16 <= i + h /\ i + h < Half /\ i + h = h + i
    BY <1>1, <1>2, <2>1 DEF HeapAddr, Word
  <2>3. w = h + i /\ w \in Address /\ w # SP /\ w # tmp_register
    BY <1>7, <2>1, <2>2, WrapWord DEF Add
  <2> QED
    BY <1>4, <1>10, <2>1, <2>2, <2>3 DEF w, h, i
<1>11. CASE c.seg = "that"
  <2>1. w = Add(i, t) /\ t + i \in HeapAddr /\ i \in Nat
    BY <1>3, <1>6, <1>11 DEF SegmentAddress, HasSegment
  <2> HIDE DEF i, w, t
  <2>2. i + t \in Int /\ 16 <= i + t /\ i + t < Half /\ i + t = t + i
    BY <1>1, <1>2, <2>1 DEF HeapAddr, Word
  <2>3. w = t + i /\ w \in Address /\ w # SP /\ w # tmp_register
    BY <1>7, <2>1, <2>2, WrapWord DEF Add
  <2> QED
    BY <1>4, <1>11, <2>1, <2>2, <2>3 DEF w, t, i
<1>12. CASE c.seg = "temp"
  <2>1. w = base_temp + i /\ i < NTemp /\ i \in Nat
    BY <1>6, <1>12 DEF SegmentAddress, HasSegment
  <2> HIDE DEF i, w
  <2>2. w \in Address /\ w # SP /\ w # tmp_register /\ i \in 0 .. NTemp - 1
    BY <1>5, <1>7, <2>1
  <2> QED
    BY <1>4, <1>12, <2>1, <2>2 DEF w, i
<1>13. CASE c.seg = "pointer"
  <2>1. w = base_pointer + i /\ i < 2 /\ i \in Nat
    BY <1>6, <1>13 DEF SegmentAddress, HasSegment
  <2> HIDE DEF i, w
  <2>2. w \in Address /\ w # SP /\ w # tmp_register /\ i \in {0, 1}
    BY <1>5, <1>7, <2>1
  <2> QED
    BY <1>4, <1>13, <2>1, <2>2 DEF w, i
<1>14. CASE c.seg = "static"
  <2>1. w = StaticAddr[i] /\ w \in 16 .. StackBase - 1
    BY <1>14, PushPopFields, LayoutAssumption DEF SegmentAddress
  <2> HIDE DEF i, w
  <2>2. w \in Int /\ 16 <= w /\ w < Half
    BY <1>1, <2>1
  <2> QED
    BY <1>4, <1>7, <1>14, <2>1, <2>2 DEF w, i
<1> HIDE DEF i, w, x, b, l, g, n, h, t
<1> QED
  BY <1>8, <1>9, <1>10, <1>11, <1>12, <1>13, <1>14, PushPopFields DEF Segment

(* What is read is the word at that address.                               *)
LEMMA ReadsTarget ==
  ASSUME IInv, Running, NEW c \in PushPop, HasSegment(c, Shape)
  PROVE  VM!Read(c) = IF c.seg = "constant" THEN c.idx ELSE ram[SegmentAddress(ram, c)]
<1> DEFINE i == c.idx
           w == SegmentAddress(ram, c)
<1>1. CASE c.seg = "constant"
  BY <1>1 DEF VM!Read
<1>2. CASE c.seg = "local"
  <2>1. w = Top.base + i /\ i \in 0 .. Top.locals - 1
    BY <1>2, Target
  <2>2. i + 1 \in 1 .. Top.locals /\ Top.base + (i + 1) - 1 = Top.base + i
    <3> DEFINE b == Top.base
               l == Top.locals
    <3>1. b \in Int /\ l \in Nat /\ i \in 0 .. l - 1
      BY <2>1, Pointers
    <3> HIDE DEF b, l, i
    <3>2. i + 1 \in 1 .. l /\ b + (i + 1) - 1 = b + i
      BY <3>1
    <3> QED
      BY <3>2 DEF b, l
  <2>3. VM!Top.locals[i + 1] = ram[w]
    BY <2>1, <2>2, TopFrame
  <2> QED
    BY <1>2, <2>3 DEF VM!Read
<1>3. CASE c.seg = "argument"
  <2>1. w = Top.argBase + i /\ i \in 0 .. Top.args - 1
    BY <1>3, Target
  <2>2. i + 1 \in 1 .. Top.args /\ Top.argBase + (i + 1) - 1 = Top.argBase + i
    <3> DEFINE g == Top.argBase
               n == Top.args
    <3>1. g \in Int /\ n \in Nat /\ i \in 0 .. n - 1
      BY <2>1, Pointers
    <3> HIDE DEF g, n, i
    <3>2. i + 1 \in 1 .. n /\ g + (i + 1) - 1 = g + i
      BY <3>1
    <3> QED
      BY <3>2 DEF g, n
  <2>3. VM!Top.args[i + 1] = ram[w]
    BY <2>1, <2>2, TopFrame
  <2> QED
    BY <1>3, <2>3 DEF VM!Read
<1>4. CASE c.seg = "this"
  <2>1. w = ram[THIS] + i /\ w \in HeapAddr
    BY <1>4, Target
  <2>2. VM!Top.this = ram[THIS]
    BY TopFrame
  <2> QED
    BY <1>4, <2>1, <2>2 DEF VM!Read, AbsHeap
<1>5. CASE c.seg = "that"
  <2>1. w = ram[THAT] + i /\ w \in HeapAddr
    BY <1>5, Target
  <2>2. VM!Top.that = ram[THAT]
    BY TopFrame
  <2> QED
    BY <1>5, <2>1, <2>2 DEF VM!Read, AbsHeap
<1>6. CASE c.seg = "temp"
  <2>1. w = base_temp + i /\ i \in 0 .. NTemp - 1
    BY <1>6, Target
  <2> QED
    BY <1>6, <2>1 DEF VM!Read, AbsTemps
<1>7. CASE c.seg = "pointer"
  <2>1. w = base_pointer + i /\ i \in {0, 1}
    BY <1>7, Target
  <2>2. w = IF i = 0 THEN THIS ELSE THAT
    BY <2>1 DEF base_pointer, THIS, THAT
  <2>3. VM!Top.this = ram[THIS] /\ VM!Top.that = ram[THAT]
    BY TopFrame
  <2> QED
    BY <1>7, <2>2, <2>3 DEF VM!Read
<1>8. CASE c.seg = "static"
  <2>1. w = StaticAddr[i] /\ i \in Static
    BY <1>8, Target, PushPopFields
  <2> QED
    BY <1>8, <2>1 DEF VM!Read, AbsStatics
<1> QED
  BY <1>1, <1>2, <1>3, <1>4, <1>5, <1>6, <1>7, <1>8, PushPopFields DEF Segment

(* Where the running frame lies.                                           *)
LEMMA TopBounds ==
  ASSUME IInv, Running
  PROVE  /\ Top.argBase \in Nat /\ Top.args \in Nat /\ Top.base \in Nat /\ Top.locals \in Nat
         /\ ram[SP] \in Nat /\ ram \in Ram /\ StackBase \in Nat /\ StackTop \in Nat /\ Half \in Nat
         /\ 16 <= StackBase /\ StackBase <= Top.argBase
         /\ Top.base = Top.argBase + Top.args + 5
         /\ Top.base + Top.locals <= ram[SP] /\ ram[SP] <= StackTop /\ StackTop < Half
<1> DEFINE g == Top.argBase
           a == Top.args
           b == Top.base
           l == Top.locals
           x == ram[SP]
<1>1. /\ g \in Int /\ a \in Nat /\ b \in Int /\ l \in Nat /\ x \in Int /\ StackBase <= g
      /\ b = g + a + 5 /\ b + l <= x /\ x <= StackTop /\ ram \in Ram
  BY Pointers
<1>2. /\ StackBase \in Nat /\ 16 <= StackBase /\ StackTop \in Nat /\ StackTop < Half
      /\ Half \in Nat
  BY LayoutAssumption, HalfAssumption
<1> HIDE DEF g, a, b, l, x
<1>3. g \in Nat /\ b \in Nat
  BY <1>1, <1>2
<1>4. x \in Nat
  BY <1>1, <1>3
<1> QED
  BY <1>1, <1>2, <1>3, <1>4 DEF g, a, b, l, x

(* A command that writes SP, R13 and stack words from y on, with y above    *)
(* the locals, changes nothing but the operand stack.                      *)
LEMMA WorkOnly ==
  ASSUME IInv, Running, ram' \in Ram, NEW y \in Int, Top.base + Top.locals <= y, y <= ram[SP],
         \A z \in Address \ {SP, tmp_register} : z \notin y .. StackTop - 1 => ram'[z] = ram[z]
  PROVE  LET s == Cells(ram, Top.base + Top.locals, y)
         IN /\ s = VM!Without(VM!Top.work, ram[SP] - y)
            /\ y = ram[SP] => s = VM!Top.work
            /\ ram'[SP] = y => TopAt(ram') = [VM!Top EXCEPT !.work = s]
            /\ ram'[SP] = y + 1 => TopAt(ram') = [VM!Top EXCEPT !.work = Append(s, ram'[y])]
            /\ UNCHANGED <<AbsStatics, AbsTemps, AbsHeap>>
<1> DEFINE g == Top.argBase
           a == Top.args
           b == Top.base
           l == Top.locals
           x == ram[SP]
           gEnd == g + a
           bEnd == b + l
           s == Cells(ram, bEnd, y)
<1>1. /\ g \in Nat /\ a \in Nat /\ b \in Nat /\ l \in Nat /\ x \in Nat /\ ram \in Ram
      /\ StackBase \in Nat /\ StackTop \in Nat /\ Half \in Nat
      /\ 16 <= StackBase /\ StackBase <= g /\ b = g + a + 5 /\ bEnd <= x /\ x <= StackTop
      /\ StackTop < Half
  BY TopBounds
<1>2. bEnd <= y /\ y <= x
  OBVIOUS
<1>3. VM!Top = TopAt(ram)
  BY TopNow
<1>4. /\ TopAt(ram) = [ret |-> Top.ret, base |-> b - StackBase, args |-> Cells(ram, g, gEnd),
                       locals |-> Cells(ram, b, bEnd), work |-> Cells(ram, bEnd, x),
                       this |-> ram[THIS], that |-> ram[THAT], entering |-> Top.entering]
      /\ TopAt(ram') = [ret |-> Top.ret, base |-> b - StackBase, args |-> Cells(ram', g, gEnd),
                        locals |-> Cells(ram', b, bEnd), work |-> Cells(ram', bEnd, ram'[SP]),
                        this |-> ram'[THIS], that |-> ram'[THAT], entering |-> Top.entering]
  BY DEF TopAt
<1>5. gEnd = g + a /\ bEnd = b + l
  OBVIOUS
<1> HIDE DEF g, a, b, l, x, gEnd, bEnd
<1>6. /\ gEnd \in Nat /\ bEnd \in Nat /\ y \in Nat /\ 16 <= g /\ gEnd <= b /\ y <= Half
      /\ b <= bEnd /\ x - y \in Nat /\ x - y <= x - bEnd /\ x <= Half /\ x - (x - y) = y
  BY <1>1, <1>2, <1>5
<1>7. \A z \in 16 .. y - 1 : ram'[z] = ram[z]
  <2>1. \A z \in 16 .. y - 1 : z \in Address \ {SP, tmp_register} /\ z \notin y .. StackTop - 1
    BY <1>1, <1>2, <1>6 DEF Address, SP, tmp_register
  <2> QED
    BY <2>1
<1>8. /\ Cells(ram', g, gEnd) = Cells(ram, g, gEnd) /\ Cells(ram', b, bEnd) = Cells(ram, b, bEnd)
      /\ Cells(ram', bEnd, y) = Cells(ram, bEnd, y)
  <2>1. /\ \A z \in g .. gEnd - 1 : z \in 16 .. y - 1
        /\ \A z \in b .. bEnd - 1 : z \in 16 .. y - 1
        /\ \A z \in bEnd .. y - 1 : z \in 16 .. y - 1
    BY <1>1, <1>2, <1>6
  <2>2. /\ \A z \in g .. gEnd - 1 : ram'[z] = ram[z]
        /\ \A z \in b .. bEnd - 1 : ram'[z] = ram[z]
        /\ \A z \in bEnd .. y - 1 : ram'[z] = ram[z]
    BY <1>7, <2>1
  <2> QED
    BY <1>1, <1>6, <2>2, CellsSame
<1>9. ram'[THIS] = ram[THIS] /\ ram'[THAT] = ram[THAT]
  <2>1. \A z \in {THIS, THAT} : z \in Address \ {SP, tmp_register} /\ z \notin y .. StackTop - 1
    BY <1>1, <1>2, <1>6, Registers DEF SP, THIS, THAT, tmp_register
  <2> QED
    BY <2>1
<1>10. s = VM!Without(Cells(ram, bEnd, x), x - y)
  <2> DEFINE k == x - y
  <2>1. /\ ram \in Ram /\ bEnd \in Nat /\ x \in Nat /\ bEnd <= x /\ x <= Half
        /\ k \in Nat /\ k <= x - bEnd /\ x - k = y
    BY <1>1, <1>6
  <2> HIDE DEF k
  <2>2. Cells(ram, bEnd, x - k) = VM!Without(Cells(ram, bEnd, x), k)
    BY <2>1, CellsCut
  <2> QED
    BY <2>1, <2>2 DEF k
<1>11. ASSUME ram'[SP] = y + 1 PROVE Cells(ram', bEnd, ram'[SP]) = Append(s, ram'[y])
  <2>1. ram'[SP] \in Word
    BY Registers DEF Ram
  <2>2. y < Half
    BY <1>1, <1>2
  <2>3. \A z \in bEnd .. y - 1 : ram'[z] = ram[z]
    <3>1. \A z \in bEnd .. y - 1 : z \in 16 .. y - 1
      BY <1>1, <1>2, <1>6
    <3> QED
      BY <1>7, <3>1
  <2>4. Cells(ram', bEnd, y + 1) = Append(Cells(ram, bEnd, y), ram'[y])
    BY <1>1, <1>2, <1>6, <2>2, <2>3, CellsPush
  <2> QED
    BY <1>11, <2>4
<1>12. UNCHANGED <<AbsStatics, AbsTemps, AbsHeap>>
  <2>1. \A z \in y .. StackTop - 1 : z \in StackBase .. StackTop - 1
    BY <1>1, <1>2, <1>6
  <2>2. \A z \in Address :
          /\ z \notin {SP, LCL, ARG, THIS, THAT, tmp_register, tmp_ret_register}
          /\ z \notin StackBase .. StackTop - 1
          => ram'[z] = ram[z]
    BY <2>1
  <2> QED
    BY <2>2, OutsideStays
<1> HIDE DEF s
<1>13. /\ s = VM!Without(VM!Top.work, x - y)
       /\ y = x => s = VM!Top.work
  BY <1>3, <1>4, <1>10 DEF s
<1>14. ram'[SP] = y => TopAt(ram') = [VM!Top EXCEPT !.work = s]
  BY <1>3, <1>4, <1>8, <1>9 DEF s
<1>15. ram'[SP] = y + 1 => TopAt(ram') = [VM!Top EXCEPT !.work = Append(s, ram'[y])]
  BY <1>3, <1>4, <1>8, <1>9, <1>11
<1> QED
  BY <1>12, <1>13, <1>14, <1>15 DEF s, bEnd, b, l, x

(* The word that push writes.                                              *)
LEMMA PushValue ==
  ASSUME NEW m \in Ram, NEW c \in PushPop, InStack(m[SP]),
         c.seg # "constant" => /\ SegmentAddress(m, c) \in Address
                               /\ SegmentAddress(m, c) # tmp_register
  PROVE  parse_push(m, c)[m[SP]]
           = IF c.seg = "constant" THEN c.idx ELSE m[SegmentAddress(m, c)]
<1>1. CASE c.seg = "constant"
  <2>1. c.idx \in Word
    BY <1>1, PushPopFields, LayoutAssumption, HalfAssumption DEF Word
  <2> QED
    BY <1>1, <2>1, PushEffect DEF parse_push
<1>2. CASE c.seg # "constant"
  <2> DEFINE w == SegmentAddress(m, c)
             s == set_segment(m, c)
             d == Load(s, s[tmp_register])
  <2>0. w \in Address /\ w # tmp_register /\ w \in Word /\ Addr(w) = w
    BY <1>2, AddrOfAddress, Registers
  <2>1. s = [m EXCEPT ![tmp_register] = w]
    BY AddrOfAddress, Registers DEF set_segment, Store
  <2> HIDE DEF w
  <2>2. /\ s \in Ram /\ s[SP] = m[SP] /\ s[tmp_register] = w /\ s[w] = m[w]
    BY <2>0, <2>1, Registers DEF Ram, SP, tmp_register
  <2> HIDE DEF s
  <2>3. d = m[w] /\ d \in Word
    BY <2>0, <2>2 DEF Load, Ram
  <2>4. parse_push(m, c) = PushD(s, d)
    BY <1>2 DEF parse_push, s
  <2> HIDE DEF d
  <2>5. PushD(s, d)[s[SP]] = d
    BY <2>2, <2>3, PushEffect
  <2> QED
    BY <1>2, <2>2, <2>3, <2>4, <2>5 DEF w
<1> QED
  BY <1>1, <1>2

LEMMA PushImplements ==
  ASSUME IInv, ~fault, IInv', Running', NEW c, Push(c)
  PROVE  VM!Push(c)
<1> DEFINE x == ram[SP]
           s == Cells(ram, Top.base + Top.locals, x)
<1>1. /\ Running /\ c \in PushPop /\ Allowed(c, Shape) /\ c.op = "push"
      /\ ram' = parse_push(ram, c) /\ ~fault'
  BY CommandAt, CommandFields DEF Push, Running
<1>2. HasSegment(c, Shape)
  BY <1>1, AllowedOp
<1>3. /\ ram \in Ram /\ InStack(x) /\ x \in Nat /\ Top.base + Top.locals <= x
      /\ x <= StackTop /\ StackTop \in Nat /\ ram' \in Ram
  BY <1>1, Pointers, TopBounds DEF IInv, TypeOK, Ram
<1>4. VM!SetTop(TopAt(ram'))
  BY <1>1, PushStays, StayTop
<1>5. ram'[x] = VM!Read(c)
  <2>1. c.seg # "constant" => /\ SegmentAddress(ram, c) \in Address
                              /\ SegmentAddress(ram, c) # tmp_register
    BY <1>1, <1>2, Target
  <2>2. ram'[x] = IF c.seg = "constant" THEN c.idx ELSE ram[SegmentAddress(ram, c)]
    BY <1>1, <1>3, <2>1, PushValue
  <2> QED
    BY <1>1, <1>2, <2>2, ReadsTarget
<1>6. /\ ram'[SP] = x + 1
      /\ \A z \in Address \ {SP, tmp_register} : z \notin x .. StackTop - 1 => ram'[z] = ram[z]
  <2>1. /\ ram'[SP] = x + 1
        /\ \A z \in Address \ {SP, tmp_register, x} : ram'[z] = ram[z]
    BY <1>1, <1>3, ParsePushEffect
  <2>2. x + 1 <= StackTop
    <3>1. Room(Shape, 1)
      BY <1>1, AllowedOp
    <3> QED
      BY <1>1, <3>1, ShapeBounds
  <2> HIDE DEF x
  <2>3. x \in x .. StackTop - 1
    BY <1>3, <2>2
  <2> QED
    BY <2>1, <2>3
<1>7. /\ s = VM!Top.work
      /\ TopAt(ram') = [VM!Top EXCEPT !.work = Append(s, ram'[x])]
      /\ UNCHANGED <<AbsStatics, AbsTemps, AbsHeap>>
  <2>1. x <= x /\ x \in Int
    BY <1>3
  <2> QED
    BY <1>1, <1>3, <1>6, <2>1, WorkOnly
<1> QED
  BY <1>1, <1>4, <1>5, <1>7 DEF VM!Push

LEMMA IfGotoImplements ==
  ASSUME IInv, ~fault, IInv', Running', NEW c, IfGoto(c)
  PROVE  VM!IfGoto(c) /\ IfValue(ram) = VM!Top.work[Len(VM!Top.work)]
<1> DEFINE x == ram[SP]
           b == Top.base
           l == Top.locals
           y == x - 1
<1>1. /\ Running /\ Allowed(c, Shape) /\ c.op = "if-goto" /\ ram' = DecSP(ram) /\ ~fault'
  BY CommandAt DEF IfGoto, parse_if, Running
<1>2. /\ ram \in Ram /\ InStack(x) /\ x \in Nat /\ b + l <= x - 1 /\ b \in Nat /\ l \in Nat
      /\ x <= StackTop /\ StackTop \in Nat /\ ram' \in Ram
  <2>1. Shape.work >= 1
    BY <1>1, AllowedOp
  <2>2. b + l <= x - 1
    BY <1>1, <2>1, ShapeBounds
  <2> QED
    BY <1>1, <2>2, Pointers, TopBounds DEF IInv, TypeOK, Ram
<1>3. VM!SetTop(TopAt(ram'))
  BY <1>1, IfGotoStays, StayTop
<1>4. /\ ram'[SP] = y /\ AtSP(ram') = ram[y]
      /\ \A z \in Address \ {SP, tmp_register} : z \notin y .. StackTop - 1 => ram'[z] = ram[z]
  BY <1>1, <1>2, DecEffect
<1>5. /\ TopAt(ram') = [VM!Top EXCEPT !.work = VM!Without(VM!Top.work, 1)]
      /\ UNCHANGED <<AbsStatics, AbsTemps, AbsHeap>>
  <2>1. y \in Int /\ y <= x /\ b + l <= y /\ x - y = 1
    BY <1>2
  <2> HIDE DEF y
  <2> QED
    BY <1>1, <1>2, <1>4, <2>1, WorkOnly
<1>6. IfValue(ram) = VM!Top.work[Len(VM!Top.work)]
  <2> DEFINE w == x - b - l
             work == VM!Top.work
  <2>1. Len(work) = w /\ w \in Nat /\ \A i \in 1 .. w : work[i] = ram[b + l + i - 1]
    BY <1>1, TopFrame
  <2> HIDE DEF work, x, b, l
  <2>2. w \in 1 .. w /\ b + l + w - 1 = y
    BY <1>2
  <2>3. work[w] = ram[y]
    BY <2>1, <2>2
  <2>4. IfValue(ram) = ram[y]
    BY <1>1, <1>4 DEF IfValue
  <2> QED
    BY <2>1, <2>3, <2>4 DEF work
<1> QED
  BY <1>1, <1>3, <1>5, <1>6 DEF VM!IfGoto

LEMMA JumpImplements ==
  ASSUME IInv, ~fault, NEW c
  PROVE  (Label(c) => VM!Label(c)) /\ (Goto(c) => VM!Goto(c))
<1>1. UNCHANGED <<ram, calls>> => UNCHANGED <<AbsFrames, AbsStatics, AbsTemps, AbsHeap>>
  BY DEF AbsFrames, AbsFrame, Words, WorkEnd, AbsStatics, AbsTemps, AbsHeap
<1>2. (Label(c) => c.op = "label") /\ (Goto(c) => c.op = "goto")
  BY DEF Label, Goto, Command_
<1> QED
  BY <1>1, <1>2 DEF Label, Goto, VM!Label, VM!Goto

(* The word that an arithmetic command writes.                              *)
LEMMA ArithValue ==
  ASSUME NEW m \in Ram, NEW c \in Command, c.op = "arithmetic",
         NEW n \in {1, 2}, n = IF c.fn \in Unary THEN 1 ELSE 2,
         InStack(m[SP]), InStack(m[SP] - n)
  PROVE  parse_arithmetic(m, c)[m[SP] - n]
           = IF c.fn \in Unary
             THEN IF c.fn = "neg" THEN Neg(m[m[SP] - 1]) ELSE Not(m[m[SP] - 1])
             ELSE Compute(c.fn, m[m[SP] - 2], m[m[SP] - 1])
<1> DEFINE p == DecSP(m)
           q == DecSP(p)
           x == m[SP]
           u == m[x - 1]
<1>0. x \in Int /\ x - 1 \in Address /\ x - 2 \in Address
  BY StackAddresses DEF InStack
<1>1. /\ p \in Ram /\ p[SP] = x - 1 /\ AtSP(p) = u /\ u \in Word
      /\ \A a \in Address \ {SP} : p[a] = m[a]
  BY <1>0, DecEffect DEF Ram
<1>2. CASE c.fn \in Unary
  <2> DEFINE d == IF c.fn = "neg" THEN Neg(u) ELSE Not(u)
  <2>1. d \in Word
    BY <1>1, WordOps
  <2>2. parse_arithmetic(m, c) = PushD(p, d)
    BY <1>1, <1>2 DEF parse_arithmetic
  <2> HIDE DEF p, d
  <2>3. PushD(p, d)[p[SP]] = d
    BY <1>1, <1>2, <2>1, PushEffect
  <2> QED
    BY <1>1, <1>2, <2>2, <2>3 DEF d
<1>3. CASE c.fn \notin Unary
  <2> DEFINE v == m[x - 2]
             d == Compute(c.fn, v, u)
  <2>1. n = 2 /\ InStack(p[SP])
    <3>1. x - 1 \in 16 .. StackTop
      BY <1>0, <1>3, LayoutAssumption DEF InStack
    <3> QED
      BY <1>1, <1>3, <3>1 DEF InStack
  <2>2. q \in Ram /\ q[SP] = x - 2 /\ AtSP(q) = v /\ v \in Word
    <3> HIDE DEF p, x
    <3>1. p[SP] - 1 = x - 2
      BY <1>0, <1>1
    <3>2. InStack(x - 2)
      BY <2>1 DEF x
    <3>3. x - 2 # SP
      BY <3>2 DEF InStack, SP
    <3>4. p[x - 2] = m[x - 2] /\ m[x - 2] \in Word
      BY <1>0, <1>1, <3>3 DEF Ram
    <3>5. q \in Ram /\ q[SP] = p[SP] - 1 /\ AtSP(q) = p[p[SP] - 1]
      BY <1>1, <2>1, DecEffect
    <3> QED
      BY <3>1, <3>4, <3>5
  <2>3. d \in Word
    BY <1>1, <1>3, <2>2, ComputeType, CommandFields
  <2>4. parse_arithmetic(m, c) = PushD(q, d)
    BY <1>1, <1>3, <2>2 DEF parse_arithmetic
  <2> HIDE DEF p, q, d
  <2>5. PushD(q, d)[q[SP]] = d
    BY <2>1, <2>2, <2>3, PushEffect
  <2> QED
    BY <1>3, <2>1, <2>2, <2>4, <2>5 DEF d
<1> QED
  BY <1>2, <1>3

(* The ALU computes y - x and changes the sign, or tests it: the result is  *)
(* that of the command, and for lt and gt as long as the difference is one  *)
(* a word can hold.                                                        *)
LEMMA ComputesResult ==
  ASSUME NEW fn \in Binary, NEW x \in Word, NEW y \in Word
  PROVE  Compute(fn, x, y) \in VM!Results(fn, x, y)
<1> DEFINE d == Sub(y, x)
<1>1. Half \in Nat /\ Half > 16 /\ x \in 0 .. 2 * Half - 1 /\ y \in 0 .. 2 * Half - 1
  BY HalfAssumption DEF Word
<1>2. /\ y < x => d = y - x + 2 * Half
      /\ y >= x => d = y - x
      /\ x < y => Sub(x, y) = x - y + 2 * Half
      /\ x >= y => Sub(x, y) = x - y
      /\ d \in 0 .. 2 * Half - 1
  <2>1. d = Wrap(y - x) /\ Sub(x, y) = Wrap(x - y)
    BY DEF Sub
  <2>2. y - x \in Int /\ x - y \in Int /\ y - x < 2 * Half /\ x - y < 2 * Half
    BY <1>1
  <2>3. \A e \in Int : /\ e < 0 => Wrap(e) = e + 2 * Half
                       /\ e >= 0 /\ e < 2 * Half => Wrap(e) = e
    BY <1>1 DEF Wrap
  <2> HIDE DEF d
  <2>4. /\ y < x => d = y - x + 2 * Half
        /\ y >= x => d = y - x
        /\ x < y => Sub(x, y) = x - y + 2 * Half
        /\ x >= y => Sub(x, y) = x - y
    BY <1>1, <2>1, <2>2, <2>3
  <2>5. d \in 0 .. 2 * Half - 1
    BY <1>1, <2>4
  <2> QED
    BY <2>4, <2>5
<1>3. CASE fn = "add"
  <2>1. Add(y, x) = Add(x, y)
    BY <1>1 DEF Add
  <2>2. Compute(fn, x, y) = Add(y, x)
    BY <1>3 DEF Compute, Compare
  <2>3. VM!Results(fn, x, y) = {Add(x, y)}
    BY <1>3, AddResult, Zenon
  <2> QED
    BY <2>1, <2>2, <2>3, Zenon
<1>4. CASE fn = "sub"
  <2>1. Neg(d) = Sub(x, y)
    <3> HIDE DEF d
    <3>1. d = 0 => Neg(d) = 0
      <4>1. \A e \in Nat : e <= 0 => -e = 0
        OBVIOUS
      <4>2. d \in Nat /\ (d = 0 => d <= 0)
        BY <1>1, <1>2
      <4>3. Wrap(0) = 0
        BY WrapWord, HalfAssumption DEF Word
      <4>4. d <= 0 => Neg(d) = 0
        BY <4>1, <4>2, <4>3 DEF Neg
      <4> QED
        BY <4>2, <4>4
    <3>2. d > 0 => Neg(d) = -d + 2 * Half
      <4>1. d \in Nat
        BY <1>1, <1>2
      <4>2. d > 0 => -d \in Int /\ -d < 0
        BY <4>1
      <4> QED
        BY <4>2, WrapNegative DEF Neg
    <3>3. CASE d = 0
      <4>1. x = y
        BY <1>1, <1>2, <3>3
      <4> QED
        BY <1>1, <1>2, <3>1, <3>3, <4>1
    <3>4. CASE d > 0
      <4>1. CASE y < x
        <5>1. x - y = -d + 2 * Half
          BY <1>1, <1>2, <4>1
        <5> QED
          BY <1>1, <1>2, <3>2, <3>4, <4>1, <5>1
      <4>2. CASE x < y
        <5>1. x - y = -d
          BY <1>1, <1>2, <4>2
        <5>2. Sub(x, y) = x - y + 2 * Half
          BY <1>2, <4>2
        <5>3. Neg(d) = -d + 2 * Half
          BY <3>2, <3>4
        <5> DEFINE h == 2 * Half
        <5> HIDE DEF h
        <5>4. Sub(x, y) = x - y + h /\ Neg(d) = -d + h
          BY <5>2, <5>3 DEF h
        <5> QED
          BY <5>1, <5>4
      <4>3. x # y
        BY <1>1, <1>2, <3>4
      <4> QED
        BY <1>1, <4>1, <4>2, <4>3
    <3> QED
      BY <1>1, <1>2, <3>3, <3>4
  <2> HIDE DEF d
  <2>2. Compute(fn, x, y) = Neg(d)
    BY <1>4 DEF Compute, Compare, d
  <2>3. VM!Results(fn, x, y) = {Sub(x, y)}
    BY <1>4, SubResult, Zenon
  <2> QED
    BY <2>1, <2>2, <2>3, Zenon
<1>5. CASE fn \in {"and", "or"}
  <2>1. And(y, x) = And(x, y) /\ Or(y, x) = Or(x, y)
    BY BitwiseAssumption
  <2> QED
    BY <1>5, <2>1 DEF Compute, Compare, VM!Results
<1>6. CASE fn = "eq"
  <2>1. d = 0 <=> x = y
    BY <1>1, <1>2
  <2> QED
    BY <1>6, <2>1 DEF Compute, Compare, parse_compare, VM!Results
<1> DEFINE Fits == Signed(y) - Signed(x) \in -Half .. Half - 1
<1>7. ASSUME Fits
      PROVE  /\ IsPositive(d) <=> Signed(x) < Signed(y)
             /\ IsNegative(d) <=> Signed(x) > Signed(y)
  BY <1>1, <1>2, <1>7 DEF IsPositive, IsNegative, Signed
<1>8. CASE fn = "lt"
  <2>1. Compute(fn, x, y) = IF IsPositive(d) THEN 2 * Half - 1 ELSE 0
    BY <1>8 DEF Compute, Compare, parse_compare
  <2>2. VM!Results(fn, x, y) = IF Fits THEN {IF Signed(x) < Signed(y) THEN 2 * Half - 1 ELSE 0}
                               ELSE {0, 2 * Half - 1}
    BY <1>8 DEF VM!Results, VM!Signed, Signed, VM!IsNegative, IsNegative
  <2> QED
    BY <1>7, <2>1, <2>2
<1>9. CASE fn = "gt"
  <2>1. Compute(fn, x, y) = IF IsNegative(d) THEN 2 * Half - 1 ELSE 0
    BY <1>9 DEF Compute, Compare, parse_compare
  <2>2. VM!Results(fn, x, y) = IF Fits THEN {IF Signed(x) > Signed(y) THEN 2 * Half - 1 ELSE 0}
                               ELSE {0, 2 * Half - 1}
    BY <1>9 DEF VM!Results, VM!Signed, Signed, VM!IsNegative, IsNegative
  <2> QED
    BY <1>7, <2>1, <2>2
<1> QED
  BY <1>3, <1>4, <1>5, <1>6, <1>8, <1>9 DEF Binary, Compare

LEMMA ArithImplements ==
  ASSUME IInv, ~fault, IInv', Running', NEW c, Arith(c)
  PROVE  VM!Arith(c)
<1> DEFINE x == ram[SP]
           b == Top.base
           l == Top.locals
           W == VM!Top.work
<1>1. /\ Running /\ c \in Command /\ Allowed(c, Shape) /\ c.op = "arithmetic"
      /\ ram' = parse_arithmetic(ram, c) /\ ~fault' /\ c.fn \in Unary \cup Binary
  BY CommandAt, CommandFields DEF Arith, Running
<1>2. PICK n \in {1, 2} : n = IF c.fn \in Unary THEN 1 ELSE 2
  OBVIOUS
<1>3. /\ ram \in Ram /\ InStack(x) /\ x \in Nat /\ b + l <= x - n /\ b \in Nat /\ l \in Nat
      /\ x <= StackTop /\ StackTop \in Nat /\ ram' \in Ram /\ 16 <= x - 5
  <2>1. Shape.work >= n
    BY <1>1, <1>2, AllowedOp
  <2>2. b + l <= x - n
    BY <1>1, <1>2, <2>1, ShapeBounds
  <2> QED
    BY <1>1, <2>2, Pointers, TopBounds DEF IInv, TypeOK, Ram
<1>4. InStack(x - n)
  BY <1>2, <1>3 DEF InStack
<1>5. VM!SetTop(TopAt(ram'))
  BY <1>1, ArithStays, StayTop
<1> DEFINE y == x - n
<1>6. /\ y \in Int /\ y <= x /\ b + l <= y /\ x - y = n
  BY <1>2, <1>3
<1>7. /\ ram'[SP] = y + 1
      /\ \A z \in Address \ {SP, tmp_register} : z \notin y .. StackTop - 1 => ram'[z] = ram[z]
  <2>1. /\ ram'[SP] = y + 1
        /\ \A z \in Address \ {SP, y} : ram'[z] = ram[z]
    BY <1>1, <1>2, <1>3, <1>4, ArithEffect
  <2>2. y \in y .. StackTop - 1
    BY <1>2, <1>3
  <2> HIDE DEF y
  <2> QED
    BY <2>1, <2>2
<1>8. /\ TopAt(ram') = [VM!Top EXCEPT !.work = Append(VM!Without(W, n), ram'[y])]
      /\ UNCHANGED <<AbsStatics, AbsTemps, AbsHeap>>
  <2> HIDE DEF y
  <2> QED
    BY <1>1, <1>3, <1>6, <1>7, WorkOnly
<1>9. /\ W[Len(W)] = ram[x - 1]
      /\ n = 2 => W[Len(W) - 1] = ram[x - 2]
      /\ ram[x - 1] \in Word /\ ram[x - 2] \in Word
  <2> DEFINE w == x - b - l
  <2>1. Len(W) = w /\ w \in Nat /\ \A i \in 1 .. w : W[i] = ram[b + l + i - 1]
    BY <1>1, TopFrame
  <2>2. x - 1 \in Address /\ x - 2 \in Address
    BY <1>3, StackAddresses
  <2> HIDE DEF W, x, b, l
  <2>3. /\ w \in 1 .. w /\ b + l + w - 1 = x - 1
        /\ n = 2 => w - 1 \in 1 .. w /\ b + l + (w - 1) - 1 = x - 2
    BY <1>2, <1>3
  <2> QED
    BY <1>3, <2>1, <2>2, <2>3 DEF Ram
<1>10. ram'[y] = IF c.fn \in Unary
                 THEN IF c.fn = "neg" THEN Neg(ram[x - 1]) ELSE Not(ram[x - 1])
                 ELSE Compute(c.fn, ram[x - 2], ram[x - 1])
  BY <1>1, <1>2, <1>3, <1>4, ArithValue
<1> HIDE DEF W, x, y
<1>11. CASE c.fn \in Unary
  <2>1. n = 1 /\ c.fn \in VM!Unary
    BY <1>2, <1>11, SameRules
  <2>2. ram'[y] = IF c.fn = "neg" THEN VM!Neg(W[Len(W)]) ELSE VM!Not(W[Len(W)])
    BY <1>9, <1>10, <1>11 DEF VM!Neg, Neg, VM!Not, Not, VM!Wrap, Wrap
  <2> QED
    BY <1>1, <1>5, <1>8, <2>1, <2>2 DEF VM!Arith, W
<1>12. CASE c.fn \notin Unary
  <2>1. n = 2 /\ c.fn \in Binary /\ c.fn \in VM!Binary
    BY <1>1, <1>2, <1>12, SameRules
  <2>2. ram'[y] \in VM!Results(c.fn, W[Len(W) - 1], W[Len(W)])
    BY <1>9, <1>10, <1>12, <2>1, ComputesResult
  <2> QED
    BY <1>1, <1>5, <1>8, <2>1, <2>2 DEF VM!Arith, W
<1> QED
  BY <1>11, <1>12

(* The word that pop writes.                                               *)
LEMMA PopValue ==
  ASSUME NEW m \in Ram, NEW c \in PushPop, c.seg # "constant", InStack(m[SP]),
         SegmentAddress(m, c) \in Address, SegmentAddress(m, c) # SP
  PROVE  parse_pop(m, c)[SegmentAddress(m, c)] = m[m[SP] - 1]
<1> DEFINE w == SegmentAddress(m, c)
           s == set_segment(m, c)
           p == DecSP(s)
           x == m[SP]
<1>1. w \in Address /\ Addr(w) = w /\ w \in Word /\ w # SP
  BY AddrOfAddress, Registers
<1>2. s = [m EXCEPT ![tmp_register] = w]
  BY AddrOfAddress, Registers DEF set_segment, Store
<1> HIDE DEF w
<1>3. /\ s \in Ram /\ s[SP] = x /\ s[tmp_register] = w
      /\ \A a \in Address \ {tmp_register} : s[a] = m[a]
  BY <1>1, <1>2, Registers DEF Ram, SP, tmp_register
<1>4. x - 1 \in Address \ {tmp_register}
  <2>1. x \in Int /\ 16 <= x
    BY DEF InStack
  <2> QED
    BY <2>1, StackAddresses DEF tmp_register
<1> HIDE DEF s, x
<1>5. /\ p \in Ram /\ AtSP(p) = s[s[SP] - 1] /\ p[tmp_register] = s[tmp_register]
  <2>1. InStack(s[SP])
    BY <1>3 DEF x
  <2>2. tmp_register \in Address \ {SP}
    BY Registers DEF tmp_register, SP
  <2> QED
    BY <1>3, <2>1, <2>2, DecEffect
<1>6. parse_pop(m, c) = [p EXCEPT ![w] = AtSP(p)]
  BY <1>1, <1>3, <1>5 DEF parse_pop, Store, s
<1>7. AtSP(p) = m[x - 1]
  BY <1>3, <1>4, <1>5
<1> HIDE DEF p
<1>8. parse_pop(m, c)[w] = m[x - 1]
  BY <1>1, <1>5, <1>6, <1>7 DEF Ram
<1> QED
  BY <1>8 DEF w, x

(* A command that takes the top of the operand stack and writes one word t  *)
(* elsewhere.                                                              *)
LEMMA OneWord ==
  ASSUME IInv, Running, ram' \in Ram, Top.base + Top.locals <= ram[SP] - 1, ram'[SP] = ram[SP] - 1,
         NEW t \in Address, t # SP, t \notin Top.base + Top.locals .. StackTop - 1,
         \A z \in Address \ {SP, tmp_register, t} : ram'[z] = ram[z]
  PROVE  /\ TopAt(ram').ret = VM!Top.ret /\ TopAt(ram').base = VM!Top.base
         /\ TopAt(ram').entering = VM!Top.entering
         /\ TopAt(ram').work = VM!Without(VM!Top.work, 1)
         /\ t \notin Top.argBase .. Top.argBase + Top.args - 1 => TopAt(ram').args = VM!Top.args
         /\ \A i \in 0 .. Top.args - 1 :
              t = Top.argBase + i
                => TopAt(ram').args = [VM!Top.args EXCEPT ![i + 1] = ram'[t]]
         /\ t \notin Top.base .. Top.base + Top.locals - 1 => TopAt(ram').locals = VM!Top.locals
         /\ \A i \in 0 .. Top.locals - 1 :
              t = Top.base + i
                => TopAt(ram').locals = [VM!Top.locals EXCEPT ![i + 1] = ram'[t]]
         /\ TopAt(ram').this = IF t = THIS THEN ram'[t] ELSE VM!Top.this
         /\ TopAt(ram').that = IF t = THAT THEN ram'[t] ELSE VM!Top.that
         /\ t \notin 16 .. StackBase - 1 => UNCHANGED AbsStatics
         /\ t \notin 5 .. 12 => UNCHANGED AbsTemps
         /\ t \notin HeapAddr => UNCHANGED AbsHeap
<1> DEFINE g == Top.argBase
           a == Top.args
           b == Top.base
           l == Top.locals
           x == ram[SP]
           gEnd == g + a
           bEnd == b + l
<1>1. /\ g \in Nat /\ a \in Nat /\ b \in Nat /\ l \in Nat /\ x \in Nat /\ ram \in Ram
      /\ StackBase \in Nat /\ StackTop \in Nat /\ Half \in Nat
      /\ 16 <= StackBase /\ StackBase <= g /\ b = g + a + 5 /\ bEnd <= x /\ x <= StackTop
      /\ StackTop < Half
  BY TopBounds
<1>2. bEnd <= x - 1 /\ t \notin bEnd .. StackTop - 1 /\ ram'[SP] = x - 1
  OBVIOUS
<1>3. VM!Top = TopAt(ram)
  BY TopNow
<1>4. /\ TopAt(ram) = [ret |-> Top.ret, base |-> b - StackBase, args |-> Cells(ram, g, gEnd),
                       locals |-> Cells(ram, b, bEnd), work |-> Cells(ram, bEnd, x),
                       this |-> ram[THIS], that |-> ram[THAT], entering |-> Top.entering]
      /\ TopAt(ram') = [ret |-> Top.ret, base |-> b - StackBase, args |-> Cells(ram', g, gEnd),
                        locals |-> Cells(ram', b, bEnd), work |-> Cells(ram', bEnd, ram'[SP]),
                        this |-> ram'[THIS], that |-> ram'[THAT], entering |-> Top.entering]
  BY DEF TopAt
<1>5. gEnd = g + a /\ bEnd = b + l
  OBVIOUS
<1> HIDE DEF g, a, b, l, x, gEnd, bEnd
<1>6. /\ gEnd \in Nat /\ bEnd \in Nat /\ 16 <= g /\ gEnd <= b /\ x <= Half
      /\ b <= bEnd /\ x - 1 \in Nat /\ 1 <= x - bEnd
  BY <1>1, <1>2, <1>5
<1>7. \A z \in 16 .. x - 1 : z # t => ram'[z] = ram[z]
  <2>1. \A z \in 16 .. x - 1 : z \in Address \ {SP, tmp_register}
    BY <1>1, <1>6 DEF Address, SP, tmp_register
  <2> QED
    BY <2>1
<1>8. /\ \A z \in g .. gEnd - 1 : z # t => ram'[z] = ram[z]
      /\ \A z \in b .. bEnd - 1 : z # t => ram'[z] = ram[z]
      /\ \A z \in bEnd .. (x - 1) - 1 : ram'[z] = ram[z]
  <2>1. /\ \A z \in g .. gEnd - 1 : z \in 16 .. x - 1
        /\ \A z \in b .. bEnd - 1 : z \in 16 .. x - 1
        /\ \A z \in bEnd .. (x - 1) - 1 : z \in 16 .. x - 1 /\ z \in bEnd .. StackTop - 1
    BY <1>1, <1>2, <1>6
  <2> QED
    BY <1>2, <1>7, <2>1
<1>9. t \notin g .. gEnd - 1 => Cells(ram', g, gEnd) = Cells(ram, g, gEnd)
  <2> SUFFICES ASSUME t \notin g .. gEnd - 1 PROVE Cells(ram', g, gEnd) = Cells(ram, g, gEnd)
    OBVIOUS
  <2>1. \A z \in g .. gEnd - 1 : ram'[z] = ram[z]
    BY <1>8
  <2> QED
    BY <1>1, <1>6, <2>1, CellsSame
<1>10. t \notin b .. bEnd - 1 => Cells(ram', b, bEnd) = Cells(ram, b, bEnd)
  <2> SUFFICES ASSUME t \notin b .. bEnd - 1 PROVE Cells(ram', b, bEnd) = Cells(ram, b, bEnd)
    OBVIOUS
  <2>1. \A z \in b .. bEnd - 1 : ram'[z] = ram[z]
    BY <1>8
  <2> QED
    BY <1>1, <1>6, <2>1, CellsSame
<1>11. ASSUME NEW i \in 0 .. a - 1, t = g + i
       PROVE  Cells(ram', g, gEnd) = [Cells(ram, g, gEnd) EXCEPT ![i + 1] = ram'[t]]
  <2>1. g \in Int /\ gEnd \in Int /\ i \in Nat /\ g + i < gEnd
    BY <1>1, <1>5, <1>6
  <2>2. \A z \in g .. gEnd - 1 : z # g + i => ram'[z] = ram[z]
    BY <1>8, <1>11
  <2> QED
    BY <1>11, <2>1, <2>2, CellsPut
<1>12. ASSUME NEW i \in 0 .. l - 1, t = b + i
       PROVE  Cells(ram', b, bEnd) = [Cells(ram, b, bEnd) EXCEPT ![i + 1] = ram'[t]]
  <2>1. b \in Int /\ bEnd \in Int /\ i \in Nat /\ b + i < bEnd
    BY <1>1, <1>5, <1>6
  <2>2. \A z \in b .. bEnd - 1 : z # b + i => ram'[z] = ram[z]
    BY <1>8, <1>12
  <2> QED
    BY <1>12, <2>1, <2>2, CellsPut
<1>13. Cells(ram', bEnd, ram'[SP]) = VM!Without(Cells(ram, bEnd, x), 1)
  <2> DEFINE y == x - 1
  <2>1. y \in Int /\ bEnd \in Int /\ \A z \in bEnd .. y - 1 : ram'[z] = ram[z]
    BY <1>6, <1>8
  <2>2. Cells(ram', bEnd, y) = Cells(ram, bEnd, y)
    <3> HIDE DEF y
    <3> QED
      BY <2>1, CellsSame
  <2>3. Cells(ram, bEnd, x - 1) = VM!Without(Cells(ram, bEnd, x), 1)
    <3>1. ram \in Ram /\ bEnd \in Nat /\ x \in Nat /\ bEnd <= x /\ x <= Half /\ 1 \in Nat
      BY <1>1, <1>6
    <3>2. 1 <= x - bEnd
      BY <1>6
    <3> QED
      BY <3>1, <3>2, CellsCut
  <2> QED
    BY <1>2, <2>2, <2>3
<1>14. /\ ram'[THIS] = IF t = THIS THEN ram'[t] ELSE ram[THIS]
       /\ ram'[THAT] = IF t = THAT THEN ram'[t] ELSE ram[THAT]
  <2>1. \A z \in {THIS, THAT} : z \in Address \ {SP, tmp_register}
    BY Registers DEF SP, THIS, THAT, tmp_register
  <2> QED
    BY <2>1
<1>15. \A z : (z \in 5 .. 12 \/ z \in 16 .. StackBase - 1 \/ z \in HeapAddr) /\ z # t
                => ram'[z] = ram[z]
  BY OutsideAddresses
<1>16. /\ t \notin 16 .. StackBase - 1 => UNCHANGED AbsStatics
       /\ t \notin 5 .. 12 => UNCHANGED AbsTemps
       /\ t \notin HeapAddr => UNCHANGED AbsHeap
  <2>1. t \notin 16 .. StackBase - 1 => \A z \in 16 .. StackBase - 1 : ram'[z] = ram[z]
    BY <1>15
  <2>2. t \notin 5 .. 12 => \A z \in 5 .. 12 : ram'[z] = ram[z]
    BY <1>15
  <2>3. t \notin HeapAddr => \A z \in HeapAddr : ram'[z] = ram[z]
    BY <1>15
  <2> QED
    BY <2>1, <2>2, <2>3, StaticsStay, TempsStay, HeapStays
<1>17. /\ \A i \in 0 .. a - 1 : t = g + i
                => Cells(ram', g, gEnd) = [Cells(ram, g, gEnd) EXCEPT ![i + 1] = ram'[t]]
       /\ \A i \in 0 .. l - 1 : t = b + i
                => Cells(ram', b, bEnd) = [Cells(ram, b, bEnd) EXCEPT ![i + 1] = ram'[t]]
  BY <1>11, <1>12
<1> DEFINE T == TopAt(ram')
           V == VM!Top
<1>18. /\ T.ret = V.ret /\ T.base = V.base /\ T.entering = V.entering
       /\ T.args = Cells(ram', g, gEnd) /\ V.args = Cells(ram, g, gEnd)
       /\ T.locals = Cells(ram', b, bEnd) /\ V.locals = Cells(ram, b, bEnd)
       /\ T.work = Cells(ram', bEnd, ram'[SP]) /\ V.work = Cells(ram, bEnd, x)
       /\ T.this = ram'[THIS] /\ V.this = ram[THIS] /\ T.that = ram'[THAT] /\ V.that = ram[THAT]
  BY <1>3, <1>4
<1> HIDE DEF T, V
<1>19. /\ T.work = VM!Without(V.work, 1)
       /\ t \notin g .. gEnd - 1 => T.args = V.args
       /\ \A i \in 0 .. a - 1 : t = g + i => T.args = [V.args EXCEPT ![i + 1] = ram'[t]]
       /\ t \notin b .. bEnd - 1 => T.locals = V.locals
       /\ \A i \in 0 .. l - 1 : t = b + i => T.locals = [V.locals EXCEPT ![i + 1] = ram'[t]]
       /\ T.this = IF t = THIS THEN ram'[t] ELSE V.this
       /\ T.that = IF t = THAT THEN ram'[t] ELSE V.that
  BY <1>9, <1>10, <1>13, <1>14, <1>17, <1>18

<1> QED
  <2>1. /\ T.ret = V.ret /\ T.base = V.base /\ T.entering = V.entering
        /\ T.work = VM!Without(V.work, 1)
        /\ T.this = IF t = THIS THEN ram'[t] ELSE V.this
        /\ T.that = IF t = THAT THEN ram'[t] ELSE V.that
    BY <1>18, <1>19
  <2>2. /\ t \notin g .. g + a - 1 => T.args = V.args
        /\ t \notin b .. b + l - 1 => T.locals = V.locals
    <3>1. /\ t \notin g .. gEnd - 1 => T.args = V.args
          /\ t \notin b .. bEnd - 1 => T.locals = V.locals
      BY <1>19
    <3>2. gEnd - 1 = g + a - 1 /\ bEnd - 1 = b + l - 1
      BY <1>1, <1>5
    <3> QED
      BY <3>1, <3>2
  <2>3. /\ \A i \in 0 .. a - 1 : t = g + i => T.args = [V.args EXCEPT ![i + 1] = ram'[t]]
        /\ \A i \in 0 .. l - 1 : t = b + i => T.locals = [V.locals EXCEPT ![i + 1] = ram'[t]]
    BY <1>19
  <2> USE DEF T, V, g, a, b, l
  <2>4. /\ TopAt(ram').ret = VM!Top.ret /\ TopAt(ram').base = VM!Top.base
        /\ TopAt(ram').entering = VM!Top.entering
        /\ TopAt(ram').work = VM!Without(VM!Top.work, 1)
        /\ TopAt(ram').this = IF t = THIS THEN ram'[t] ELSE VM!Top.this
        /\ TopAt(ram').that = IF t = THAT THEN ram'[t] ELSE VM!Top.that
    BY <2>1
  <2>5. /\ t \notin Top.argBase .. Top.argBase + Top.args - 1 => TopAt(ram').args = VM!Top.args
        /\ t \notin Top.base .. Top.base + Top.locals - 1 => TopAt(ram').locals = VM!Top.locals
    BY <2>2
  <2>6. /\ \A i \in 0 .. Top.args - 1 :
             t = Top.argBase + i
               => TopAt(ram').args = [VM!Top.args EXCEPT ![i + 1] = ram'[t]]
        /\ \A i \in 0 .. Top.locals - 1 :
             t = Top.base + i
               => TopAt(ram').locals = [VM!Top.locals EXCEPT ![i + 1] = ram'[t]]
    BY <2>3
  <2> QED
    BY <1>16, <2>4, <2>5, <2>6

LEMMA PopImplements ==
  ASSUME IInv, ~fault, IInv', Running', NEW c, Pop(c)
  PROVE  VM!Pop(c)
<1> DEFINE x == ram[SP]
           t == SegmentAddress(ram, c)
           i == c.idx
           b == Top.base
           l == Top.locals
           g == Top.argBase
           a == Top.args
           W == VM!Top.work
           v == W[Len(W)]
           T == TopAt(ram')
<1>1. /\ Running /\ c \in PushPop /\ Allowed(c, Shape) /\ c.op = "pop" /\ c.seg # "constant"
      /\ ram' = parse_pop(ram, c) /\ ~fault' /\ HasSegment(c, Shape)
  <2>1. /\ Running /\ c \in PushPop /\ Allowed(c, Shape) /\ c.op = "pop"
        /\ ram' = parse_pop(ram, c) /\ ~fault'
    BY CommandAt, CommandFields DEF Pop, Running
  <2> QED
    BY <2>1, PushPopFields, AllowedOp
<1>2. /\ ram \in Ram /\ InStack(x) /\ b + l <= x - 1 /\ ram' \in Ram
  <2>1. Shape.work >= 1
    BY <1>1, AllowedOp
  <2>2. b + l <= x - 1
    BY <1>1, <2>1, ShapeBounds
  <2> QED
    BY <1>1, <2>2, Pointers DEF IInv, TypeOK, Ram
<1>3. /\ g \in Nat /\ a \in Nat /\ b \in Nat /\ l \in Nat /\ x \in Nat
      /\ StackBase \in Nat /\ StackTop \in Nat /\ Half \in Nat
      /\ 16 <= StackBase /\ StackBase <= g /\ b = g + a + 5 /\ b + l <= x /\ x <= StackTop
      /\ StackTop < Half
  BY <1>1, TopBounds
<1>4. /\ t \in Address /\ Addr(t) = t /\ t # SP /\ t # tmp_register
      /\ c.seg = "local"    => t = b + i /\ i \in 0 .. l - 1
      /\ c.seg = "argument" => t = g + i /\ i \in 0 .. a - 1
      /\ c.seg = "this"     => t = ram[THIS] + i /\ t \in HeapAddr
      /\ c.seg = "that"     => t = ram[THAT] + i /\ t \in HeapAddr
      /\ c.seg = "temp"     => t = base_temp + i /\ i \in 0 .. NTemp - 1
      /\ c.seg = "pointer"  => t = base_pointer + i /\ i \in {0, 1}
      /\ c.seg = "static"   => t = StaticAddr[i] /\ t \in 16 .. StackBase - 1
  BY <1>1, Target
<1>5. ram'[SP] = x - 1 /\ \A z \in Address \ {SP, tmp_register, t} : ram'[z] = ram[z]
  BY <1>1, <1>2, <1>4, ParsePopEffect
<1>6. ram'[t] = v
  <2> DEFINE w == x - b - l
  <2>1. Len(W) = w /\ w \in Nat /\ \A j \in 1 .. w : W[j] = ram[b + l + j - 1]
    BY <1>1, TopFrame
  <2>2. ram'[t] = ram[x - 1]
    BY <1>1, <1>2, <1>4, PopValue
  <2> HIDE DEF W, x, b, l
  <2>3. w \in 1 .. w /\ b + l + w - 1 = x - 1
    BY <1>2, <1>3
  <2> QED
    BY <2>1, <2>2, <2>3
<1>7. VM!SetTop(T)
  BY <1>1, PopStays, StayTop
<1>8. VM!Top = TopAt(ram)
  BY <1>1, TopNow
(* Where the target lies, and what it is therefore apart from.              *)
<1>9. /\ c.seg = "local" => t \in b .. b + l - 1
      /\ c.seg = "argument" => t \in g .. g + a - 1
      /\ c.seg \in {"this", "that"} => t \in HeapAddr
      /\ c.seg = "temp" => t \in 5 .. 12
      /\ c.seg = "pointer" => t = IF i = 0 THEN THIS ELSE THAT
      /\ c.seg = "static" => t \in 16 .. StackBase - 1
  <2> HIDE DEF t, i, b, l, g, a
  <2>1. base_temp = 5 /\ NTemp = 8 /\ base_pointer = 3 /\ THIS = 3 /\ THAT = 4
    BY DEF base_temp, NTemp, base_pointer, THIS, THAT
  <2> QED
    BY <1>3, <1>4, <2>1
<1> HIDE DEF x, t, i, b, l, g, a, T
<1>10. /\ THIS = 3 /\ THAT = 4
       /\ \A z \in b .. b + l - 1 : z >= 16 /\ z < x /\ z \notin g .. g + a - 1
            /\ z >= StackBase /\ z \notin b + l .. StackTop - 1
       /\ \A z \in g .. g + a - 1 : z >= 16 /\ z < x /\ z \notin b .. b + l - 1
            /\ z >= StackBase /\ z \notin b + l .. StackTop - 1
       /\ \A z \in 0 .. StackBase - 1 : z \notin g .. g + a - 1 /\ z \notin b .. b + l - 1
            /\ z \notin b + l .. StackTop - 1
       /\ \A z \in HeapAddr : z >= StackTop /\ z \notin g .. g + a - 1 /\ z \notin b .. b + l - 1
            /\ z \notin b + l .. StackTop - 1
  BY <1>3 DEF HeapAddr, THIS, THAT
<1>11. t \notin b + l .. StackTop - 1
  <2>1. t \in b .. b + l - 1 \/ t \in g .. g + a - 1 \/ t \in HeapAddr \/ t \in 0 .. StackBase - 1
    BY <1>1, <1>3, <1>9, <1>10, PushPopFields DEF Segment
  <2> QED
    BY <1>10, <2>1
<1>12. /\ T.ret = VM!Top.ret /\ T.base = VM!Top.base
       /\ T.entering = VM!Top.entering
       /\ T.work = VM!Without(VM!Top.work, 1)
       /\ t \notin g .. g + a - 1 => T.args = VM!Top.args
       /\ \A j \in 0 .. a - 1 : t = g + j => T.args = [VM!Top.args EXCEPT ![j + 1] = ram'[t]]
       /\ t \notin b .. b + l - 1 => T.locals = VM!Top.locals
       /\ \A j \in 0 .. l - 1 : t = b + j => T.locals = [VM!Top.locals EXCEPT ![j + 1] = ram'[t]]
       /\ T.this = IF t = THIS THEN ram'[t] ELSE VM!Top.this
       /\ T.that = IF t = THAT THEN ram'[t] ELSE VM!Top.that
       /\ t \notin 16 .. StackBase - 1 => UNCHANGED AbsStatics
       /\ t \notin 5 .. 12 => UNCHANGED AbsTemps
       /\ t \notin HeapAddr => UNCHANGED AbsHeap
  BY <1>1, <1>2, <1>4, <1>5, <1>11, OneWord DEF x, b, l, g, a, T
<1> DEFINE V == VM!Top
<1>13. /\ T = [ret |-> T.ret, base |-> T.base, args |-> T.args, locals |-> T.locals,
               work |-> T.work, this |-> T.this, that |-> T.that, entering |-> T.entering]
       /\ V = [ret |-> V.ret, base |-> V.base, args |-> V.args, locals |-> V.locals,
               work |-> V.work, this |-> V.this, that |-> V.that, entering |-> V.entering]
  BY <1>8 DEF TopAt, T
<1> HIDE DEF W, v, V
<1>14. CASE c.seg = "local"
  <2>1. /\ t \notin g .. g + a - 1 /\ t # THIS /\ t # THAT
        /\ t \notin 16 .. StackBase - 1 /\ t \notin 5 .. 12 /\ t \notin HeapAddr
        /\ t = b + i /\ i \in 0 .. l - 1
    BY <1>3, <1>4, <1>9, <1>10, <1>14
  <2>2. /\ T.locals = [V.locals EXCEPT ![i + 1] = v]
        /\ T.args = V.args /\ T.this = V.this /\ T.that = V.that
        /\ T.ret = V.ret /\ T.base = V.base /\ T.entering = V.entering
        /\ T.work = VM!Without(V.work, 1)
        /\ UNCHANGED <<AbsStatics, AbsTemps, AbsHeap>>
    BY <1>6, <1>12, <2>1 DEF V
  <2>3. T = [[V EXCEPT !.work = VM!Without(@, 1)] EXCEPT !.locals[i + 1] = v]
    BY <1>13, <2>2
  <2> QED
    BY <1>1, <1>7, <1>14, <2>2, <2>3 DEF VM!Pop, V, W, v, i
<1>15. CASE c.seg = "argument"
  <2>1. /\ t \notin b .. b + l - 1 /\ t # THIS /\ t # THAT
        /\ t \notin 16 .. StackBase - 1 /\ t \notin 5 .. 12 /\ t \notin HeapAddr
        /\ t = g + i /\ i \in 0 .. a - 1
    BY <1>3, <1>4, <1>9, <1>10, <1>15
  <2>2. /\ T.args = [V.args EXCEPT ![i + 1] = v]
        /\ T.locals = V.locals /\ T.this = V.this /\ T.that = V.that
        /\ T.ret = V.ret /\ T.base = V.base /\ T.entering = V.entering
        /\ T.work = VM!Without(V.work, 1)
        /\ UNCHANGED <<AbsStatics, AbsTemps, AbsHeap>>
    BY <1>6, <1>12, <2>1 DEF V
  <2>3. T = [[V EXCEPT !.work = VM!Without(@, 1)] EXCEPT !.args[i + 1] = v]
    BY <1>13, <2>2
  <2> QED
    BY <1>1, <1>7, <1>15, <2>2, <2>3 DEF VM!Pop, V, W, v, i
<1>16. ASSUME c.seg \notin {"local", "argument", "pointer"}
       PROVE  T = [V EXCEPT !.work = VM!Without(@, 1)]
  <2>1. t \in HeapAddr \/ t \in 5 .. 12 \/ t \in 16 .. StackBase - 1
    BY <1>1, <1>9, <1>16, PushPopFields DEF Segment
  <2>2. /\ t \notin g .. g + a - 1 /\ t \notin b .. b + l - 1 /\ t # THIS /\ t # THAT
    BY <1>3, <1>10, <2>1
  <2>3. /\ T.args = V.args /\ T.locals = V.locals /\ T.this = V.this /\ T.that = V.that
        /\ T.ret = V.ret /\ T.base = V.base /\ T.entering = V.entering
        /\ T.work = VM!Without(V.work, 1)
    BY <1>12, <2>2 DEF V
  <2> QED
    BY <1>13, <2>3
<1>17. \A z \in Address \ {SP, tmp_register, t} : ram'[z] = ram[z]
  BY <1>5
<1>18. CASE c.seg \in {"this", "that"}
  <2>1. t \notin 16 .. StackBase - 1 /\ t \notin 5 .. 12 /\ t \in HeapAddr
    BY <1>3, <1>9, <1>10, <1>18
  <2>2. UNCHANGED <<AbsStatics, AbsTemps>>
    BY <1>12, <2>1
  <2>3. AbsHeap' = [AbsHeap EXCEPT ![t] = v]
    <3>1. \A z \in HeapAddr : z # t => ram'[z] = ram[z]
      BY <1>17, OutsideAddresses
    <3> QED
      BY <1>6, <2>1, <3>1 DEF AbsHeap
  <2>4. V.this = ram[THIS] /\ V.that = ram[THAT]
    BY <1>1, TopFrame DEF V
  <2>5. /\ c.seg = "this" => t = V.this + i
        /\ c.seg = "that" => t = V.that + i
    BY <1>4, <2>4
  <2> QED
    BY <1>1, <1>7, <1>16, <1>18, <2>2, <2>3, <2>5 DEF VM!Pop, V, W, v, i
<1>19. CASE c.seg = "temp"
  <2>1. t \notin 16 .. StackBase - 1 /\ t \notin HeapAddr /\ t = base_temp + i /\ i \in 0 .. NTemp - 1
    BY <1>3, <1>4, <1>9, <1>10, <1>19
  <2>2. UNCHANGED <<AbsStatics, AbsHeap>>
    BY <1>12, <2>1
  <2>3. AbsTemps' = [AbsTemps EXCEPT ![i] = v]
    <3>1. \A j \in 0 .. NTemp - 1 : base_temp + j \in 5 .. 12 /\ (j # i => base_temp + j # t)
      BY <2>1 DEF base_temp, NTemp
    <3>2. \A j \in 0 .. NTemp - 1 : j # i => ram'[base_temp + j] = ram[base_temp + j]
      BY <1>17, <3>1, OutsideAddresses
    <3> QED
      BY <1>6, <2>1, <3>2 DEF AbsTemps
  <2> QED
    BY <1>1, <1>7, <1>16, <1>19, <2>2, <2>3 DEF VM!Pop, V, W, v, i
<1>20. CASE c.seg = "static"
  <2>1. t \notin 5 .. 12 /\ t \notin HeapAddr /\ t = StaticAddr[i] /\ i \in Static
    BY <1>1, <1>3, <1>4, <1>9, <1>10, <1>20, PushPopFields DEF i
  <2>2. UNCHANGED <<AbsTemps, AbsHeap>>
    BY <1>12, <2>1
  <2>3. AbsStatics' = [AbsStatics EXCEPT ![i] = v]
    <3>1. \A j \in Static : StaticAddr[j] \in 16 .. StackBase - 1 /\ (j # i => StaticAddr[j] # t)
      BY <2>1, LayoutAssumption
    <3>2. \A j \in Static : j # i => ram'[StaticAddr[j]] = ram[StaticAddr[j]]
      BY <1>17, <3>1, OutsideAddresses
    <3> QED
      BY <1>6, <2>1, <3>2 DEF AbsStatics
  <2> QED
    BY <1>1, <1>7, <1>16, <1>20, <2>2, <2>3 DEF VM!Pop, V, W, v, i
<1>21. CASE c.seg = "pointer"
  <2>1. /\ t \notin g .. g + a - 1 /\ t \notin b .. b + l - 1
        /\ t \notin 16 .. StackBase - 1 /\ t \notin 5 .. 12 /\ t \notin HeapAddr
        /\ t = IF i = 0 THEN THIS ELSE THAT
    BY <1>3, <1>9, <1>10, <1>21
  <2>2. /\ T.args = V.args /\ T.locals = V.locals
        /\ T.this = (IF i = 0 THEN v ELSE V.this) /\ T.that = (IF i = 0 THEN V.that ELSE v)
        /\ T.ret = V.ret /\ T.base = V.base /\ T.entering = V.entering
        /\ T.work = VM!Without(V.work, 1)
        /\ UNCHANGED <<AbsStatics, AbsTemps, AbsHeap>>
    BY <1>6, <1>10, <1>12, <2>1 DEF V
  <2>3. /\ i = 0 => T = [[V EXCEPT !.work = VM!Without(@, 1)] EXCEPT !.this = v]
        /\ i # 0 => T = [[V EXCEPT !.work = VM!Without(@, 1)] EXCEPT !.that = v]
    BY <1>13, <2>2
  <2> QED
    BY <1>1, <1>7, <1>21, <2>2, <2>3 DEF VM!Pop, V, W, v, i
<1> QED
  BY <1>1, <1>14, <1>15, <1>18, <1>19, <1>20, <1>21, PushPopFields DEF Segment

-----------------------------------------------------------------------------
(* Commands that build and remove frames                                   *)

LEMMA CellsEmpty ==
  ASSUME NEW m \in Ram, NEW p \in Nat, p <= Half PROVE Cells(m, p, p) = <<>>
<1>1. p <= p /\ p - p = 0
  OBVIOUS
<1>2. Cells(m, p, p) \in Seq(Word) /\ Len(Cells(m, p, p)) = p - p
  BY <1>1, CellsTyped
<1> QED
  BY <1>1, <1>2, EmptySeq

(* What function and Function_ make of the frame.                          *)
LEMMA FunctionFrame ==
  ASSUME IInv, ~fault, ~fault', NEW c, Function_(c)
  PROVE  /\ Running /\ c.op = "function" /\ Allowed(c, Shape)
         /\ c.locals \in Nat /\ ram[SP] + c.locals <= StackTop
         /\ ram'[SP] = ram[SP] + c.locals
         /\ \A z \in Address \ {SP} :
              ~(ram[SP] <= z /\ z < ram[SP] + c.locals) => ram'[z] = ram[z]
         /\ \A z \in Address \ {SP} : ram[SP] <= z /\ z < ram[SP] + c.locals => ram'[z] = 0
         /\ Len(calls') = Len(calls)
         /\ \A j \in 1 .. Len(calls) : j # Len(calls) => calls'[j] = calls[j]
         /\ LET e == calls'[Len(calls)]
            IN /\ e.ret = Top.ret /\ e.base = Top.base /\ e.argBase = Top.argBase
               /\ e.args = Top.args /\ e.this = Top.this /\ e.that = Top.that
               /\ e.locals = c.locals /\ e.entering = FALSE
<1> DEFINE n == Len(calls)
           k == c.locals
           x == ram[SP]
<1>1. /\ Running /\ c \in Command /\ Allowed(c, Shape) /\ c.op = "function"
      /\ ram' = parse_function(ram, k)
      /\ calls' = [calls EXCEPT ![n].locals = k, ![n].entering = FALSE]
  BY CommandAt DEF Function_
<1>2. k \in Nat
  BY <1>1, CommandFields, LayoutAssumption
<1>3. /\ n \in Nat /\ n > 0 /\ n \in 1 .. n /\ x \in Int /\ ram \in Ram /\ InStack(x)
      /\ calls \in Seq(CallRecord) /\ calls[n] \in CallRecord
  BY <1>1, Pointers DEF Top, IInv, TypeOK
<1>4. x + k <= StackTop
  BY <1>1, <1>2, AllowedOp, ShapeBounds
<1>5. /\ ram'[SP] = x + k
      /\ \A z \in Address \ {SP} : ~(x <= z /\ z < x + k) => ram'[z] = ram[z]
  BY <1>1, <1>2, <1>3, <1>4, FunctionEffect
<1>6. \A z \in Address \ {SP} : x <= z /\ z < x + k => ram'[z] = 0
  BY <1>1 DEF parse_function
<1>7. /\ Len(calls') = n
      /\ \A j \in 1 .. n : j # n => calls'[j] = calls[j]
      /\ LET e == calls'[n]
         IN /\ e.ret = Top.ret /\ e.base = Top.base /\ e.argBase = Top.argBase
            /\ e.args = Top.args /\ e.this = Top.this /\ e.that = Top.that
            /\ e.locals = k /\ e.entering = FALSE
  <2> DEFINE e == [[calls[n] EXCEPT !.locals = k] EXCEPT !.entering = FALSE]
  <2>1. calls' = [calls EXCEPT ![n] = e]
    BY <1>1, <1>3
  <2>2. /\ e.base = calls[n].base /\ e.argBase = calls[n].argBase /\ e.args = calls[n].args
        /\ e.ret = calls[n].ret /\ e.this = calls[n].this /\ e.that = calls[n].that
        /\ e.locals = k /\ e.entering = FALSE /\ e \in CallRecord
    BY <1>1, <1>3, CommandFields DEF CallRecord
  <2> HIDE DEF e
  <2>3. Len(calls') = n /\ \A j \in 1 .. n : calls'[j] = IF j = n THEN e ELSE calls[j]
    BY <1>3, <2>1, <2>2, ExceptSeq
  <2> QED
    BY <1>3, <2>2, <2>3 DEF Top
<1> QED
  BY <1>1, <1>2, <1>4, <1>5, <1>6, <1>7

LEMMA FunctionImplements ==
  ASSUME RInv, ~fault, IInv', Running', ~fault', NEW c, Function_(c)
  PROVE  VM!Fun(c)
<1> DEFINE n == Len(calls)
           k == c.locals
           x == ram[SP]
           b == Top.base
           g == Top.argBase
           a == Top.args
           V == VM!Top
           F == FrameAt(ram', calls', n)
<1>1. /\ IInv /\ Running /\ c.op = "function"
      /\ k \in Nat /\ x + k <= StackTop /\ ram'[SP] = x + k
      /\ \A z \in Address \ {SP} : ~(x <= z /\ z < x + k) => ram'[z] = ram[z]
      /\ \A z \in Address \ {SP} : x <= z /\ z < x + k => ram'[z] = 0
      /\ Len(calls') = n
      /\ \A j \in 1 .. n : j # n => calls'[j] = calls[j]
  BY FunctionFrame DEF RInv
<1>2. /\ calls'[n].ret = Top.ret /\ calls'[n].base = b /\ calls'[n].argBase = g
      /\ calls'[n].args = a /\ calls'[n].this = Top.this /\ calls'[n].that = Top.that
      /\ calls'[n].locals = k /\ calls'[n].entering = FALSE
  BY FunctionFrame DEF RInv
<1>3. /\ g \in Nat /\ a \in Nat /\ b \in Nat /\ x \in Nat /\ ram \in Ram /\ ram' \in Ram
      /\ StackBase \in Nat /\ StackTop \in Nat /\ Half \in Nat
      /\ 16 <= StackBase /\ StackBase <= g /\ b = g + a + 5 /\ StackTop < Half
  BY <1>1, TopBounds DEF IInv, TypeOK, Ram
<1>4. Top.locals = 0 /\ x = b
  <2>1. Top.entering
    <3>1. Allowed(c, Shape)
      BY FunctionFrame DEF RInv
    <3>2. Shape.entering
      BY <1>1, <3>1 DEF Allowed
    <3> QED
      BY <3>2 DEF Shape
  <2> QED
    BY <1>1, <2>1 DEF RInv, Entered
<1>5. /\ Laid(ram, calls) /\ Laid(ram', calls') /\ AbsFrames = FramesAt(ram, calls) /\ n \in Nat
  BY <1>1, LaidNow, LaidNext, TopFrame
<1>6. \A z \in Address \ {SP} : z \notin x .. StackTop - 1 => ram'[z] = ram[z]
  <2> HIDE DEF x, k
  <2>1. \A z \in Address : x <= z /\ z < x + k => z \in x .. StackTop - 1
    BY <1>1, <1>3 DEF Address
  <2> QED
    BY <1>1, <2>1
<1>7. \A z \in 16 .. b - 1 : ram'[z] = ram[z]
  <2> HIDE DEF x, b, a, g
  <2>1. b \in Nat /\ StackTop \in Nat /\ Half \in Nat /\ b <= Half /\ x = b
    <3>1. b + k <= StackTop /\ k \in Nat /\ b \in Nat /\ StackTop \in Nat /\ StackTop < Half /\ Half \in Nat
      BY <1>1, <1>3, <1>4
    <3> HIDE DEF k
    <3> QED
      BY <1>4, <3>1
  <2>2. \A z \in 16 .. b - 1 : z \in Address \ {SP} /\ z \notin x .. StackTop - 1
    BY <2>1 DEF Address, SP
  <2> QED
    BY <1>6, <2>2
<1>8. KeepsBelow(ram, calls, ram', calls', n)
  <2>1. \A z \in StackBase .. g - 1 : ram'[z] = ram[z]
    <3> HIDE DEF g, b, a
    <3>1. \A z \in StackBase .. g - 1 : z \in 16 .. b - 1
      BY <1>3
    <3> QED
      BY <1>7, <3>1
  <2>2. \A j \in 1 .. n - 1 : j \in 1 .. n /\ j # n
    BY <1>5
  <2> QED
    BY <1>1, <1>2, <2>1, <2>2 DEF KeepsBelow, Top
<1>9. VM!SetTop(F)
  <2>1. FramesAt(ram', calls') =
          [FramesAt(ram, calls) EXCEPT ![Len(FramesAt(ram, calls))] = F]
    BY <1>1, <1>5, <1>8, OnlyTop
  <2>2. AbsFrames' = FramesAt(ram', calls')
    BY <1>5, FramesOfNow, FramesOfLaid
  <2> QED
    BY <1>5, <2>1, <2>2 DEF VM!SetTop, VM!WithTop
<1>10. F = [ret |-> Top.ret, base |-> b - StackBase, args |-> Cells(ram', g, g + a),
            locals |-> Cells(ram', b, b + k), work |-> Cells(ram', b + k, x + k),
            this |-> ram'[THIS], that |-> ram'[THAT], entering |-> FALSE]
  BY <1>1, <1>2 DEF FrameAt
<1>11. V = [ret |-> Top.ret, base |-> b - StackBase, args |-> Cells(ram, g, g + a),
            locals |-> Cells(ram, b, b + Top.locals), work |-> Cells(ram, b + Top.locals, x),
            this |-> ram[THIS], that |-> ram[THAT], entering |-> Top.entering]
  BY <1>1, TopNow DEF TopAt
<1> HIDE DEF n, k, x, b, g, a, V, F
<1>12. Cells(ram', g, g + a) = Cells(ram, g, g + a)
  <2> DEFINE e == g + a
  <2>1. e \in Int /\ \A z \in g .. e - 1 : z \in 16 .. b - 1
    BY <1>3
  <2> HIDE DEF e
  <2>2. \A z \in g .. e - 1 : ram'[z] = ram[z]
    BY <1>7, <2>1
  <2>3. Cells(ram', g, e) = Cells(ram, g, e)
    BY <1>3, <2>1, <2>2, CellsSame
  <2> QED
    BY <2>3 DEF e
<1>13. Cells(ram', b + k, x + k) = <<>> /\ Cells(ram, b + Top.locals, x) = <<>>
  <2> DEFINE e == b + k
  <2>1. e \in Nat /\ e <= Half /\ x + k = e /\ b \in Nat /\ b <= Half /\ b + 0 = b
    BY <1>1, <1>3, <1>4
  <2> HIDE DEF e
  <2>2. Cells(ram', e, e) = <<>> /\ Cells(ram, b, b) = <<>>
    BY <1>3, <2>1, CellsEmpty
  <2> QED
    BY <1>4, <2>1, <2>2 DEF e
<1>14. Cells(ram', b, b + k) = [j \in 1 .. k |-> 0]
  <2>1. (b + k) - b = k
    BY <1>1, <1>3
  <2>2. \A j \in 1 .. k : ram'[b + j - 1] = 0
    <3>1. \A j \in 1 .. k : b + j - 1 \in Address \ {SP} /\ x <= b + j - 1 /\ b + j - 1 < x + k
      BY <1>1, <1>3, <1>4 DEF Address, SP
    <3> QED
      BY <1>1, <3>1
  <2> QED
    BY <2>1, <2>2 DEF Cells
<1>15. ram'[THIS] = ram[THIS] /\ ram'[THAT] = ram[THAT]
  <2>1. \A z \in {THIS, THAT} : z \in Address \ {SP} /\ z \notin x .. StackTop - 1
    BY <1>3, <1>4, Registers DEF SP, THIS, THAT
  <2> QED
    BY <1>6, <2>1
<1>16. F = [V EXCEPT !.locals = [j \in 1 .. k |-> 0], !.entering = FALSE]
  <2> DEFINE A == Cells(ram, g, g + a)
             L == Cells(ram, b, b + Top.locals)
             Z == [j \in 1 .. k |-> 0]
             base == b - StackBase
             this == ram[THIS]
             that == ram[THAT]
             no == FALSE
             G == [V EXCEPT !.locals = Z]
  <2>1. F = [ret |-> Top.ret, base |-> base, args |-> A, locals |-> Z, work |-> <<>>,
             this |-> this, that |-> that, entering |-> no]
    BY <1>10, <1>12, <1>13, <1>14, <1>15
  <2>2. V = [ret |-> Top.ret, base |-> base, args |-> A, locals |-> L, work |-> <<>>,
             this |-> this, that |-> that, entering |-> Top.entering]
    BY <1>11, <1>13
  <2> HIDE DEF A, L, Z, base, this, that, no
  <2>3. G = [ret |-> Top.ret, base |-> base, args |-> A, locals |-> Z, work |-> <<>>,
             this |-> this, that |-> that, entering |-> Top.entering]
    BY <2>2
  <2> HIDE DEF G
  <2>4. F = [G EXCEPT !.entering = no]
    BY <2>1, <2>3
  <2> QED
    BY <2>4 DEF G, Z, no
<1>17. UNCHANGED <<AbsStatics, AbsTemps, AbsHeap>>
  <2>1. \A z \in x .. StackTop - 1 : z \in StackBase .. StackTop - 1
    BY <1>3, <1>4
  <2> QED
    BY <1>6, <2>1, OutsideStays
<1> QED
  BY <1>1, <1>9, <1>16, <1>17 DEF VM!Fun, V, k

LEMMA JumpTarget ==
  ASSUME NEW c \in Command, c.op \in {"goto", "if-goto", "call"}
  PROVE  c.to \in Point \ {Boot}
BY DEF Command, PushPop, Arithmetic, Jump, Function, Call, Plain

(* What call and CallFun make of the two frames.                           *)
LEMMA CallFrame ==
  ASSUME IInv, ~fault, ~fault', NEW c, CallFun(c)
  PROVE  /\ Running /\ c.op = "call" /\ Allowed(c, Shape) /\ NextPoint[pc] \in Point \ {Boot}
         /\ c.to \in Point \ {Boot} /\ pc' = c.to
         /\ c.args \in Nat /\ ram[SP] + 5 <= StackTop /\ Top.base + Top.locals <= ram[SP] - c.args
         /\ ram'[SP] = ram[SP] + 5
         /\ \A z \in Address \ {SP, LCL, ARG} : z \notin ram[SP] .. ram[SP] + 4 => ram'[z] = ram[z]
         /\ Len(calls') = Len(calls) + 1
         /\ \A j \in 1 .. Len(calls) : calls'[j] = calls[j]
         /\ LET e == calls'[Len(calls) + 1]
            IN /\ e.ret = NextPoint[pc] /\ e.base = ram[SP] + 5 /\ e.argBase = ram[SP] - c.args
               /\ e.args = c.args /\ e.this = ram[THIS] /\ e.that = ram[THAT]
               /\ e.locals = 0 /\ e.entering = TRUE
<1> DEFINE n == Len(calls)
           k == c.args
           x == ram[SP]
           b == Top.base
           l == Top.locals
           ret == RomAddr[NextPoint[pc]]
           f == Record(ram, NextPoint[pc], k)
<1>1. /\ Running /\ c \in Command /\ Allowed(c, Shape) /\ c.op = "call"
      /\ ram' = parse_call(ram, k, ret) /\ calls' = Append(calls, f) /\ pc' = c.to
  BY CommandAt DEF CallFun
<1>2. /\ k \in 0 .. MaxArgs /\ k \in Nat /\ c.to \in Point \ {Boot}
      /\ ret \in Word /\ NextPoint[pc] \in Point \ {Boot}
  <2>1. k \in 0 .. MaxArgs /\ MaxArgs \in Nat /\ c.to \in Point \ {Boot}
    BY <1>1, CommandFields, JumpTarget, LayoutAssumption
  <2>2. NextPoint[pc] \in Point \ {Boot}
    BY <1>1, Pointers, ProgramAssumption
  <2>3. ret \in Word
    BY <2>2, Registers, ProgramAssumption
  <2> QED
    BY <2>1, <2>2, <2>3
<1>3. /\ n \in Nat /\ n > 0 /\ x \in Nat /\ ram \in Ram /\ InStack(x)
      /\ calls \in Seq(CallRecord) /\ b \in Nat /\ l \in Nat /\ 16 <= b
  <2> DEFINE g == Top.argBase
             a == Top.args
  <2>1. /\ g \in Nat /\ a \in Nat /\ b \in Nat /\ l \in Nat /\ x \in Nat /\ ram \in Ram
        /\ StackBase \in Nat /\ 16 <= StackBase /\ StackBase <= g /\ b = g + a + 5
    BY <1>1, TopBounds
  <2>2. n \in Nat /\ n > 0 /\ InStack(x) /\ calls \in Seq(CallRecord)
    BY <1>1, Pointers DEF IInv, TypeOK
  <2> HIDE DEF g, a, b, l, x, n
  <2> QED
    BY <2>1, <2>2
<1>4. x + 5 <= StackTop /\ b + l <= x - k
  BY <1>1, <1>2, AllowedOp, ShapeBounds
<1>5. f \in CallRecord
  <2>1. ram[LCL] \in Word /\ ram[ARG] \in Word /\ ram[THIS] \in Word /\ ram[THAT] \in Word
    BY <1>3, Registers DEF Ram
  <2>2. x - k \in Int /\ x + 5 \in Int
    BY <1>2, <1>3
  <2>3. 0 \in 0 .. MaxLocals
    BY LayoutAssumption
  <2>4. NextPoint[pc] \in ReturnPoint
    BY <1>1, Pointers, CallResumes
  <2> QED
    BY <1>2, <2>1, <2>2, <2>3, <2>4 DEF Record, CallRecord
<1>6. /\ f.ret = NextPoint[pc] /\ f.this = ram[THIS] /\ f.that = ram[THAT] /\ f.argBase = x - k
      /\ f.base = x + 5 /\ f.args = k /\ f.locals = 0 /\ f.entering = TRUE
  BY DEF Record
<1> HIDE DEF f
<1>7. /\ Len(calls') = n + 1 /\ calls'[n + 1] = f
      /\ \A j \in 1 .. n : calls'[j] = calls[j]
  BY <1>1, <1>3, <1>5, AppendProperties
<1>8. /\ ram'[SP] = x + 5
      /\ \A z \in Address \ {SP, LCL, ARG} : z \notin x .. x + 4 => ram'[z] = ram[z]
  <2>1. 0 < x - k
    <3> HIDE DEF x, b, l, k
    <3> QED
      BY <1>2, <1>3, <1>4
  <2>2. /\ ram' = parse_call(ram, k, ret) /\ ram \in Ram /\ k \in Nat /\ ret \in Word
        /\ InStack(ram[SP]) /\ ram[SP] + 5 <= StackTop /\ 0 < ram[SP] - k
    BY <1>1, <1>2, <1>3, <1>4, <2>1
  <2> HIDE DEF ret, k, x
  <2>3. /\ ram'[SP] = ram[SP] + 5
        /\ \A z \in Address \ {SP, LCL, ARG} : z \notin ram[SP] .. ram[SP] + 4 => ram'[z] = ram[z]
    BY <2>2, CallEffect
  <2> QED
    BY <2>3 DEF x
<1> QED
  BY <1>1, <1>2, <1>4, <1>6, <1>7, <1>8

(* A frame is built above the running one.                                 *)
LEMMA OneMore ==
  ASSUME NEW m, NEW cs, NEW r, NEW ds, Laid(m, cs), Laid(r, ds), Len(ds) = Len(cs) + 1,
         KeepsBelow(m, cs, r, ds, Len(cs))
  PROVE  FramesAt(r, ds) =
           Append([FramesAt(m, cs) EXCEPT ![Len(FramesAt(m, cs))] = FrameAt(r, ds, Len(cs))],
                  FrameAt(r, ds, Len(ds)))
<1> DEFINE n == Len(cs)
           A == [FramesAt(m, cs) EXCEPT ![n] = FrameAt(r, ds, n)]
           E == FrameAt(r, ds, n + 1)
           F == FramesAt(r, ds)
           S == {FrameAt(r, ds, k) : k \in 1 .. n + 1}
<1>1. /\ n \in 1 .. n /\ Len(FramesAt(m, cs)) = n /\ n \in Nat /\ n <= n + 1
  <2>1. Len(FramesAt(m, cs)) = Len(cs) /\ Len(cs) \in 1 .. Len(cs) /\ Len(cs) \in Nat
    BY FramesOfLaid
  <2> QED
    BY <2>1
<1>2. \A k \in 1 .. n - 1 : FrameAt(r, ds, k) = FrameAt(m, cs, k)
  BY <1>1, LowerFrames
<1>3. \A k \in 1 .. n : k # n => k \in 1 .. n - 1
  BY <1>1
<1>4. A = [k \in 1 .. n |-> FrameAt(r, ds, k)]
  <2>1. FramesAt(m, cs) = [k \in 1 .. n |-> FrameAt(m, cs, k)]
    BY DEF FramesAt
  <2> HIDE DEF n
  <2> QED
    BY <1>1, <1>2, <1>3, <2>1
<1>5. F = [k \in 1 .. n + 1 |-> FrameAt(r, ds, k)]
  BY DEF FramesAt
<1>6. (\A k \in 1 .. n : FrameAt(r, ds, k) \in S) /\ E \in S
  <2>1. n + 1 \in 1 .. n + 1 /\ \A k \in 1 .. n : k \in 1 .. n + 1
    BY <1>1
  <2> QED
    BY <2>1
<1>7. \A k \in 1 .. n + 1 : FrameAt(r, ds, k) \in S
  OBVIOUS
<1> HIDE DEF n, A, E, F, S
<1>8. A \in [1 .. n -> S] /\ F \in [1 .. n + 1 -> S]
  BY <1>4, <1>5, <1>6, <1>7
<1>9. /\ A \in Seq(S) /\ Len(A) = n /\ F \in Seq(S) /\ Len(F) = n + 1
  <2>1. n + 1 \in Nat
    BY <1>1
  <2> QED
    BY <1>1, <1>8, <2>1
<1> DEFINE u == Append(A, E)
<1>10. u \in Seq(S) /\ Len(u) = n + 1 /\ u[n + 1] = E /\ \A k \in 1 .. n : u[k] = A[k]
  BY <1>6, <1>9, AppendProperties
<1> HIDE DEF u
<1>11. \A k \in 1 .. Len(F) : F[k] = u[k]
  <2> SUFFICES ASSUME NEW k \in 1 .. n + 1 PROVE F[k] = u[k]
    BY <1>9
  <2>1. k \in 1 .. n \/ k = n + 1
    BY <1>1
  <2>2. F[k] = FrameAt(r, ds, k)
    BY <1>5
  <2>3. k \in 1 .. n => u[k] = FrameAt(r, ds, k)
    BY <1>4, <1>10
  <2>4. k = n + 1 => u[k] = FrameAt(r, ds, k)
    BY <1>10 DEF E
  <2> QED
    BY <2>1, <2>2, <2>3, <2>4
<1>12. F = u
  BY <1>9, <1>10, <1>11, SeqEqual
<1> QED
  BY <1>1, <1>12 DEF F, u, A, E, n

(* The running frame is removed.                                           *)
LEMMA OneLess ==
  ASSUME NEW m, NEW cs, NEW r, NEW ds, Laid(m, cs), Laid(r, ds), Len(ds) = Len(cs) - 1,
         KeepsBelow(m, cs, r, ds, Len(ds))
  PROVE  /\ FramesAt(r, ds) =
              [VM!Without(FramesAt(m, cs), 1) EXCEPT ![Len(FramesAt(m, cs)) - 1] =
                 FrameAt(r, ds, Len(ds))]
         /\ VM!Without(FramesAt(m, cs), 1)[Len(FramesAt(m, cs)) - 1] = FrameAt(m, cs, Len(ds))
<1> DEFINE p == Len(ds)
           A == FramesAt(m, cs)
           S == {FrameAt(m, cs, k) : k \in 1 .. p + 1}
           u == SubSeq(A, 1, p)
<1>1. /\ p \in 1 .. p /\ p \in Nat /\ Len(A) = p + 1 /\ Len(cs) = p + 1 /\ p \in 1 .. p + 1
      /\ p - 1 + 1 = p /\ 1 <= p /\ Len(A) - 1 = p
  <2>1. Len(FramesAt(m, cs)) = Len(cs) /\ Len(cs) \in Nat /\ p \in 1 .. p /\ p \in Nat
    BY FramesOfLaid
  <2> HIDE DEF p
  <2>2. Len(cs) = p + 1
    BY <2>1 DEF p
  <2> QED
    BY <2>1, <2>2
<1>2. \A k \in 1 .. p - 1 : FrameAt(r, ds, k) = FrameAt(m, cs, k)
  <2>1. p \in 1 .. Len(cs) /\ p <= Len(ds)
    BY <1>1
  <2> QED
    BY <2>1, LowerFrames
<1>3. A = [k \in 1 .. p + 1 |-> FrameAt(m, cs, k)]
  BY <1>1 DEF FramesAt
<1>4. \A k \in 1 .. p + 1 : FrameAt(m, cs, k) \in S
  OBVIOUS
<1>5. FramesAt(r, ds) = [k \in 1 .. p |-> FrameAt(r, ds, k)]
  BY DEF FramesAt
<1> HIDE DEF p, A, S
<1>6. /\ u \in Seq(S) /\ Len(u) = p /\ \A k \in 1 .. p : u[k] = A[k]
  <2>1. \A k \in 1 .. p : A[k] \in S /\ 1 + k - 1 = k
    BY <1>1, <1>3, <1>4
  <2>2. /\ SubSeq(A, 1, p) \in Seq(S)
        /\ Len(SubSeq(A, 1, p)) = IF 1 <= p THEN p - 1 + 1 ELSE 0
        /\ \A i \in 1 .. p - 1 + 1 : SubSeq(A, 1, p)[i] = A[1 + i - 1]
    BY <1>1, <2>1, SubSeqProperties
  <2> QED
    BY <1>1, <2>1, <2>2
<1>7. VM!Without(A, 1) = u
  BY <1>1 DEF VM!Without
<1> HIDE DEF u
<1>8. u = [k \in 1 .. p |-> FrameAt(m, cs, k)]
  <2>1. u \in [1 .. p -> S]
    BY <1>6
  <2>2. \A k \in 1 .. p : k \in 1 .. p + 1
    BY <1>1
  <2>3. \A k \in 1 .. p : u[k] = FrameAt(m, cs, k)
    BY <1>3, <1>6, <2>2
  <2> QED
    BY <2>1, <2>3
<1>9. \A k \in 1 .. p : k # p => k \in 1 .. p - 1
  BY <1>1
<1>10. FramesAt(r, ds) = [u EXCEPT ![p] = FrameAt(r, ds, p)]
  BY <1>1, <1>2, <1>5, <1>8, <1>9
<1>11. u[p] = FrameAt(m, cs, p)
  BY <1>1, <1>8
<1> QED
  BY <1>1, <1>7, <1>10, <1>11 DEF p, A

LEMMA CallImplements ==
  ASSUME IInv, ~fault, IInv', Running', NEW c, CallFun(c)
  PROVE  VM!CallFun(c)
<1> DEFINE n == Len(calls)
           k == c.args
           x == ram[SP]
           b == Top.base
           l == Top.locals
           g == Top.argBase
           a == Top.args
           y == x - k
           gEnd == g + a
           bEnd == b + l
           p == x + 5
           V == VM!Top
           W == FrameAt(ram', calls', n)
           E == FrameAt(ram', calls', n + 1)
<1>0. ~fault'
  BY DEF Running
<1>1. /\ Running /\ c.op = "call" /\ k \in Nat /\ p <= StackTop /\ bEnd <= y /\ ram'[SP] = p
      /\ \A z \in Address \ {SP, LCL, ARG} : z \notin x .. x + 4 => ram'[z] = ram[z]
      /\ Len(calls') = n + 1
      /\ \A j \in 1 .. n : calls'[j] = calls[j]
  BY <1>0, CallFrame
<1>2. /\ calls'[n + 1].ret = NextPoint[pc] /\ calls'[n + 1].base = p
      /\ calls'[n + 1].argBase = y /\ calls'[n + 1].args = k
      /\ calls'[n + 1].this = ram[THIS] /\ calls'[n + 1].that = ram[THAT]
      /\ calls'[n + 1].locals = 0 /\ calls'[n + 1].entering = TRUE
  BY <1>0, CallFrame
<1>3. /\ g \in Nat /\ a \in Nat /\ b \in Nat /\ l \in Nat /\ x \in Nat
      /\ ram \in Ram /\ ram' \in Ram
      /\ StackBase \in Nat /\ StackTop \in Nat /\ Half \in Nat
      /\ 16 <= StackBase /\ StackBase <= g /\ b = g + a + 5 /\ StackTop < Half
      /\ gEnd = g + a /\ bEnd = b + l /\ p = x + 5 /\ y = x - k
  BY <1>1, TopBounds DEF IInv, TypeOK, Ram
<1>4. /\ Laid(ram, calls) /\ Laid(ram', calls') /\ AbsFrames = FramesAt(ram, calls)
      /\ AbsFrames' = FramesAt(ram', calls') /\ n \in Nat /\ n \in 1 .. n
      /\ Len(AbsFrames) = n
  BY <1>1, LaidNow, LaidNext, TopFrame, FramesOfNow, FramesOfLaid
<1>5. V = [ret |-> Top.ret, base |-> b - StackBase, args |-> Cells(ram, g, gEnd),
           locals |-> Cells(ram, b, bEnd), work |-> Cells(ram, bEnd, x),
           this |-> ram[THIS], that |-> ram[THAT], entering |-> Top.entering]
  BY <1>1, TopNow DEF TopAt
<1>6. W = [ret |-> Top.ret, base |-> b - StackBase, args |-> Cells(ram', g, gEnd),
           locals |-> Cells(ram', b, bEnd), work |-> Cells(ram', bEnd, y),
           this |-> ram[THIS], that |-> ram[THAT], entering |-> Top.entering]
  <2>1. n # n + 1 /\ calls'[n] = Top
    BY <1>1, <1>4 DEF Top
  <2> QED
    BY <1>1, <1>2, <2>1 DEF FrameAt
<1>7. E = [ret |-> NextPoint[pc], base |-> p - StackBase, args |-> Cells(ram', y, y + k),
           locals |-> Cells(ram', p, p + 0), work |-> Cells(ram', p + 0, ram'[SP]),
           this |-> ram'[THIS], that |-> ram'[THAT], entering |-> TRUE]
  BY <1>1, <1>2 DEF FrameAt
<1>8. VM!Shape.used = x - StackBase
  BY <1>1, SameShape DEF Shape
<1> HIDE DEF n, k, x, b, l, g, a, y, gEnd, bEnd, p, V, W, E
<1>9. /\ gEnd \in Nat /\ bEnd \in Nat /\ y \in Nat /\ p \in Nat /\ 16 <= g /\ gEnd <= b /\ b <= bEnd
      /\ y <= x /\ bEnd <= x /\ x <= Half /\ p <= Half /\ y + k = x /\ p + 0 = p /\ 16 <= y
      /\ x - y = k /\ x - k = y /\ k <= x - bEnd /\ bEnd <= y /\ 16 <= b /\ 16 <= bEnd /\ 16 <= x
  BY <1>1, <1>3
<1>10. \A z \in 16 .. x - 1 : ram'[z] = ram[z]
  <2>1. \A z \in 16 .. x - 1 : z \in Address \ {SP, LCL, ARG} /\ z \notin x .. x + 4
    BY <1>1, <1>3, <1>9 DEF Address, SP, LCL, ARG
  <2> QED
    BY <1>1, <2>1
<1>11. /\ Cells(ram', g, gEnd) = Cells(ram, g, gEnd) /\ Cells(ram', b, bEnd) = Cells(ram, b, bEnd)
       /\ Cells(ram', bEnd, y) = Cells(ram, bEnd, y) /\ Cells(ram', y, x) = Cells(ram, y, x)
  <2>1. /\ \A z \in g .. gEnd - 1 : z \in 16 .. x - 1
        /\ \A z \in b .. bEnd - 1 : z \in 16 .. x - 1
        /\ \A z \in bEnd .. y - 1 : z \in 16 .. x - 1
        /\ \A z \in y .. x - 1 : z \in 16 .. x - 1
    <3>1. /\ g \in Nat /\ b \in Nat /\ x \in Nat /\ gEnd \in Nat /\ bEnd \in Nat /\ y \in Nat
          /\ 16 <= g /\ 16 <= b /\ 16 <= bEnd /\ 16 <= y
          /\ gEnd <= x /\ bEnd <= x /\ y <= x
      BY <1>3, <1>9
    <3> QED
      BY <3>1
  <2>2. /\ \A z \in g .. gEnd - 1 : ram'[z] = ram[z]
        /\ \A z \in b .. bEnd - 1 : ram'[z] = ram[z]
        /\ \A z \in bEnd .. y - 1 : ram'[z] = ram[z]
        /\ \A z \in y .. x - 1 : ram'[z] = ram[z]
    BY <1>10, <2>1
  <2>3. /\ g \in Int /\ b \in Int /\ x \in Int /\ gEnd \in Int /\ bEnd \in Int /\ y \in Int
    BY <1>3, <1>9
  <2> QED
    BY <2>2, <2>3, CellsSame
<1>12. /\ Cells(ram, bEnd, y) = VM!Without(Cells(ram, bEnd, x), k)
       /\ Cells(ram, y, x) = VM!Last(Cells(ram, bEnd, x), k)
  <2>1. /\ Cells(ram, bEnd, x - k) = VM!Without(Cells(ram, bEnd, x), k)
        /\ Cells(ram, x - k, x) = VM!Last(Cells(ram, bEnd, x), k)
    <3>1. ram \in Ram /\ bEnd \in Nat /\ x \in Nat /\ bEnd <= x /\ x <= Half /\ k \in Nat /\ k <= x - bEnd
      BY <1>1, <1>3, <1>9
    <3> QED
      BY <3>1, CellsCut
  <2> QED
    BY <1>9, <2>1
<1>13. Cells(ram', p, p) = <<>>
  BY <1>3, <1>9, CellsEmpty
<1>14. ram'[THIS] = ram[THIS] /\ ram'[THAT] = ram[THAT]
  <2>1. /\ THIS \in Address \ {SP, LCL, ARG} /\ THIS < 16
        /\ THAT \in Address \ {SP, LCL, ARG} /\ THAT < 16
    BY Registers DEF SP, LCL, ARG, THIS, THAT
  <2>2. THIS \in Int /\ THAT \in Int
    BY DEF THIS, THAT
  <2>3. THIS \notin x .. x + 4 /\ THAT \notin x .. x + 4
    BY <1>3, <1>9, <2>1, <2>2
  <2> QED
    BY <1>1, <2>1, <2>3
<1>15. W = [V EXCEPT !.work = VM!Without(@, k)]
  BY <1>5, <1>6, <1>11, <1>12
<1>16. E = VM!Frame(NextPoint[pc], VM!Shape.used + 5, VM!Last(V.work, k), V.this, V.that)
  <2>1. p - StackBase = VM!Shape.used + 5
    BY <1>3, <1>8
  <2>2. V.work = Cells(ram, bEnd, x) /\ V.this = ram[THIS] /\ V.that = ram[THAT]
    BY <1>5
  <2>3. Cells(ram', y, y + k) = VM!Last(V.work, k)
    BY <1>9, <1>11, <1>12, <2>2
  <2>4. Cells(ram', p, p + 0) = <<>> /\ Cells(ram', p + 0, ram'[SP]) = <<>>
    BY <1>1, <1>9, <1>13
  <2> QED
    BY <1>7, <1>14, <2>1, <2>2, <2>3, <2>4 DEF VM!Frame
<1>17. KeepsBelow(ram, calls, ram', calls', n)
  <2>1. \A z \in StackBase .. g - 1 : ram'[z] = ram[z]
    <3>1. \A z \in StackBase .. g - 1 : z \in 16 .. x - 1
      BY <1>3, <1>9
    <3> QED
      BY <1>10, <3>1
  <2>2. calls[n].argBase = g
    BY DEF n, g, Top
  <2>3. \A j \in 1 .. n - 1 : j \in 1 .. n
    BY <1>4
  <2> QED
    BY <1>1, <1>4, <2>1, <2>2, <2>3 DEF KeepsBelow
<1>18. AbsFrames' = Append([AbsFrames EXCEPT ![n] = W], E)
  <2>1. FramesAt(ram', calls') =
          Append([FramesAt(ram, calls) EXCEPT ![Len(FramesAt(ram, calls))] =
                    FrameAt(ram', calls', Len(calls))],
                 FrameAt(ram', calls', Len(calls')))
    BY <1>1, <1>4, <1>17, OneMore DEF n
  <2> QED
    BY <1>1, <1>4, <2>1 DEF W, E, n
<1>19. UNCHANGED <<AbsStatics, AbsTemps, AbsHeap>>
  <2>1. \A z \in x .. x + 4 : z \in StackBase .. StackTop - 1
    <3>1. StackBase <= x /\ x + 5 <= StackTop
      BY <1>1, <1>3, <1>9
    <3> QED
      BY <1>3, <3>1
  <2>2. \A z \in Address :
          /\ z \notin {SP, LCL, ARG, THIS, THAT, tmp_register, tmp_ret_register}
          /\ z \notin StackBase .. StackTop - 1
          => ram'[z] = ram[z]
    BY <1>1, <2>1
  <2> QED
    BY <2>2, OutsideStays
<1> QED
  BY <1>1, <1>4, <1>15, <1>16, <1>18, <1>19 DEF VM!CallFun, VM!WithTop, V, n, k

(* return leaves the temp segment alone.                                   *)
LEMMA ExceptKeeps ==
  ASSUME NEW r, DOMAIN r = Address, NEW k, NEW v
  PROVE  LET e == [r EXCEPT ![k] = v]
         IN DOMAIN e = Address /\ \A z \in Address : z # k => e[z] = r[z]
OBVIOUS

LEMMA ReturnTemps ==
  ASSUME NEW m \in Ram, InStack(m[ARG]), NEW z \in 5 .. 12
  PROVE  parse_return(m)[z] = m[z]
<1> DEFINE Saved(r, k) == Load(r, Sub(r[tmp_register], k))
           m1 == [m EXCEPT ![tmp_register] = m[LCL]]
           m2 == [m1 EXCEPT ![tmp_ret_register] = Saved(m1, 5)]
           m3 == DecSP(m2)
           m4 == Store(m3, m3[ARG], AtSP(m3))
           m5 == [m4 EXCEPT ![SP] = Add(m4[ARG], 1)]
           m6 == [m5 EXCEPT ![THAT] = Saved(m5, 1)]
           m7 == [m6 EXCEPT ![THIS] = Saved(m6, 2)]
           m8 == [m7 EXCEPT ![ARG] = Saved(m7, 3)]
           m9 == [m8 EXCEPT ![LCL] = Saved(m8, 4)]
           Keeps(r) == DOMAIN r = Address /\ r[z] = m[z]
<1>1. /\ z \in Address /\ ARG \in Address
      /\ z \notin {SP, LCL, ARG, THIS, THAT, tmp_register, tmp_ret_register}
      /\ ARG \notin {SP, tmp_register, tmp_ret_register}
  BY HalfAssumption, Registers DEF Address, SP, LCL, ARG, THIS, THAT, tmp_register, tmp_ret_register
<1>2. DOMAIN m = Address
  BY DEF Ram
<1> HIDE DEF Saved
<1>3. Keeps(m1) /\ m1[ARG] = m[ARG]
  BY <1>1, <1>2, ExceptKeeps
<1> HIDE DEF m1
<1>4. Keeps(m2) /\ m2[ARG] = m[ARG]
  BY <1>1, <1>3, ExceptKeeps
<1> HIDE DEF m2
<1>5. Keeps(m3) /\ m3[ARG] = m[ARG]
  BY <1>1, <1>4, ExceptKeeps DEF DecSP
<1> HIDE DEF m3
<1>6. Keeps(m4)
  <2>1. z # Addr(m3[ARG])
    BY <1>5, AddrOfAddress, LayoutAssumption, HalfAssumption DEF InStack, Address
  <2> QED
    BY <1>1, <1>5, <2>1, ExceptKeeps DEF Store
<1> HIDE DEF m4
<1>7. Keeps(m5)
  BY <1>1, <1>6, ExceptKeeps
<1> HIDE DEF m5
<1>8. Keeps(m6)
  BY <1>1, <1>7, ExceptKeeps
<1> HIDE DEF m6
<1>9. Keeps(m7)
  BY <1>1, <1>8, ExceptKeeps
<1> HIDE DEF m7
<1>10. Keeps(m8)
  BY <1>1, <1>9, ExceptKeeps
<1> HIDE DEF m8
<1>11. Keeps(m9)
  BY <1>1, <1>10, ExceptKeeps
<1> HIDE DEF Keeps
<1>12. Keeps(parse_return(m))
  BY <1>11, ZenonT(30) DEF parse_return, m1, m2, m3, m4, m5, m6, m7, m8, Saved
<1> QED
  BY <1>12 DEF Keeps

(* What return and Return make of the two frames.                          *)
LEMMA ReturnFrame ==
  ASSUME IInv, ~fault, ~fault', NEW c, Return(c)
  PROVE  /\ Running /\ c.op = "return" /\ Allowed(c, Shape)
         /\ Len(calls) - 1 \in 1 .. Len(calls) /\ Len(calls) - 1 # Len(calls)
         /\ Len(calls) - 1 + 1 = Len(calls)
         /\ Len(calls') = Len(calls) - 1
         /\ \A j \in 1 .. Len(calls) - 1 : calls'[j] = calls[j]
         /\ pc' = Top.ret /\ ram'[SP] = Top.argBase + 1
         /\ ram'[THIS] = Top.this /\ ram'[THAT] = Top.that
         /\ Top.base + Top.locals <= ram[SP] - 1
         /\ ram'[Top.argBase] = ram[ram[SP] - 1]
         /\ \A z \in 16 .. Half - 1 : z # Top.argBase => ram'[z] = ram[z]
         /\ \A z \in 5 .. 12 : ram'[z] = ram[z]
<1> DEFINE n == Len(calls)
           x == ram[SP]
           b == Top.base
           l == Top.locals
           g == Top.argBase
           k == Top.args
<1>1. /\ Running /\ Allowed(c, Shape) /\ c.op = "return"
      /\ ram' = parse_return(ram) /\ calls' = SubSeq(calls, 1, n - 1)
  BY CommandAt DEF Return
<1>2. /\ n \in Nat /\ n > 0 /\ calls \in Seq(CallRecord) /\ InStack(x) /\ InStack(ram[LCL])
      /\ InStack(ram[ARG]) /\ ram[LCL] = b /\ ram[ARG] = g
  BY <1>1, Pointers DEF IInv, TypeOK
<1>3. /\ g \in Nat /\ k \in Nat /\ b \in Nat /\ l \in Nat /\ x \in Nat /\ ram \in Ram
      /\ StackTop \in Nat /\ x <= StackTop /\ b = g + k + 5
  BY <1>1, TopBounds
<1>4. n > 1 /\ b + l <= x - 1
  <2>1. ~Shape.bottom /\ Shape.work >= 1
    BY <1>1, AllowedOp
  <2>2. n # 1
    BY <2>1 DEF Shape
  <2>3. b + l <= x - 1
    BY <1>1, <2>1, ShapeBounds
  <2>4. n > 1
    <3> HIDE DEF n
    <3> QED
      BY <1>2, <2>2
  <2> QED
    BY <2>3, <2>4
<1>5. Len(calls') = n - 1 /\ \A j \in 1 .. n - 1 : calls'[j] = calls[j]
  <2>1. \A j \in 1 .. n - 1 : calls[j] \in CallRecord
    BY <1>2, ElementOfSeq
  <2> QED
    BY <1>1, <1>2, <1>4, <2>1, SubSeqProperties
<1>6. n - 1 \in 1 .. n /\ n - 1 # n /\ n - 1 + 1 = n
  <2> HIDE DEF n
  <2> QED
    BY <1>2, <1>4
<1>7. /\ pc' = Top.ret /\ ram'[SP] = g + 1 /\ ram'[THIS] = Top.this /\ ram'[THAT] = Top.that
      /\ ram'[g] = ram[x - 1]
  BY ReturnSafe
<1>8. g <= b - 5 /\ b < x
  <2> HIDE DEF g, b, k, l, x
  <2> QED
    BY <1>3, <1>4
<1>9. \A z \in 16 .. Half - 1 : z # g => ram'[z] = ram[z]
  <2>1. /\ ram \in Ram /\ InStack(ram[SP]) /\ InStack(ram[LCL]) /\ InStack(ram[ARG])
        /\ ram[LCL] = b /\ ram[ARG] = g /\ ram' = parse_return(ram)
        /\ ram[ARG] <= ram[LCL] - 5 /\ ram[LCL] < ram[SP]
    BY <1>1, <1>2, <1>3, <1>8
  <2> HIDE DEF b, g, k, n, l, x
  <2>2. \A z \in 16 .. Half - 1 : z # ram[ARG] => parse_return(ram)[z] = ram[z]
    BY <2>1, ReturnEffect
  <2> QED
    BY <2>1, <2>2
<1>10. \A z \in 5 .. 12 : ram'[z] = ram[z]
  BY <1>1, <1>2, <1>3, ReturnTemps
<1> HIDE DEF n, x, b, l, g, k
<1> QED
  BY <1>1, <1>4, <1>5, <1>6, <1>7, <1>9, <1>10, Zenon DEF n, x, b, l, g

LEMMA ReturnImplements ==
  ASSUME IInv, ~fault, IInv', Running', NEW c, Return(c)
  PROVE  VM!Return(c) /\ pc' = VM!Top.ret
<1> DEFINE n == Len(calls)
           q == n - 1
           x == ram[SP]
           b == Top.base
           l == Top.locals
           g == Top.argBase
           f == calls[q]
           fg == f.argBase
           fb == f.base
           fgEnd == f.argBase + f.args
           fbEnd == f.base + f.locals
           V == VM!Top
           v == V.work[Len(V.work)]
           U == FrameAt(ram, calls, q)
           W == FrameAt(ram', calls', q)
<1> HIDE DEF q, n, x, b, l, g, f, fg, fb, fgEnd, fbEnd, V, v, U, W
<1>0. ~fault'
  BY DEF Running
<1>1. /\ Running /\ c.op = "return"
      /\ q \in 1 .. n /\ q # n /\ q + 1 = n /\ Len(calls') = q
      /\ \A j \in 1 .. q : calls'[j] = calls[j]
      /\ pc' = Top.ret /\ ram'[SP] = g + 1
      /\ ram'[THIS] = Top.this /\ ram'[THAT] = Top.that
      /\ b + l <= x - 1 /\ ram'[g] = ram[x - 1]
      /\ \A z \in 16 .. Half - 1 : z # g => ram'[z] = ram[z]
      /\ \A z \in 5 .. 12 : ram'[z] = ram[z]
  BY <1>0, ReturnFrame, Zenon DEF q, n, x, b, l, g
<1>2. /\ g \in Nat /\ b \in Nat /\ l \in Nat /\ x \in Nat /\ ram \in Ram /\ ram' \in Ram
      /\ StackBase \in Nat /\ StackTop \in Nat /\ Half \in Nat
      /\ 16 <= StackBase /\ StackBase <= g /\ g < Half /\ StackTop < Half /\ g + 1 <= StackTop
  <2> DEFINE a == Top.args
  <2>1. /\ g \in Nat /\ a \in Nat /\ b \in Nat /\ l \in Nat /\ x \in Nat /\ ram \in Ram
        /\ StackBase \in Nat /\ StackTop \in Nat /\ Half \in Nat
        /\ 16 <= StackBase /\ StackBase <= g /\ b = g + a + 5 /\ b + l <= x
        /\ x <= StackTop /\ StackTop < Half
    BY <1>1, TopBounds, Zenon DEF g, b, l, x
  <2>2. ram' \in Ram
    BY DEF IInv, TypeOK, Ram
  <2> HIDE DEF a
  <2> QED
    BY <2>1, <2>2
<1>3. /\ Laid(ram, calls) /\ Laid(ram', calls') /\ AbsFrames = FramesAt(ram, calls)
      /\ AbsFrames' = FramesAt(ram', calls') /\ Len(AbsFrames) = n
      /\ V = TopAt(ram) /\ n \in Nat /\ n \in 1 .. n
  <2>1. /\ Laid(ram, calls) /\ Laid(ram', calls') /\ AbsFrames = FramesAt(ram, calls)
        /\ Len(AbsFrames) = n /\ n \in Nat /\ n \in 1 .. n
    BY <1>1, LaidNow, LaidNext, TopFrame, Zenon DEF n
  <2>2. AbsFrames' = FramesAt(ram', calls')
    BY <2>1, FramesOfNow, FramesOfLaid
  <2> QED
    BY <1>1, <2>1, <2>2, TopNow, Zenon DEF V
<1>4. /\ fg \in Nat /\ fb \in Nat /\ fgEnd \in Nat /\ fbEnd \in Nat /\ StackBase <= fg
      /\ fg <= fgEnd /\ fgEnd <= fb /\ fb <= fbEnd /\ fbEnd <= g
  <2> DEFINE fa == f.args
             fl == f.locals
             e == IF q = n THEN x ELSE calls[q + 1].argBase
  <2>1. /\ fg \in Nat /\ fb \in Nat /\ fa \in Nat /\ fl \in Nat /\ StackBase <= fg
        /\ fb = fg + fa + 5 /\ fb + fl <= e
    <3>1. Laid(ram, calls) /\ q \in 1 .. Len(calls)
      BY <1>1, <1>3 DEF n
    <3> QED
      BY <3>1, FramePlaces, Zenon DEF fg, fb, f, x, n
  <2>2. e = g /\ fgEnd = fg + fa /\ fbEnd = fb + fl
    BY <1>1 DEF Top, g, fgEnd, fbEnd, fg, fb, n
  <2> HIDE DEF fa, fl, e
  <2> QED
    BY <2>1, <2>2
<1>5. U = [ret |-> f.ret, base |-> fb - StackBase, args |-> Cells(ram, fg, fgEnd),
           locals |-> Cells(ram, fb, fbEnd), work |-> Cells(ram, fbEnd, g),
           this |-> Top.this, that |-> Top.that, entering |-> f.entering]
  <2>1. calls[q + 1] = Top
    BY <1>1 DEF Top, n
  <2>2. q # Len(calls)
    BY <1>1 DEF n
  <2> QED
    BY <2>1, <2>2 DEF FrameAt, U, f, fg, fb, fgEnd, fbEnd, g
<1>6. W = [ret |-> f.ret, base |-> fb - StackBase, args |-> Cells(ram', fg, fgEnd),
           locals |-> Cells(ram', fb, fbEnd), work |-> Cells(ram', fbEnd, g + 1),
           this |-> Top.this, that |-> Top.that, entering |-> f.entering]
  <2>1. q \in 1 .. q /\ q = Len(calls')
    BY <1>1, <1>3
  <2>2. calls'[q] = f
    BY <1>1, <2>1 DEF f
  <2>3. ram'[SP] = g + 1 /\ ram'[THIS] = Top.this /\ ram'[THAT] = Top.that
    BY <1>1
  <2> QED
    BY <2>1, <2>2, <2>3 DEF FrameAt, W, fg, fb, fgEnd, fbEnd
<1>7. v = ram[x - 1] /\ V.ret = Top.ret
  <2> DEFINE w == x - b - l
             work == V.work
  <2>1. Len(work) = w /\ w \in Nat /\ \A i \in 1 .. w : work[i] = ram[b + l + i - 1]
    BY <1>1, TopFrame, Zenon DEF V, x, b, l
  <2>2. w \in 1 .. w /\ b + l + w - 1 = x - 1
    <3>1. x \in Nat /\ b \in Nat /\ l \in Nat /\ b + l <= x - 1
      BY <1>1, <1>2
    <3> QED
      BY <3>1
  <2> HIDE DEF w
  <2>3. work[w] = ram[x - 1]
    BY <2>1, <2>2
  <2>4. v = ram[x - 1]
    BY <2>1, <2>3 DEF v
  <2> QED
    BY <1>3, <2>4 DEF TopAt
<1>8. \A z \in 16 .. g - 1 : ram'[z] = ram[z]
  <2>1. \A z \in 16 .. g - 1 : z \in 16 .. Half - 1 /\ z # g
    BY <1>2
  <2> QED
    BY <1>1, <2>1
<1>9. /\ \A z \in fg .. fgEnd - 1 : ram'[z] = ram[z]
      /\ \A z \in fb .. fbEnd - 1 : ram'[z] = ram[z]
      /\ \A z \in fbEnd .. g - 1 : ram'[z] = ram[z]
  <2>1. /\ \A z \in fg .. fgEnd - 1 : z \in 16 .. g - 1
        /\ \A z \in fb .. fbEnd - 1 : z \in 16 .. g - 1
        /\ \A z \in fbEnd .. g - 1 : z \in 16 .. g - 1
    BY <1>2, <1>4
  <2> QED
    BY <1>8, <2>1
<1>10. Cells(ram', fg, fgEnd) = Cells(ram, fg, fgEnd) /\ Cells(ram', fb, fbEnd) = Cells(ram, fb, fbEnd)
  BY <1>4, <1>9, CellsSame
<1>11. Cells(ram', fbEnd, g + 1) = Append(Cells(ram, fbEnd, g), v)
  <2>1. Cells(ram', fbEnd, g + 1) = Append(Cells(ram, fbEnd, g), ram'[g])
    BY <1>2, <1>4, <1>9, CellsPush
  <2> QED
    BY <1>1, <1>7, <2>1
<1>12. W = [U EXCEPT !.work = Append(@, v)]
  <2> DEFINE s == Cells(ram, fbEnd, g)
             t == Append(s, v)
  <2>1. U = [ret |-> f.ret, base |-> fb - StackBase, args |-> Cells(ram, fg, fgEnd),
             locals |-> Cells(ram, fb, fbEnd), work |-> s,
             this |-> Top.this, that |-> Top.that, entering |-> f.entering]
    BY <1>5
  <2>2. W = [ret |-> f.ret, base |-> fb - StackBase, args |-> Cells(ram, fg, fgEnd),
             locals |-> Cells(ram, fb, fbEnd), work |-> t,
             this |-> Top.this, that |-> Top.that, entering |-> f.entering]
    BY <1>6, <1>10, <1>11
  <2> HIDE DEF s, t
  <2>3. W = [U EXCEPT !.work = t] /\ U.work = s
    BY <2>1, <2>2
  <2> QED
    BY <2>3 DEF t
<1>13. KeepsBelow(ram, calls, ram', calls', Len(calls'))
  <2>1. \A j \in 1 .. q - 1 : j \in 1 .. q
    BY <1>1, <1>3
  <2>2. q \in 1 .. q
    BY <1>1, <1>3
  <2>3. calls'[q] = calls[q] /\ \A j \in 1 .. q - 1 : calls'[j] = calls[j]
    BY <1>1, <2>1, <2>2
  <2>4. \A z \in StackBase .. fg - 1 : ram'[z] = ram[z]
    <3>1. \A z \in StackBase .. fg - 1 : z \in 16 .. g - 1
      BY <1>2, <1>4
    <3> QED
      BY <1>8, <3>1
  <2> QED
    BY <1>1, <2>3, <2>4 DEF KeepsBelow, fg, f
<1>14. /\ AbsFrames' = [VM!Without(AbsFrames, 1) EXCEPT ![Len(AbsFrames) - 1] = W]
       /\ VM!Without(AbsFrames, 1)[Len(AbsFrames) - 1] = U
  <2>1. Len(calls') = Len(calls) - 1
    BY <1>1, Zenon DEF q, n
  <2>2. /\ FramesAt(ram', calls') =
              [VM!Without(FramesAt(ram, calls), 1) EXCEPT ![Len(FramesAt(ram, calls)) - 1] =
                 FrameAt(ram', calls', Len(calls'))]
        /\ VM!Without(FramesAt(ram, calls), 1)[Len(FramesAt(ram, calls)) - 1]
             = FrameAt(ram, calls, Len(calls'))
    BY <1>3, <1>13, <2>1, OneLess
  <2> QED
    BY <1>1, <1>3, <2>2 DEF W, U
<1>15. AbsFrames' = [VM!Without(AbsFrames, 1) EXCEPT ![Len(AbsFrames) - 1].work = Append(@, v)]
  <2> DEFINE F == VM!Without(AbsFrames, 1)
             i == Len(AbsFrames) - 1
  <2>1. AbsFrames' = [F EXCEPT ![i] = [U EXCEPT !.work = Append(@, v)]] /\ F[i] = U
    BY <1>12, <1>14
  <2> HIDE DEF F, i
  <2>2. AbsFrames' = [F EXCEPT ![i].work = Append(@, v)]
    BY <2>1
  <2> QED
    BY <2>2 DEF F, i
<1>16. UNCHANGED <<AbsStatics, AbsTemps, AbsHeap>>
  <2>1. \A z : z \in 16 .. StackBase - 1 \/ z \in HeapAddr => z \in 16 .. Half - 1 /\ z # g
    BY <1>2 DEF HeapAddr
  <2>2. /\ \A z \in 16 .. StackBase - 1 : ram'[z] = ram[z]
        /\ \A z \in HeapAddr : ram'[z] = ram[z]
    BY <1>1, <2>1
  <2> QED
    BY <1>1, <2>2, StaticsStay, TempsStay, HeapStays
<1> QED
  BY <1>1, <1>7, <1>15, <1>16 DEF VM!Return, V, v

-----------------------------------------------------------------------------
(* The bootstrap and power-on                                              *)

LEMMA StartFrame ==
  ASSUME TypeOK, ~fault, Start
  PROVE  /\ pc = Boot /\ pc' = SysInit /\ fault' = fault /\ SysInit # Boot
         /\ NextPoint[Boot] \in Point \ {Boot}
         /\ ram' \in Ram /\ ram'[SP] = StackBase + 5
         /\ \A z \in Address \ {SP, LCL, ARG} :
              z \notin StackBase .. StackBase + 4 => ram'[z] = ram[z]
         /\ Len(calls') = 1
         /\ LET e == calls'[1]
            IN /\ e.ret = NextPoint[Boot] /\ e.base = StackBase + 5 /\ e.argBase = StackBase
               /\ e.args = 0 /\ e.locals = 0 /\ e.entering = TRUE
<1> DEFINE m == [ram EXCEPT ![SP] = StackBase]
           p == NextPoint[Boot]
           ret == RomAddr[p]
           f == Record(m, p, 0)
           x == StackBase
<1>1. /\ ram \in Ram /\ pc = Boot /\ pc' = SysInit /\ calls' = <<f>> /\ fault' = fault
      /\ ram' = parse_call(m, 0, ret)
  BY DEF TypeOK, Start, bootstrap, Ram
<1>2. /\ x \in Nat /\ 16 <= x /\ x + 5 <= StackTop /\ StackTop \in Nat
      /\ StackTop < Half /\ Half \in Nat /\ x \in Word /\ x - 0 = x
  BY LayoutAssumption, HalfAssumption DEF Word
<1>3. p \in Point \ {Boot} /\ ret \in Word /\ SysInit # Boot
  BY ProgramAssumption, Registers
<1>4. m \in Ram /\ m[SP] = x /\ \A z \in Address \ {SP} : m[z] = ram[z]
  BY <1>1, <1>2, Registers DEF Ram
<1>5. f.ret = p /\ f.argBase = x /\ f.base = x + 5 /\ f.args = 0 /\ f.locals = 0 /\ f.entering = TRUE
  BY <1>2, <1>4 DEF Record
<1>6. Len(calls') = 1 /\ calls'[1] = f
  BY <1>1
<1> HIDE DEF m, f
<1>7. /\ ram' \in Ram /\ ram'[SP] = x + 5
      /\ \A z \in Address \ {SP, LCL, ARG} : z \notin x .. x + 4 => ram'[z] = m[z]
  <2>1. InStack(m[SP]) /\ m[SP] + 5 <= StackTop /\ 0 < m[SP] - 0 /\ 0 \in Nat
    BY <1>2, <1>4 DEF InStack
  <2> HIDE DEF x, ret
  <2>2. /\ parse_call(m, 0, ret) \in Ram /\ parse_call(m, 0, ret)[SP] = m[SP] + 5
        /\ \A z \in Address \ {SP, LCL, ARG} :
             z \notin m[SP] .. m[SP] + 4 => parse_call(m, 0, ret)[z] = m[z]
    BY <1>3, <1>4, <2>1, CallEffect
  <2> QED
    BY <1>1, <1>4, <2>2
<1>8. \A z \in Address \ {SP, LCL, ARG} : z \notin x .. x + 4 => ram'[z] = ram[z]
  BY <1>4, <1>7
<1> QED
  BY <1>1, <1>3, <1>5, <1>6, <1>7, <1>8

LEMMA StartImplements ==
  ASSUME IInv, ~fault, IInv', Start
  PROVE  VM!Start
<1> DEFINE x == StackBase
           p == x + 5
           W == FrameAt(ram', calls', 1)
<1>1. /\ pc = Boot /\ pc' = SysInit /\ fault' = fault /\ SysInit # Boot
      /\ ram' \in Ram /\ ram'[SP] = p
      /\ \A z \in Address \ {SP, LCL, ARG} : z \notin x .. x + 4 => ram'[z] = ram[z]
      /\ Len(calls') = 1
  BY StartFrame DEF IInv
<1>2. /\ calls'[1].ret = NextPoint[Boot] /\ calls'[1].base = p /\ calls'[1].argBase = x
      /\ calls'[1].args = 0 /\ calls'[1].locals = 0 /\ calls'[1].entering = TRUE
  BY StartFrame DEF IInv
<1>3. /\ x \in Nat /\ 16 <= x /\ p <= StackTop /\ StackTop \in Nat /\ StackTop < Half
      /\ Half \in Nat /\ p \in Nat /\ p <= Half /\ x <= Half
      /\ x + 0 = x /\ p + 0 = p /\ p - StackBase = 5
  BY LayoutAssumption, HalfAssumption
<1>4. Running'
  BY <1>1 DEF Running
<1>5. AbsFrames' = FramesAt(ram', calls')
  BY <1>4, LaidNext, FramesOfNow, FramesOfLaid
<1>6. W = [ret |-> NextPoint[Boot], base |-> p - StackBase, args |-> Cells(ram', x, x + 0),
           locals |-> Cells(ram', p, p + 0), work |-> Cells(ram', p + 0, ram'[SP]),
           this |-> ram'[THIS], that |-> ram'[THAT], entering |-> TRUE]
  BY <1>1, <1>2 DEF FrameAt
<1> HIDE DEF x, p, W
<1>7. Cells(ram', x, x) = <<>> /\ Cells(ram', p, p) = <<>>
  BY <1>1, <1>3, CellsEmpty
<1>8. W = VM!Frame(NextPoint[Boot], 5, <<>>, ram'[THIS], ram'[THAT])
  BY <1>1, <1>3, <1>6, <1>7 DEF VM!Frame
<1>9. AbsFrames' = <<W>>
  <2>1. AbsFrames' = [k \in 1 .. 1 |-> FrameAt(ram', calls', k)]
    BY <1>1, <1>5 DEF FramesAt
  <2>2. \A k \in 1 .. 1 : FrameAt(ram', calls', k) = W
    BY DEF W
  <2>3. AbsFrames' = [k \in 1 .. 1 |-> W]
    BY <2>1, <2>2
  <2> QED
    BY <2>3
<1>10. ram'[THIS] \in VM!Word /\ ram'[THAT] \in VM!Word
  BY <1>1, Registers, SameRules DEF Ram
<1>11. UNCHANGED <<AbsStatics, AbsTemps, AbsHeap>>
  <2>1. \A z \in x .. x + 4 : z \in StackBase .. StackTop - 1
    BY <1>3 DEF x, p
  <2>2. \A z \in Address :
          /\ z \notin {SP, LCL, ARG, THIS, THAT, tmp_register, tmp_ret_register}
          /\ z \notin StackBase .. StackTop - 1
          => ram'[z] = ram[z]
    BY <1>1, <2>1
  <2> QED
    BY <2>2, OutsideStays
<1> QED
  BY <1>1, <1>8, <1>9, <1>10, <1>11 DEF VM!Start

LEMMA InitImplements == Init => VM!Init
<1> SUFFICES ASSUME Init PROVE VM!Init
  OBVIOUS
<1>1. ram \in Ram /\ pc = Boot /\ calls = <<>> /\ fault = FALSE
  BY InitialRamAssumption DEF Init, Ram
<1>2. AbsFrames = <<>>
  <2>1. Len(calls) = 0
    BY <1>1
  <2> DEFINE f == [k \in 1 .. 0 |-> AbsFrame(k)]
  <2>2. f \in Seq({})
    OBVIOUS
  <2> HIDE DEF f
  <2>3. \A i \in 1 .. 0 : f[i] \in {}
    OBVIOUS
  <2>4. SubSeq(f, 1, 0) \in Seq({}) /\ Len(SubSeq(f, 1, 0)) = 0
    BY <2>2, <2>3, SubSeqProperties
  <2>5. SubSeq(f, 1, 0) = <<>>
    BY <2>4, EmptySeq
  <2> QED
    BY <2>1, <2>5 DEF AbsFrames, f
<1>3. \A a : a \in 5 .. 12 \/ a \in 16 .. StackBase - 1 \/ a \in HeapAddr => ram[a] \in Word
  BY <1>1, OutsideAddresses DEF Ram
<1>4. AbsStatics \in [Static -> Word]
  <2>1. \A v \in Static : StaticAddr[v] \in 16 .. StackBase - 1
    BY LayoutAssumption
  <2> QED
    BY <1>3, <2>1 DEF AbsStatics
<1>5. AbsTemps \in [0 .. NTemp - 1 -> Word]
  <2>1. \A i \in 0 .. NTemp - 1 : base_temp + i \in 5 .. 12
    BY DEF NTemp, base_temp
  <2> QED
    BY <1>3, <2>1 DEF AbsTemps
<1>6. AbsHeap \in [HeapAddr -> Word]
  BY <1>3 DEF AbsHeap
<1> QED
  BY <1>1, <1>2, <1>4, <1>5, <1>6, SameRules DEF VM!Init

-----------------------------------------------------------------------------
(* Frames being entered                                                    *)

InFrame(c) == Push(c) \/ Pop(c) \/ Arith(c) \/ Label(c) \/ Goto(c) \/ IfGoto(c)

LEMMA StepAllowed ==
  ASSUME IInv, ~fault, NEW c, InFrame(c) \/ Function_(c) \/ CallFun(c) \/ Return(c)
  PROVE  /\ Running /\ c \in Command /\ c \in Program[pc]
         /\ fault' = (fault \/ ~Allowed(c, Shape))
         /\ InFrame(c) => c.op \in {"push", "pop", "arithmetic", "label", "goto", "if-goto"}
         /\ Function_(c) => c.op = "function"
         /\ CallFun(c) => c.op = "call"
         /\ Return(c) => c.op = "return"
<1>1. PICK op : Command_(c, op)
  BY DEF InFrame, Push, Pop, Arith, Label, Goto, IfGoto, Function_, CallFun, Return
<1>2. Running /\ c \in Command
  BY <1>1, CommandAt
<1>3. c \in Program[pc] /\ fault' = (fault \/ ~Allowed(c, Shape))
  BY <1>1 DEF Command_
<1>4. InFrame(c) => c.op \in {"push", "pop", "arithmetic", "label", "goto", "if-goto"}
  BY DEF InFrame, Push, Pop, Arith, Label, Goto, IfGoto, Command_
<1>5. (Function_(c) => c.op = "function") /\ (CallFun(c) => c.op = "call") /\ (Return(c) => c.op = "return")
  BY DEF Function_, CallFun, Return, Command_
<1> QED
  BY <1>2, <1>3, <1>4, <1>5

LEMMA NotEntering ==
  ASSUME IInv, ~fault, ~fault', NEW c, InFrame(c) \/ CallFun(c) \/ Return(c)
  PROVE  ~Top.entering
<1>1. Allowed(c, Shape) /\ c.op # "function"
  BY StepAllowed
<1>2. ~Shape.entering
  BY <1>1 DEF Allowed
<1> QED
  BY <1>2 DEF Shape

LEMMA InFrameKeeps ==
  ASSUME IInv, ~fault, NEW c, InFrame(c)
  PROVE  UNCHANGED calls /\ pc' \in Point \ {Boot}
<1>1. Running /\ c \in Command /\ c.op \in {"push", "pop", "arithmetic", "label", "goto", "if-goto"}
  BY StepAllowed
<1>2. NextPoint[pc] \in Point \ {Boot}
  BY <1>1, Pointers, ProgramAssumption
<1>3. CASE Push(c) \/ Pop(c) \/ Arith(c) \/ Label(c)
  BY <1>2, <1>3 DEF Push, Pop, Arith, Label
<1>4. CASE Goto(c) \/ IfGoto(c)
  <2>1. c.to \in Point \ {Boot}
    <3>1. c.op \in {"goto", "if-goto"}
      BY <1>4 DEF Goto, IfGoto, Command_
    <3> QED
      BY <1>1, <3>1, JumpTarget
  <2> QED
    BY <1>2, <1>4, <2>1 DEF Goto, IfGoto
<1> QED
  BY <1>3, <1>4 DEF InFrame

LEMMA StepEntered ==
  ASSUME RInv, ~fault, ~fault', NEW c, InFrame(c) \/ Function_(c) \/ CallFun(c) \/ Return(c)
  PROVE  Running' /\ Entered'
<1> DEFINE n == Len(calls)
<1>1. /\ IInv /\ Running /\ c \in Command /\ n \in Nat /\ n \in 1 .. n
      /\ NextPoint[pc] \in Point \ {Boot} /\ n + 1 # 1
      /\ \A k \in 1 .. n + 1 : k = n + 1 \/ k \in 1 .. n
      /\ \A k \in 1 .. (n + 1) - 1 : k \in 1 .. n
  <2>1. IInv /\ Running /\ c \in Command
    BY StepAllowed DEF RInv
  <2>2. n \in Nat /\ n \in 1 .. n /\ NextPoint[pc] \in Point \ {Boot}
    BY <2>1, Pointers, ProgramAssumption
  <2> HIDE DEF n
  <2>3. \A k \in 1 .. n + 1 : k = n + 1 \/ k \in 1 .. n
    BY <2>2
  <2>4. \A k \in 1 .. (n + 1) - 1 : k \in 1 .. n
    BY <2>2
  <2> QED
    BY <2>1, <2>2, <2>3, <2>4
<1>2. /\ \A k \in 1 .. n : calls[k].ret # Boot
      /\ \A k \in 1 .. n - 1 : ~calls[k].entering
      /\ Top.entering => Top.locals = 0 /\ ram[SP] = Top.base
      /\ Top = calls[n]
  BY <1>1 DEF RInv, Entered, Top
<1>3. CASE InFrame(c)
  <2>1. UNCHANGED calls /\ pc' \in Point \ {Boot} /\ ~Top.entering
    BY <1>1, <1>3, InFrameKeeps, NotEntering
  <2>2. Top' = Top
    BY <2>1 DEF Top
  <2> QED
    BY <1>2, <2>1, <2>2 DEF Running, Entered
<1>4. CASE Function_(c)
  <2>1. /\ Len(calls') = n /\ \A j \in 1 .. n : j # n => calls'[j] = calls[j]
        /\ calls'[n].ret = Top.ret /\ calls'[n].entering = FALSE
    BY <1>1, <1>4, FunctionFrame
  <2>2. pc' = NextPoint[pc]
    BY <1>4 DEF Function_
  <2> HIDE DEF n
  <2>3. \A k \in 1 .. n : calls'[k].ret # Boot
    BY <1>2, <2>1
  <2>4. \A k \in 1 .. n - 1 : k \in 1 .. n /\ k # n
    BY <1>1
  <2>5. \A k \in 1 .. n - 1 : ~calls'[k].entering
    BY <1>2, <2>1, <2>4
  <2>6. ~Top'.entering
    BY <2>1 DEF Top
  <2> QED
    BY <1>1, <2>1, <2>2, <2>3, <2>5, <2>6 DEF Running, Entered
<1>5. CASE CallFun(c)
  <2>1. /\ Len(calls') = n + 1 /\ \A j \in 1 .. n : calls'[j] = calls[j]
        /\ calls'[n + 1].ret = NextPoint[pc] /\ calls'[n + 1].base = ram[SP] + 5
        /\ calls'[n + 1].locals = 0 /\ ram'[SP] = ram[SP] + 5
        /\ pc' \in Point \ {Boot}
    BY <1>1, <1>5, CallFrame
  <2>2. ~Top.entering
    BY <1>1, <1>5, NotEntering
  <2> HIDE DEF n
  <2>3. \A k \in 1 .. n + 1 : calls'[k].ret # Boot
    BY <1>1, <1>2, <2>1
  <2>4. \A k \in 1 .. n : k # n => k \in 1 .. n - 1
    BY <1>1
  <2>5. \A k \in 1 .. (n + 1) - 1 : ~calls'[k].entering
    BY <1>1, <1>2, <2>1, <2>2, <2>4
  <2>6. Top'.locals = 0 /\ ram'[SP] = Top'.base
    BY <2>1 DEF Top
  <2> QED
    BY <2>1, <2>3, <2>5, <2>6 DEF Running, Entered
<1>6. CASE Return(c)
  <2> DEFINE q == n - 1
  <2>1. /\ q \in 1 .. n /\ q # n /\ q + 1 = n /\ Len(calls') = q
        /\ \A j \in 1 .. q : calls'[j] = calls[j]
    BY <1>1, <1>6, ReturnFrame
  <2>2. pc' = Top.ret
    BY <1>1, <1>6, ReturnFrame
  <2> HIDE DEF n, q
  <2>3. Top.ret \in Point \ {Boot}
    BY <1>1, Pointers, RecordFields, ReturnPoints
  <2>4. q \in 1 .. q /\ \A k \in 1 .. q : k \in 1 .. n
    BY <1>1, <2>1
  <2>5. \A k \in 1 .. q : calls'[k].ret # Boot
    BY <1>2, <2>1, <2>4
  <2>6. \A k \in 1 .. q - 1 : k \in 1 .. q
    BY <1>1, <2>1
  <2>7. \A k \in 1 .. q : ~calls'[k].entering
    BY <1>2, <2>1 DEF q
  <2>8. ~Top'.entering
    BY <2>1, <2>4, <2>7 DEF Top
  <2>9. \A k \in 1 .. q - 1 : ~calls'[k].entering
    BY <2>6, <2>7
  <2> QED
    BY <2>1, <2>2, <2>3, <2>5, <2>8, <2>9 DEF Running, Entered
<1> QED
  BY <1>3, <1>4, <1>5, <1>6

LEMMA StartEntered == ASSUME TypeOK, ~fault, Start PROVE Entered'
<1>1. /\ Len(calls') = 1 /\ calls'[1].ret = NextPoint[Boot] /\ calls'[1].base = StackBase + 5
      /\ calls'[1].locals = 0 /\ ram'[SP] = StackBase + 5 /\ NextPoint[Boot] # Boot
  BY StartFrame
<1>2. \A k \in 1 .. 1 : calls'[k].ret # Boot
  BY <1>1
<1>3. 1 .. 1 - 1 = {}
  OBVIOUS
<1>4. Top' = calls'[1]
  BY <1>1 DEF Top
<1> QED
  BY <1>1, <1>2, <1>3, <1>4 DEF Entered

LEMMA InitRInv == Init => RInv
<1>1. Init => Entered
  BY DEF Init, Entered, Running
<1> QED
  BY <1>1, InitIInv DEF RInv

LEMMA NextRInv == RInv /\ [Next]_vars => RInv'
<1> SUFFICES ASSUME RInv, [Next]_vars PROVE RInv'
  OBVIOUS
<1>1. IInv /\ IInv'
  BY NextIInv DEF RInv
<1>2. CASE UNCHANGED vars \/ Undefined
  BY <1>1, <1>2 DEF Undefined, vars, RInv, Entered, Running, Top
<1>3. CASE ~fault /\ Start
  BY <1>1, <1>3, StartEntered DEF RInv, IInv
<1>4. CASE ~fault /\ Step
  <2>1. PICK c : InFrame(c) \/ Function_(c) \/ CallFun(c) \/ Return(c)
    BY <1>4 DEF Step, InFrame
  <2>2. CASE fault'
    BY <1>1, <2>2 DEF RInv, Entered, Running
  <2>3. CASE ~fault'
    BY <1>1, <1>4, <2>1, <2>3, StepEntered DEF RInv
  <2> QED
    BY <2>2, <2>3
<1> QED
  BY <1>2, <1>3, <1>4 DEF Next

-----------------------------------------------------------------------------
(* Every step is a step of the abstract machine                            *)

LEMMA SameDestination ==
  ASSUME IInv, ~fault, IInv', Running', NEW c, InFrame(c)
  PROVE  pc' = VM!Destination(c)
<1>1. CASE Push(c) \/ Pop(c) \/ Arith(c) \/ Label(c)
  BY <1>1 DEF Push, Pop, Arith, Label, Command_, VM!Destination
<1>2. CASE Goto(c)
  BY <1>2 DEF Goto, Command_, VM!Destination
<1>3. CASE IfGoto(c)
  <2>1. IfValue(ram) = VM!Top.work[Len(VM!Top.work)]
    BY <1>3, IfGotoImplements
  <2>2. c.op = "if-goto" /\ pc' = IF IfValue(ram) # 0 THEN c.to ELSE NextPoint[pc]
    BY <1>3 DEF IfGoto, Command_
  <2> QED
    BY <2>1, <2>2 DEF VM!Destination
<1> QED
  BY <1>1, <1>2, <1>3 DEF InFrame

LEMMA AllowedImplements ==
  ASSUME RInv, ~fault, ~fault', RInv',
         NEW c, InFrame(c) \/ Function_(c) \/ CallFun(c) \/ Return(c)
  PROVE  /\ \/ VM!Push(c)   \/ VM!Pop(c) \/ VM!Arith(c)   \/ VM!Label(c) \/ VM!Goto(c)
            \/ VM!IfGoto(c) \/ VM!Fun(c) \/ VM!CallFun(c) \/ VM!Return(c)
         /\ pc' = VM!Destination(c)
<1>1. IInv /\ IInv' /\ Running'
  BY StepEntered DEF RInv
<1>2. CASE InFrame(c)
  <2>1. pc' = VM!Destination(c)
    BY <1>1, <1>2, SameDestination
  <2>2. CASE Push(c)
    BY <1>1, <2>1, <2>2, PushImplements
  <2>3. CASE Pop(c)
    BY <1>1, <2>1, <2>3, PopImplements
  <2>4. CASE Arith(c)
    BY <1>1, <2>1, <2>4, ArithImplements
  <2>5. CASE Label(c) \/ Goto(c)
    BY <1>1, <2>1, <2>5, JumpImplements
  <2>6. CASE IfGoto(c)
    BY <1>1, <2>1, <2>6, IfGotoImplements
  <2> QED
    BY <1>2, <2>2, <2>3, <2>4, <2>5, <2>6 DEF InFrame
<1>3. CASE Function_(c)
  <2>1. pc' = VM!Destination(c)
    BY <1>3 DEF Function_, Command_, VM!Destination
  <2> QED
    BY <1>1, <1>3, <2>1, FunctionImplements
<1>4. CASE CallFun(c)
  <2>1. pc' = VM!Destination(c)
    BY <1>4 DEF CallFun, Command_, VM!Destination
  <2> QED
    BY <1>1, <1>4, <2>1, CallImplements
<1>5. CASE Return(c)
  <2>1. VM!Return(c) /\ pc' = VM!Top.ret /\ c.op = "return"
    BY <1>1, <1>5, ReturnImplements DEF Return, Command_
  <2> QED
    BY <2>1 DEF VM!Destination
<1> QED
  BY <1>2, <1>3, <1>4, <1>5

LEMMA StepImplements ==
  ASSUME RInv, ~fault, RInv', Step
  PROVE  VM!Step
<1>1. PICK c : InFrame(c) \/ Function_(c) \/ CallFun(c) \/ Return(c)
  BY DEF Step, InFrame
<1>2. /\ Running /\ c \in Program[pc] /\ fault' = (fault \/ ~Allowed(c, Shape))
      /\ fault \in BOOLEAN /\ pc # Boot
  <2>1. Running /\ c \in Program[pc] /\ fault' = (fault \/ ~Allowed(c, Shape))
    BY <1>1, StepAllowed DEF RInv
  <2> QED
    BY <2>1 DEF RInv, IInv, TypeOK, Running
<1>3. VM!Allowed(c, VM!Shape) = Allowed(c, Shape)
  BY <1>2, SameShape, SameRules DEF RInv
<1>4. CASE ~fault'
  <2>1. VM!Allowed(c, VM!Shape)
    BY <1>2, <1>3, <1>4
  <2>2. UNCHANGED fault
    <3>1. fault = FALSE /\ fault' = FALSE
      BY <1>2, <1>3, <2>1
    <3> QED
      BY <3>1
  <2>3. /\ \/ VM!Push(c)   \/ VM!Pop(c) \/ VM!Arith(c)   \/ VM!Label(c) \/ VM!Goto(c)
           \/ VM!IfGoto(c) \/ VM!Fun(c) \/ VM!CallFun(c) \/ VM!Return(c)
        /\ pc' = VM!Destination(c)
    BY <1>1, <1>4, AllowedImplements
  <2> QED
    BY <1>2, <2>1, <2>2, <2>3 DEF VM!Step
<1>5. CASE fault'
  <2>1. ~Allowed(c, Shape) /\ fault' = TRUE
    BY <1>2, <1>5
  <2>2. ~VM!Allowed(c, VM!Shape)
    BY <1>3, <2>1
  <2> QED
    BY <1>2, <2>1, <2>2 DEF VM!Step
<1> QED
  BY <1>4, <1>5

LEMMA NextImplements == RInv /\ [Next]_vars => [VM!Next]_VM!vars
<1> SUFFICES ASSUME RInv, [Next]_vars PROVE [VM!Next]_VM!vars
  OBVIOUS
<1>1. RInv' /\ IInv /\ IInv'
  BY NextRInv DEF RInv
<1>2. CASE UNCHANGED vars \/ Undefined
  <2>1. UNCHANGED <<ram, pc, calls, fault>>
    BY <1>2 DEF Undefined, vars
  <2>2. UNCHANGED <<AbsFrames, AbsStatics, AbsTemps, AbsHeap>>
    BY <2>1 DEF AbsFrames, AbsFrame, Words, WorkEnd, AbsStatics, AbsTemps, AbsHeap
  <2> QED
    BY <2>1, <2>2 DEF VM!vars
<1>3. CASE ~fault /\ Start
  BY <1>1, <1>3, StartImplements DEF VM!Next
<1>4. CASE ~fault /\ Step
  BY <1>1, <1>4, StepImplements DEF VM!Next
<1> QED
  BY <1>2, <1>3, <1>4 DEF Next

-----------------------------------------------------------------------------
(* The theorem                                                             *)

(* Whatever program the language allows, and however long it runs: the code *)
(* that vm_backend.c writes for each command does to the frames, the        *)
(* statics, the temps and the heap what the abstract machine says, until    *)
(* the program breaks a rule of the language.                              *)
THEOREM Refinement == Spec => ImplementsVM
<1>1. Spec => []RInv
  BY InitRInv, NextRInv, PTL DEF Spec
<1>2. Spec => VM!Init
  BY InitImplements DEF Spec
<1>3. Spec => [][VM!Next]_VM!vars
  BY <1>1, NextImplements, PTL DEF Spec
<1> QED
  BY <1>2, <1>3, PTL DEF ImplementsVM, VM!Spec
=============================================================================
