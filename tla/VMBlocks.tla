------------------------------ MODULE VMBlocks ------------------------------
(***************************************************************************)
(* What the assembly that vm_backend.c writes for a command does to the    *)
(* RAM, as functions of the RAM m before it.  The code of a command is     *)
(* straight-line apart from the comparisons and its last jump, so each is  *)
(* a chain of loads and stores in the order of the emitted instructions;   *)
(* D is the value carried from one to the next.                            *)
(***************************************************************************)
EXTENDS VMProgram

Load(m, a)     == m[Addr(a)]
Store(m, a, v) == [m EXCEPT ![Addr(a)] = v]

(* "@SP  M=M-1  A=M": the popped word is then at M.                        *)
DecSP(m) == [m EXCEPT ![SP] = Sub(@, 1)]
IncSP(m) == [m EXCEPT ![SP] = Add(@, 1)]
AtSP(m)  == Load(m, m[SP])

(* push: D is stored at the top and SP moves up.                           *)
PushD(m, d) == IncSP(Store(m, m[SP], d))

(* Mutant: the index of argument counted from one.                          *)
ArgumentFromOne(m, c) ==
  CASE c.seg = "local"    -> Add(c.idx, m[LCL])
    [] c.seg = "argument" -> Add(c.idx + 1, m[ARG])
    [] c.seg = "pointer"  -> base_pointer + c.idx

(* R13 := the address of word idx of the segment.                          *)
SegmentAddress(m, c) ==
  CASE c.seg = "local"    -> Add(c.idx, m[LCL])
    [] c.seg = "argument" -> Add(c.idx, m[ARG])
    [] c.seg = "this"     -> Add(c.idx, m[THIS])
    [] c.seg = "that"     -> Add(c.idx, m[THAT])
    [] c.seg = "temp"     -> base_temp + c.idx
    [] c.seg = "pointer"  -> base_pointer + c.idx
    [] c.seg = "static"   -> StaticAddr[c.idx]

set_segment(m, c) == Store(m, tmp_register, SegmentAddress(m, c))

parse_push(m, c) ==
  IF c.seg = "constant" THEN PushD(m, c.idx)
  ELSE LET s == set_segment(m, c)
       IN PushD(s, Load(s, s[tmp_register]))

(* Mutant: the value is read before SP is moved down to it.                 *)
PopStale(m, c) ==
  LET s == set_segment(m, c)
  IN DecSP(Store(s, s[tmp_register], AtSP(s)))

parse_pop(m, c) ==
  LET s == DecSP(set_segment(m, c))
  IN Store(s, s[tmp_register], AtSP(s))

(* D = y - x and a conditional jump on D: lt is y - x > 0, gt y - x < 0.   *)
parse_compare(fn, d) ==
  LET holds == CASE fn = "eq" -> d = 0
                 [] fn = "lt" -> IsPositive(d)
                 [] fn = "gt" -> IsNegative(d)
  IN IF holds THEN 2 * Half - 1 ELSE 0

(* Mutant: "D=D-M" without the change of sign that projects/07 lacks.       *)
ComputeNoSign(fn, x, y) ==
  CASE fn = "add" -> Add(y, x)
    [] fn = "sub" -> Sub(y, x)
    [] fn = "and" -> And(y, x)
    [] fn = "or"  -> Or(y, x)
    [] fn \in Compare -> parse_compare(fn, Sub(y, x))

Compute(fn, x, y) ==
  CASE fn = "add" -> Add(y, x)
    [] fn = "sub" -> Neg(Sub(y, x))
    [] fn = "and" -> And(y, x)
    [] fn = "or"  -> Or(y, x)
    [] fn \in Compare -> parse_compare(fn, Sub(y, x))

parse_arithmetic(m, c) ==
  LET p == DecSP(m)
      q == DecSP(p)
  IN IF c.fn \in Unary
     THEN PushD(p, IF c.fn = "neg" THEN Neg(AtSP(p)) ELSE Not(AtSP(p)))
     ELSE PushD(q, Compute(c.fn, AtSP(q), AtSP(p)))

(* if-goto pops into D; what is left to the jump is that word.             *)
parse_if(m)  == DecSP(m)
IfValue(m)   == AtSP(DecSP(m))

(* Mutant: SP is moved over the locals, which keep what the stack held.     *)
FunctionNoZero(m, k) == [m EXCEPT ![SP] = Add(@, k)]

(* function f k: k times "push 0", unrolled; here its sum.                 *)
parse_function(m, k) ==
  [a \in Address |->
     IF a = SP THEN Add(m[SP], k)
     ELSE IF m[SP] <= a /\ a < m[SP] + k THEN 0 ELSE m[a]]

(* Mutants: ARG is computed with n alone, and with one word too many.       *)
CallArgWrong(m, n, ret, skip) ==
  LET m5 == PushD(PushD(PushD(PushD(PushD(m, ret), m[LCL]), m[ARG]), m[THIS]), m[THAT])
      m6 == [m5 EXCEPT ![ARG] = Neg(Sub(n + skip, m5[SP]))]
  IN [m6 EXCEPT ![LCL] = m6[SP]]
CallForgetsFrame(m, n, ret) == CallArgWrong(m, n, ret, 0)
CallSkipsSix(m, n, ret)     == CallArgWrong(m, n, ret, 6)

(* call f n: five words are pushed, ARG = -((n + 5) - SP), LCL = SP.       *)
parse_call(m, n, ret) ==
  LET m1 == PushD(m, ret)
      m2 == PushD(m1, m1[LCL])
      m3 == PushD(m2, m2[ARG])
      m4 == PushD(m3, m3[THIS])
      m5 == PushD(m4, m4[THAT])
      m6 == [m5 EXCEPT ![ARG] = Neg(Sub(n + 5, m5[SP]))]
  IN [m6 EXCEPT ![LCL] = m6[SP]]

(* Mutant: the return address is fetched after the result was stored.       *)
ReturnLateRet(m) ==
  LET Saved(r, k) == Load(r, Sub(r[tmp_register], k))
      m1 == [m EXCEPT ![tmp_register] = m[LCL]]
      m3 == DecSP(m1)
      m4 == Store(m3, m3[ARG], AtSP(m3))
      m5 == [m4 EXCEPT ![SP] = Add(m4[ARG], 1)]
      m6 == [m5 EXCEPT ![THAT] = Saved(m5, 1)]
      m7 == [m6 EXCEPT ![THIS] = Saved(m6, 2)]
      m8 == [m7 EXCEPT ![ARG] = Saved(m7, 3)]
      m9 == [m8 EXCEPT ![LCL] = Saved(m8, 4)]
  IN [m9 EXCEPT ![tmp_ret_register] = Saved(m9, 5)]

(* return: FRAME is kept in R13 and the return address in R14, because     *)
(* with no arguments ARG is the very word that holds the return address.   *)
parse_return(m) ==
  LET Saved(r, k) == Load(r, Sub(r[tmp_register], k))
      m1 == [m EXCEPT ![tmp_register] = m[LCL]]
      m2 == [m1 EXCEPT ![tmp_ret_register] = Saved(m1, 5)]
      m3 == DecSP(m2)
      m4 == Store(m3, m3[ARG], AtSP(m3))
      m5 == [m4 EXCEPT ![SP] = Add(m4[ARG], 1)]
      m6 == [m5 EXCEPT ![THAT] = Saved(m5, 1)]
      m7 == [m6 EXCEPT ![THIS] = Saved(m6, 2)]
      m8 == [m7 EXCEPT ![ARG] = Saved(m7, 3)]
  IN [m8 EXCEPT ![LCL] = Saved(m8, 4)]

(* The bootstrap: SP = 256, then call Sys.init 0.                          *)
bootstrap(m, ret) == parse_call([m EXCEPT ![SP] = StackBase], 0, ret)
=============================================================================
