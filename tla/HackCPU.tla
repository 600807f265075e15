------------------------------ MODULE HackCPU -------------------------------
(***************************************************************************)
(* The instruction cycle of the Hack computer, chip by chip: the ALU of    *)
(* projects/02, the CPU, the memory and the computer of projects/05, and   *)
(* the bits that projects/06/assembler.c gives a computation and a jump.   *)
(* The code of a command runs by itself: an address it jumps to is either  *)
(* a label of its own or an address outside.                               *)
(***************************************************************************)
EXTENDS HackWord, Sequences

(* Instructions.  A label of the code is known by the number of the         *)
(* instruction behind it.                                                  *)
At(n)      == [kind |-> "at", value |-> n, to |-> 0]
AtLabel(i) == [kind |-> "at", value |-> 0, to |-> i]
Set(dest, comp) == [kind |-> "compute", dest |-> dest, comp |-> comp, jump |-> ""]
JumpIf(comp, jump) == [kind |-> "compute", dest |-> {}, comp |-> comp, jump |-> jump]

(* The bits a zx nx zy ny f no of each computation, by its text.  A text    *)
(* that is none of them keeps the bits the assembler starts with.          *)
parse_comp(comp) ==
  CASE comp = "0"   -> <<0,1,0,1,0,1,0>> [] comp = "1"   -> <<0,1,1,1,1,1,1>>
    [] comp = "-1"  -> <<0,1,1,1,0,1,0>> [] comp = "D"   -> <<0,0,0,1,1,0,0>>
    [] comp = "A"   -> <<0,1,1,0,0,0,0>> [] comp = "M"   -> <<1,1,1,0,0,0,0>>
    [] comp = "!D"  -> <<0,0,0,1,1,0,1>> [] comp = "!A"  -> <<0,1,1,0,0,0,1>>
    [] comp = "!M"  -> <<1,1,1,0,0,0,1>> [] comp = "-D"  -> <<0,0,0,1,1,1,1>>
    [] comp = "-A"  -> <<0,1,1,0,0,1,1>> [] comp = "-M"  -> <<1,1,1,0,0,1,1>>
    [] comp = "D+1" -> <<0,0,1,1,1,1,1>> [] comp = "A+1" -> <<0,1,1,0,1,1,1>>
    [] comp = "M+1" -> <<1,1,1,0,1,1,1>> [] comp = "D-1" -> <<0,0,0,1,1,1,0>>
    [] comp = "A-1" -> <<0,1,1,0,0,1,0>> [] comp = "M-1" -> <<1,1,1,0,0,1,0>>
    [] comp = "D+A" -> <<0,0,0,0,0,1,0>> [] comp = "D+M" -> <<1,0,0,0,0,1,0>>
    [] comp = "D-A" -> <<0,0,1,0,0,1,1>> [] comp = "D-M" -> <<1,0,1,0,0,1,1>>
    [] comp = "A-D" -> <<0,0,0,0,1,1,1>> [] comp = "M-D" -> <<1,0,0,0,1,1,1>>
    [] comp = "D&A" -> <<0,0,0,0,0,0,0>> [] comp = "D&M" -> <<1,0,0,0,0,0,0>>
    [] comp = "D|A" -> <<0,0,1,0,1,0,1>> [] comp = "D|M" -> <<1,0,1,0,1,0,1>>
    [] OTHER        -> <<0,0,0,0,0,0,0>>

(* The bits jump if negative, zero, positive.                              *)
parse_jump(jump) ==
  CASE jump = "JGT" -> <<0,0,1>> [] jump = "JEQ" -> <<0,1,0>> [] jump = "JGE" -> <<0,1,1>>
    [] jump = "JLT" -> <<1,0,0>> [] jump = "JNE" -> <<1,0,1>> [] jump = "JLE" -> <<1,1,0>>
    [] jump = "JMP" -> <<1,1,1>> [] OTHER -> <<0,0,0>>

(* What the bitwise operations are to each other: a word and all ones is    *)
(* the word, and the ALU has a disjunction only by De Morgan's law.        *)
ASSUME AluAssumption ==
  \A x, y \in Word : And(x, Not(0)) = x /\ Or(x, y) = Not(And(Not(x), Not(y)))

(* ALU.hdl: zero and negate the inputs, add or conjoin, negate the output. *)
Mux16(a, b, sel) == IF sel = 1 THEN b ELSE a
ZeroIf(x, z)     == Mux16(x, 0, z)
NegateIf(x, n)   == Mux16(x, Not(x), n)

ALU(x, y, bits) ==
  LET x2 == NegateIf(ZeroIf(x, bits[2]), bits[3])
      y2 == NegateIf(ZeroIf(y, bits[4]), bits[5])
  IN NegateIf(Mux16(And(x2, y2), Add(x2, y2), bits[6]), bits[7])

(* CPU.hdl: out goes to the registers and to the word at A before A is      *)
(* changed; the jump, too, goes to the old A.                              *)
Taken(out, bits) ==
  \/ bits[1] = 1 /\ IsNegative(out)
  \/ bits[2] = 1 /\ out = 0
  \/ bits[3] = 1 /\ IsPositive(out)

(* The computer c: its registers, the label A stands for if any, its RAM,   *)
(* and the number of the next instruction, or out of the code.             *)
Cycle(c, i) ==
  IF i.kind = "at" THEN [c EXCEPT !.a = i.value, !.to = i.to, !.pc = @ + 1]
  ELSE LET bits == parse_comp(i.comp)
           out  == ALU(c.d, Mux16(c.a, c.ram[Addr(c.a)], bits[1]), bits)
       IN [a    |-> IF "A" \in i.dest THEN out ELSE c.a,
           to   |-> IF "A" \in i.dest THEN 0 ELSE c.to,
           d    |-> IF "D" \in i.dest THEN out ELSE c.d,
           ram  |-> IF "M" \in i.dest THEN [c.ram EXCEPT ![Addr(c.a)] = out] ELSE c.ram,
           pc   |-> IF ~Taken(out, parse_jump(i.jump)) THEN c.pc + 1
                    ELSE IF c.to # 0 THEN c.to ELSE 0,
           exit |-> IF Taken(out, parse_jump(i.jump)) /\ c.to = 0 THEN Addr(c.a) ELSE c.exit]

NextCycle(c, code) == IF c.pc \in DOMAIN code THEN Cycle(c, code[c.pc]) ELSE c

(* Running code from its first instruction until it is left: by its end, or *)
(* by a jump to exit.  Its jumps go forward, so that as many cycles as it   *)
(* has instructions are enough.  Neither register is known before.         *)
Through == -1

RunCode(ram, a, d, code) ==
  LET start == [a |-> a, to |-> 0, d |-> d, ram |-> ram, pc |-> 1, exit |-> Through]
      cycles[n \in 0 .. Len(code)] ==
        IF n = 0 THEN start ELSE NextCycle(cycles[n - 1], code)
  IN cycles[Len(code)]
=============================================================================
