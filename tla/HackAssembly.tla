---------------------------- MODULE HackAssembly ----------------------------
(***************************************************************************)
(* Hack assembly as nandtotetris/projects/06/assembler.c reads it: the     *)
(* kinds of line, the predefined symbols, the mnemonics, and what a        *)
(* program is supposed to assemble to.  A computation, a jump and a symbol *)
(* are known by their text; a destination by its set of letters; a blank   *)
(* line or a comment is a line with no instruction.                        *)
(***************************************************************************)
EXTENDS Integers, Sequences, FiniteSets

CONSTANT UserSymbol     \* the symbols a program introduces

blank           == [kind |-> "blank"]
label(s)        == [kind |-> "label", sym |-> s]
at_symbol(s)    == [kind |-> "symbol", sym |-> s]
at_number(n)    == [kind |-> "number", num |-> n]
compute(d, c, j) == [kind |-> "compute", dest |-> d, comp |-> c, jump |-> j]

IsInstruction(line) == line.kind \in {"symbol", "number", "compute"}

(* What is written for a line.                                             *)
AInstruction(n)       == [kind |-> "A", value |-> n]
CInstruction(d, c, j) == [kind |-> "C", dest |-> d, comp |-> c, jump |-> j]

(* The predefined symbols, in the order of the table.                      *)
Predefined == <<"SP", "LCL", "ARG", "THIS", "THAT",
                "R0", "R1", "R2", "R3", "R4", "R5", "R6", "R7", "R8", "R9",
                "R10", "R11", "R12", "R13", "R14", "R15", "SCREEN", "KBD">>
NPredefined == Len(Predefined)

PredefinedAddress(i) == IF i <= 5 THEN i - 1
                        ELSE IF i <= 21 THEN i - 6
                        ELSE IF Predefined[i] = "SCREEN" THEN 16384 ELSE 24576

Comps == {"0", "1", "-1", "D", "A", "M", "!D", "!A", "!M", "-D", "-A", "-M",
          "D+1", "A+1", "M+1", "D-1", "A-1", "M-1", "D+A", "D+M", "D-A", "D-M",
          "A-D", "M-D", "D&A", "D&M", "D|A", "D|M"}
Jumps == {"JGT", "JEQ", "JGE", "JLT", "JNE", "JLE", "JMP"}

ASSUME SymbolAssumption ==
  /\ IsFiniteSet(UserSymbol)
  /\ \A i \in 1 .. NPredefined : Predefined[i] \notin UserSymbol

-----------------------------------------------------------------------------
(* The programs the assembler is for.  They use the symbols it counts (KBD  *)
(* is not one of them) and the mnemonics it knows, define a label once, and *)
(* a line without an instruction stands where the buffer is empty: behind a *)
(* label, or behind another such line.                                     *)
MaxNumber   == 32767
Known       == {Predefined[i] : i \in 1 .. NPredefined - 1}
LabelLine   == [kind : {"label"}, sym : UserSymbol]
SymbolLine  == [kind : {"symbol"}, sym : UserSymbol \cup Known]
NumberLine  == [kind : {"number"}, num : 0 .. MaxNumber]
ComputeLine == [kind : {"compute"}, dest : SUBSET {"A", "D", "M"}, comp : Comps, jump : Jumps \cup {""}]
ProgramLine == {blank} \cup LabelLine \cup SymbolLine \cup NumberLine \cup ComputeLine

WellFormed(src) ==
  /\ src \in Seq(ProgramLine) /\ Len(src) <= MaxNumber
  /\ \A i, j \in DOMAIN src : src[i].kind = "label" /\ src[i] = src[j] => i = j
  /\ \A i \in DOMAIN src : src[i] = blank => i > 1 /\ src[i - 1].kind \in {"label", "blank"}

-----------------------------------------------------------------------------
(* The reference: what a program assembles to.                             *)

(* The address of the instruction that line i is, or stands before.        *)
RomAddress(src, i) == Cardinality({j \in 1 .. i - 1 : IsInstruction(src[j])})

Labels(src) == {src[i].sym : i \in {j \in DOMAIN src : src[j].kind = "label"}}

(* Variables are numbered from 16 in the order of their first use.         *)
IsVariable(src, i) ==
  /\ src[i].kind = "symbol"
  /\ src[i].sym \in UserSymbol \ Labels(src)

VariablesBefore(src, i) == {src[j].sym : j \in {k \in 1 .. i - 1 : IsVariable(src, k)}}

FirstUse(src, s) ==
  CHOOSE i \in DOMAIN src :
    /\ src[i] = at_symbol(s)
    /\ \A j \in 1 .. i - 1 : src[j] # at_symbol(s)

Meaning(src, s) ==
  IF s \in Labels(src)
  THEN RomAddress(src, CHOOSE i \in DOMAIN src : src[i] = label(s))
  ELSE IF s \in UserSymbol THEN 16 + Cardinality(VariablesBefore(src, FirstUse(src, s)))
  ELSE PredefinedAddress(CHOOSE i \in 1 .. NPredefined : Predefined[i] = s)

Instruction(src, i) ==
  CASE src[i].kind = "symbol"  -> AInstruction(Meaning(src, src[i].sym))
    [] src[i].kind = "number"  -> AInstruction(src[i].num)
    [] src[i].kind = "compute" -> CInstruction(src[i].dest, src[i].comp, src[i].jump)

(* Line i of the program is at its place in the code.                      *)
Placed(src, i, code) ==
  IsInstruction(src[i]) => /\ RomAddress(src, i) < Len(code)
                           /\ code[RomAddress(src, i) + 1] = Instruction(src, i)
=============================================================================
