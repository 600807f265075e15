------------------------------- MODULE VMCode -------------------------------
(***************************************************************************)
(* The assembly that vm_backend.c writes for each command, instruction by  *)
(* instruction, and that running it on the computer has the effect by      *)
(* which VMBackend describes the command.                                  *)
(***************************************************************************)
EXTENDS VMBackend, HackCPU

(* What the registers A and D may hold when the code of a command begins:   *)
(* no code reads them before it has loaded them.                           *)
CONSTANT Leftover
ASSUME LeftoverAssumption == Leftover \subseteq Word \X Word

pop_with_m == <<At(SP), Set({"M"}, "M-1"), Set({"A"}, "M")>>
pop        == pop_with_m \o <<Set({"D"}, "M")>>
push       == <<At(SP), Set({"A"}, "M"), Set({"M"}, "D"), At(SP), Set({"M"}, "M+1")>>

SetD(n)     == <<At(n), Set({"D"}, "A")>>
Fetch(a)    == <<At(a), Set({"D"}, "M")>>
Deposit(a)  == <<At(a), Set({"M"}, "D")>>
Follow(a)   == <<At(a), Set({"A"}, "M")>>         \* A := the word at a

PointerOf(seg) ==
  CASE seg = "local" -> LCL [] seg = "argument" -> ARG [] seg = "this" -> THIS [] seg = "that" -> THAT

set_segment_code(c) ==
  (CASE c.seg \in {"local", "argument", "this", "that"} ->
               SetD(c.idx) \o <<At(PointerOf(c.seg)), Set({"D"}, "D+M")>>
     [] c.seg = "temp"    -> SetD(base_temp + c.idx)
     [] c.seg = "pointer" -> SetD(base_pointer + c.idx)
     [] c.seg = "static"  -> SetD(StaticAddr[c.idx]))
    \o Deposit(tmp_register)

push_code(c) ==
  (IF c.seg = "constant" THEN SetD(c.idx)
   ELSE set_segment_code(c) \o Follow(tmp_register) \o <<Set({"D"}, "M")>>) \o push

pop_code(c) == set_segment_code(c) \o pop \o Follow(tmp_register) \o <<Set({"M"}, "D")>>

(* Mutant: the conditional jumps are not turned round although y - x is.    *)
CompareStraight(fn) == CASE fn = "eq" -> "JEQ" [] fn = "lt" -> "JLT" [] fn = "gt" -> "JGT"
CompareJump(fn)     == CASE fn = "eq" -> "JEQ" [] fn = "lt" -> "JGT" [] fn = "gt" -> "JLT"

(* Behind the two pops, 7 instructions: the label TRUE is behind another 8, *)
(* END behind 11.                                                          *)
compare_code(fn) ==
  <<Set({"D"}, "D-M"), AtLabel(16), JumpIf("D", CompareJump(fn)),
    At(SP), Set({"A"}, "M"), Set({"M"}, "0"), AtLabel(19), JumpIf("0", "JMP"),
    At(SP), Set({"A"}, "M"), Set({"M"}, "-1"),
    At(SP), Set({"M"}, "M+1")>>

arithmetic_code(fn) ==
  CASE fn = "neg" -> pop_with_m \o <<Set({"D"}, "-M")>> \o push
    [] fn = "not" -> pop_with_m \o <<Set({"D"}, "!M")>> \o push
    [] fn = "add" -> pop \o pop_with_m \o <<Set({"D"}, "D+M")>> \o push
    [] fn = "sub" -> pop \o pop_with_m \o <<Set({"D"}, "D-M"), Set({"D"}, "-D")>> \o push
    [] fn = "and" -> pop \o pop_with_m \o <<Set({"D"}, "D&M")>> \o push
    [] fn = "or"  -> pop \o pop_with_m \o <<Set({"D"}, "D|M")>> \o push
    [] fn \in Compare -> pop \o pop_with_m \o compare_code(fn)

push_zero == <<Set({"D"}, "0")>> \o push

(* k times push_zero.                                                      *)
function_code(k) ==
  [i \in 1 .. k * Len(push_zero) |-> push_zero[((i - 1) % Len(push_zero)) + 1]]

call_code(ret, n, to) ==
  SetD(ret) \o push
    \o Fetch(LCL) \o push \o Fetch(ARG) \o push \o Fetch(THIS) \o push \o Fetch(THAT) \o push
    \o SetD(n) \o <<At(5), Set({"D"}, "D+A"), At(SP), Set({"D"}, "D-M"), Set({"D"}, "-D")>> \o Deposit(ARG)
    \o Fetch(SP) \o Deposit(LCL)
    \o <<At(to), JumpIf("0", "JMP")>>

(* D := the k-th word below the frame.                                     *)
Saved_(k) == SetD(k) \o <<At(tmp_register), Set({"A"}, "M-D"), Set({"D"}, "M")>>

return_code ==
  Fetch(LCL) \o Deposit(tmp_register)
    \o Saved_(5) \o Deposit(tmp_ret_register)
    \o pop \o Follow(ARG) \o <<Set({"M"}, "D")>>
    \o <<At(ARG), Set({"D"}, "M+1")>> \o Deposit(SP)
    \o <<At(tmp_register), Set({"A"}, "M-1"), Set({"D"}, "M")>> \o Deposit(THAT)
    \o Saved_(2) \o Deposit(THIS) \o Saved_(3) \o Deposit(ARG) \o Saved_(4) \o Deposit(LCL)
    \o Follow(tmp_ret_register) \o <<JumpIf("0", "JMP")>>

(* What is written for the command c that stands at p.                     *)
parser(p, c) ==
  CASE c.op = "push"       -> push_code(c)
    [] c.op = "pop"        -> pop_code(c)
    [] c.op = "arithmetic" -> arithmetic_code(c.fn)
    [] c.op = "label"      -> <<>>
    [] c.op = "goto"       -> <<At(RomAddr[c.to]), JumpIf("0", "JMP")>>
    [] c.op = "if-goto"    -> pop \o <<At(RomAddr[c.to]), JumpIf("D", "JNE")>>
    [] c.op = "function"   -> function_code(c.locals)
    [] c.op = "call"       -> call_code(RomAddr[NextPoint[p]], c.args, RomAddr[c.to])
    [] c.op = "return"     -> return_code

Code == [p \in Point |-> [c \in Program[p] |-> parser(p, c)]]

bootstrap_code ==
  SetD(StackBase) \o Deposit(SP) \o call_code(RomAddr[NextPoint[Boot]], 0, RomAddr[SysInit])

-----------------------------------------------------------------------------
(* The effect of a command as the actions of VMBackend have it: on the RAM, *)
(* and where it goes on.                                                   *)
Effect(c) ==
  CASE c.op = "push"       -> parse_push(ram, c)
    [] c.op = "pop"        -> parse_pop(ram, c)
    [] c.op = "arithmetic" -> parse_arithmetic(ram, c)
    [] c.op = "if-goto"    -> parse_if(ram)
    [] c.op = "function"   -> parse_function(ram, c.locals)
    [] c.op = "call"       -> parse_call(ram, c.args, RomAddr[NextPoint[pc]])
    [] c.op = "return"     -> parse_return(ram)
    [] OTHER               -> ram

GoesTo(c) ==
  CASE c.op \in {"goto", "call"} -> RomAddr[c.to]
    [] c.op = "if-goto" -> IF IfValue(ram) # 0 THEN RomAddr[c.to] ELSE Through
    [] c.op = "return"  -> Addr(Effect(c)[tmp_ret_register])
    [] OTHER            -> Through

Computes(code, effect, target) ==
  \A left \in Leftover :
    LET end == RunCode(ram, left[1], left[2], code)
    IN end.ram = effect /\ end.exit = target /\ end.pc \notin DOMAIN code

(* In whatever state a command finds the machine, the instructions written  *)
(* for it, assembled and run one after another, come to an end, leave the   *)
(* RAM as its block says and go on where its action does: 132-464 of        *)
(* vm_backend.c.  The sum of the pushes of a function command is only their *)
(* sum where the stack has room for them.                                  *)
CodeComputes ==
  ~fault =>
    /\ pc = Boot => Computes(bootstrap_code, bootstrap(ram, RomAddr[NextPoint[Boot]]), RomAddr[SysInit])
    /\ pc # Boot => \A c \in Program[pc] :
         (c.op = "function" => Room(Shape, c.locals)) => Computes(Code[pc][c], Effect(c), GoesTo(c))
=============================================================================
