----------------------------- MODULE VMBackend ------------------------------
(***************************************************************************)
(* The Hack computer running the code that nandtotetris/projects/08/       *)
(* vm_backend.c writes, one action per virtual machine command: the whole  *)
(* effect of the command's code on the RAM, and the point it jumps to.     *)
(*                                                                         *)
(* ram and pc are the machine.  calls and fault are history variables that *)
(* no guard reads: calls records where each frame was built and which      *)
(* words were saved in it, fault that the program broke the rules of the   *)
(* language.                                                               *)
(***************************************************************************)
EXTENDS VMBlocks

CONSTANT InitialRam    \* what the RAM may hold at power-on or after a reset

VARIABLES ram, pc, calls, fault

vars == <<ram, pc, calls, fault>>

ASSUME InitialRamAssumption == InitialRam \subseteq [Address -> Word]

Top == calls[Len(calls)]

(* The record of a frame whose caller resumes at ret: the words LCL, ARG,  *)
(* THIS and THAT held when it was called, and where the frame lies.        *)
Record(m, ret, args) ==
  [ret |-> ret, lcl |-> m[LCL], arg |-> m[ARG], this |-> m[THIS], that |-> m[THAT],
   argBase |-> m[SP] - args, base |-> m[SP] + 5, args |-> args, locals |-> 0,
   entering |-> TRUE]

-----------------------------------------------------------------------------
(* The frames, read back from the RAM.                                     *)

Words(from, to) == [i \in 1 .. to - from |-> Load(ram, from + i - 1)]

WorkEnd(k) == IF k = Len(calls) THEN ram[SP] ELSE calls[k + 1].argBase

AbsFrame(k) ==
  LET f == calls[k]
  IN [ret      |-> f.ret,
      base     |-> f.base - StackBase,
      args     |-> Words(f.argBase, f.argBase + f.args),
      locals   |-> Words(f.base, f.base + f.locals),
      work     |-> Words(f.base + f.locals, WorkEnd(k)),
      this     |-> IF k = Len(calls) THEN ram[THIS] ELSE calls[k + 1].this,
      that     |-> IF k = Len(calls) THEN ram[THAT] ELSE calls[k + 1].that,
      entering |-> f.entering]

(* SubSeq has TLC build the tuple at once instead of on demand.             *)
AbsFrames  == SubSeq([k \in 1 .. Len(calls) |-> AbsFrame(k)], 1, Len(calls))
AbsStatics == [v \in Static |-> ram[StaticAddr[v]]]
AbsTemps   == [i \in 0 .. NTemp - 1 |-> ram[base_temp + i]]
AbsHeap    == [a \in HeapAddr |-> ram[a]]

VM == INSTANCE VMachine WITH
        frames <- AbsFrames, statics <- AbsStatics, temps <- AbsTemps, heap <- AbsHeap

(* The shape of the running frame, by pointer arithmetic.                  *)
Shape ==
  [args     |-> Top.args,
   locals   |-> Top.locals,
   work     |-> ram[SP] - Top.base - Top.locals,
   used     |-> ram[SP] - StackBase,
   this     |-> ram[THIS],
   that     |-> ram[THAT],
   entering |-> Top.entering,
   bottom   |-> Len(calls) = 1]

-----------------------------------------------------------------------------

Init ==
  /\ ram \in InitialRam
  /\ pc = Boot
  /\ calls = <<>>
  /\ fault = FALSE

Start ==
  /\ pc = Boot
  /\ ram' = bootstrap(ram, RomAddr[NextPoint[Boot]])
  /\ pc' = SysInit
  /\ calls' = <<Record([ram EXCEPT ![SP] = StackBase], NextPoint[Boot], 0)>>
  /\ UNCHANGED fault

Command_(c, op) ==
  /\ pc # Boot
  /\ c \in Program[pc]
  /\ c.op = op
  /\ fault' = (fault \/ ~Allowed(c, Shape))

Push(c) ==
  /\ Command_(c, "push")
  /\ ram' = parse_push(ram, c)
  /\ pc' = NextPoint[pc]
  /\ UNCHANGED calls

Pop(c) ==
  /\ Command_(c, "pop")
  /\ ram' = parse_pop(ram, c)
  /\ pc' = NextPoint[pc]
  /\ UNCHANGED calls

Arith(c) ==
  /\ Command_(c, "arithmetic")
  /\ ram' = parse_arithmetic(ram, c)
  /\ pc' = NextPoint[pc]
  /\ UNCHANGED calls

Label(c) ==
  /\ Command_(c, "label")
  /\ pc' = NextPoint[pc]
  /\ UNCHANGED <<ram, calls>>

Goto(c) ==
  /\ Command_(c, "goto")
  /\ pc' = c.to
  /\ UNCHANGED <<ram, calls>>

IfGoto(c) ==
  /\ Command_(c, "if-goto")
  /\ ram' = parse_if(ram)
  /\ pc' = IF IfValue(ram) # 0 THEN c.to ELSE NextPoint[pc]
  /\ UNCHANGED calls

Function_(c) ==
  /\ Command_(c, "function")
  /\ ram' = parse_function(ram, c.locals)
  /\ pc' = NextPoint[pc]
  /\ calls' = [calls EXCEPT ![Len(calls)].locals = c.locals,
                            ![Len(calls)].entering = FALSE]

CallFun(c) ==
  /\ Command_(c, "call")
  /\ ram' = parse_call(ram, c.args, RomAddr[NextPoint[pc]])
  /\ pc' = c.to
  /\ calls' = Append(calls, Record(ram, NextPoint[pc], c.args))

(* "goto RET" jumps to the address in R14, whatever it is. Of the points    *)
(* there the one a call resumes at comes first in the text: the others      *)
(* follow labels, which have no code. At an address that no point has, the  *)
(* jump is into the midst of some code, that is anywhere.                   *)
PointsAt(a) ==
  LET here    == {p \in Point : RomAddr[p] = a}
      resumes == here \cap ReturnPoint
  IN IF resumes # {} THEN resumes ELSE IF here # {} THEN here ELSE Point

Return(c) ==
  /\ Command_(c, "return")
  /\ ram' = parse_return(ram)
  /\ pc' \in PointsAt(ram'[tmp_ret_register])
  /\ calls' = SubSeq(calls, 1, Len(calls) - 1)

Step ==
  \E c \in Program[pc] :
    \/ Push(c) \/ Pop(c) \/ Arith(c) \/ Label(c) \/ Goto(c) \/ IfGoto(c)
    \/ Function_(c) \/ CallFun(c) \/ Return(c)

(* From the first fault on nothing is claimed, and nothing is followed.     *)
Undefined == fault /\ UNCHANGED vars

Next == (~fault /\ (Start \/ Step)) \/ Undefined

Spec == Init /\ [][Next]_vars

-----------------------------------------------------------------------------
(* The RAM holds words, and the history is of frames that calls have built. *)
CallRecord == [ret : ReturnPoint, lcl : Word, arg : Word, this : Word, that : Word,
               argBase : Int, base : Int, args : 0 .. MaxArgs,
               locals : 0 .. MaxLocals, entering : BOOLEAN]

TypeOK ==
  /\ ram \in [Address -> Word]
  /\ pc \in Point
  /\ calls \in Seq(CallRecord)
  /\ fault \in BOOLEAN

Running == pc # Boot /\ ~fault

(* The five words a call pushes (278-296 of vm_backend.c) are still there   *)
(* when the frame returns, whatever it and the functions it called did.     *)
SavedWordsIntact ==
  Running => \A k \in 1 .. Len(calls) :
    LET f == calls[k]
    IN /\ ram[f.base - 5] = RomAddr[f.ret]
       /\ ram[f.base - 4] = f.lcl
       /\ ram[f.base - 3] = f.arg
       /\ ram[f.base - 2] = f.this
       /\ ram[f.base - 1] = f.that

(* LCL and ARG are those of the running frame, its operand stack does not   *)
(* reach into its locals, and frames lie one above the other in the stack   *)
(* region, each beginning with the arguments its caller pushed.             *)
FramesNested ==
  Running =>
    /\ Len(calls) > 0
    /\ ram[LCL] = Top.base
    /\ ram[ARG] = Top.argBase
    /\ Top.base + Top.locals <= ram[SP]
    /\ ram[SP] <= StackTop
    /\ \A k \in 1 .. Len(calls) :
         /\ StackBase <= calls[k].argBase
         /\ calls[k].base = calls[k].argBase + calls[k].args + 5
         /\ k > 1 => /\ calls[k].lcl = calls[k - 1].base
                     /\ calls[k].arg = calls[k - 1].argBase
         /\ \A j \in 1 .. k - 1 : calls[j].base + calls[j].locals <= calls[k].argBase

(* A step of a function leaves every stack word below its arguments alone:  *)
(* the locals, operands and saved words of the functions that wait for it.  *)
CallerUntouched ==
  [][Running /\ ~fault' => \A a \in StackBase .. Top.argBase - 1 : ram'[a] = ram[a]]_vars

(* A return gives the caller its four pointers back, resumes it after the   *)
(* call, and leaves exactly the result where the arguments were.            *)
ReturnRestores ==
  [][Running /\ ~fault' /\ Len(calls') < Len(calls) =>
       /\ pc' = Top.ret
       /\ <<ram'[LCL], ram'[ARG], ram'[THIS], ram'[THAT]>>
            = <<Top.lcl, Top.arg, Top.this, Top.that>>
       /\ ram'[SP] = Top.argBase + 1
       /\ ram'[Top.argBase] = ram[ram[SP] - 1]]_vars

(* The code of every command does to the frames what the abstract machine   *)
(* says the command does.                                                   *)
ImplementsVM == VM!Spec
=============================================================================
