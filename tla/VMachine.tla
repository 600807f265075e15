------------------------------ MODULE VMachine ------------------------------
(***************************************************************************)
(* The abstract virtual machine: what a translated program should do.      *)
(* Every running function has a frame of its own: its arguments, locals,   *)
(* operand stack and its own this and that.  No command can reach another  *)
(* frame: the separation is by construction here, and is what the pointer  *)
(* arithmetic of vm_backend.c has to earn.                                 *)
(*                                                                         *)
(* The machine promises nothing after a command that is not Allowed (an    *)
(* operand stack that underflows, a stack that overflows, a this or that   *)
(* outside the heap): fault is then set for good and the rest is arbitrary.*)
(***************************************************************************)
EXTENDS VMProgram

VARIABLES
  pc,        \* the point of the next command
  frames,    \* the running functions, the current one last
  statics,   \* the static variables
  temps,     \* the temp segment, shared by all functions
  heap,      \* the words this and that may point to
  fault      \* a command that is not Allowed was executed

vars == <<pc, frames, statics, temps, heap, fault>>

Top == frames[Len(frames)]

(* A frame: base is the number of stack words below its locals, ret the    *)
(* point its caller resumes at, entering holds from the call to the        *)
(* function command.                                                       *)
Frame(ret, base, args, this, that) ==
  [ret |-> ret, base |-> base, args |-> args, locals |-> <<>>, work |-> <<>>,
   this |-> this, that |-> that, entering |-> TRUE]

Shape ==
  [args     |-> Len(Top.args),
   locals   |-> Len(Top.locals),
   work     |-> Len(Top.work),
   used     |-> Top.base + Len(Top.locals) + Len(Top.work),
   this     |-> Top.this,
   that     |-> Top.that,
   entering |-> Top.entering,
   bottom   |-> Len(frames) = 1]

WithTop(f) == [frames EXCEPT ![Len(frames)] = f]
SetTop(f)  == frames' = WithTop(f)

Last(s, k)    == SubSeq(s, Len(s) - k + 1, Len(s))
Without(s, k) == SubSeq(s, 1, Len(s) - k)

-----------------------------------------------------------------------------

Read(c) ==
  CASE c.seg = "constant" -> c.idx
    [] c.seg = "local"    -> Top.locals[c.idx + 1]
    [] c.seg = "argument" -> Top.args[c.idx + 1]
    [] c.seg = "this"     -> heap[Top.this + c.idx]
    [] c.seg = "that"     -> heap[Top.that + c.idx]
    [] c.seg = "temp"     -> temps[c.idx]
    [] c.seg = "pointer"  -> IF c.idx = 0 THEN Top.this ELSE Top.that
    [] c.seg = "static"   -> statics[c.idx]

Push(c) ==
  /\ c.op = "push"
  /\ SetTop([Top EXCEPT !.work = Append(@, Read(c))])
  /\ UNCHANGED <<statics, temps, heap>>

Pop(c) ==
  LET v == Top.work[Len(Top.work)]
      f == [Top EXCEPT !.work = Without(@, 1)]
  IN /\ c.op = "pop"
     /\ CASE c.seg = "local"    -> SetTop([f EXCEPT !.locals[c.idx + 1] = v])
          [] c.seg = "argument" -> SetTop([f EXCEPT !.args[c.idx + 1] = v])
          [] c.seg = "pointer"  -> SetTop(IF c.idx = 0 THEN [f EXCEPT !.this = v]
                                                       ELSE [f EXCEPT !.that = v])
          [] OTHER              -> SetTop(f)
     /\ heap' = CASE c.seg = "this" -> [heap EXCEPT ![Top.this + c.idx] = v]
                  [] c.seg = "that" -> [heap EXCEPT ![Top.that + c.idx] = v]
                  [] OTHER          -> heap
     /\ temps' = IF c.seg = "temp" THEN [temps EXCEPT ![c.idx] = v] ELSE temps
     /\ statics' = IF c.seg = "static" THEN [statics EXCEPT ![c.idx] = v]
                                       ELSE statics

(* Comparison is of signed values, and is promised only when their         *)
(* difference fits in a word: beyond that either answer is allowed.        *)
Results(fn, x, y) ==
  LET TrueIf(b) == {IF b THEN 2 * Half - 1 ELSE 0}
      Fits == Signed(y) - Signed(x) \in -Half .. Half - 1
  IN CASE fn = "add" -> {Add(x, y)}
       [] fn = "sub" -> {Sub(x, y)}
       [] fn = "and" -> {And(x, y)}
       [] fn = "or"  -> {Or(x, y)}
       [] fn = "eq"  -> TrueIf(x = y)
       [] fn = "lt"  -> IF Fits THEN TrueIf(Signed(x) < Signed(y))
                                ELSE {0, 2 * Half - 1}
       [] fn = "gt"  -> IF Fits THEN TrueIf(Signed(x) > Signed(y))
                                ELSE {0, 2 * Half - 1}

Arith(c) ==
  LET y == Top.work[Len(Top.work)]
  IN /\ c.op = "arithmetic"
     /\ \/ /\ c.fn \in Unary
           /\ SetTop([Top EXCEPT !.work =
                        Append(Without(@, 1), IF c.fn = "neg" THEN Neg(y) ELSE Not(y))])
        \/ /\ c.fn \in Binary
           /\ \E r \in Results(c.fn, Top.work[Len(Top.work) - 1], y) :
                SetTop([Top EXCEPT !.work = Append(Without(@, 2), r)])
     /\ UNCHANGED <<statics, temps, heap>>

Label(c) ==
  /\ c.op = "label"
  /\ UNCHANGED <<frames, statics, temps, heap>>

Goto(c) ==
  /\ c.op = "goto"
  /\ UNCHANGED <<frames, statics, temps, heap>>

IfGoto(c) ==
  /\ c.op = "if-goto"
  /\ SetTop([Top EXCEPT !.work = Without(@, 1)])
  /\ UNCHANGED <<statics, temps, heap>>

Fun(c) ==
  /\ c.op = "function"
  /\ SetTop([Top EXCEPT !.locals = [i \in 1 .. c.locals |-> 0],
                        !.entering = FALSE])
  /\ UNCHANGED <<statics, temps, heap>>

CallFun(c) ==
  /\ c.op = "call"
  /\ frames' =
       Append(WithTop([Top EXCEPT !.work = Without(@, c.args)]),
              Frame(NextPoint[pc], Shape.used + 5, Last(Top.work, c.args),
                    Top.this, Top.that))
  /\ UNCHANGED <<statics, temps, heap>>

Return(c) ==
  LET v == Top.work[Len(Top.work)]
  IN /\ c.op = "return"
     /\ frames' = [Without(frames, 1) EXCEPT ![Len(frames) - 1].work = Append(@, v)]
     /\ UNCHANGED <<statics, temps, heap>>

Destination(c) ==
  CASE c.op \in {"goto", "call"} -> c.to
    [] c.op = "if-goto" -> IF Top.work[Len(Top.work)] # 0 THEN c.to ELSE NextPoint[pc]
    [] c.op = "return"  -> Top.ret
    [] OTHER            -> NextPoint[pc]

-----------------------------------------------------------------------------

Init ==
  /\ pc = Boot
  /\ frames = <<>>
  /\ statics \in [Static -> Word]
  /\ temps \in [0 .. NTemp - 1 -> Word]
  /\ heap \in [HeapAddr -> Word]
  /\ fault = FALSE

(* call Sys.init 0 on an empty stack.  this and that are whatever the      *)
(* registers held.                                                         *)
Start ==
  /\ pc = Boot
  /\ pc' = SysInit
  /\ \E this, that \in Word :
       frames' = <<Frame(NextPoint[Boot], 5, <<>>, this, that)>>
  /\ UNCHANGED <<statics, temps, heap, fault>>

Step ==
  /\ pc # Boot
  /\ \E c \in Program[pc] :
       \/ /\ Allowed(c, Shape)
          /\ \/ Push(c)   \/ Pop(c)    \/ Arith(c) \/ Label(c) \/ Goto(c)
             \/ IfGoto(c) \/ Fun(c)    \/ CallFun(c) \/ Return(c)
          /\ pc' = Destination(c)
          /\ UNCHANGED fault
       \/ /\ ~Allowed(c, Shape)
          /\ fault' = TRUE

Next ==
  \/ ~fault /\ (Start \/ Step)
  \/ fault /\ fault'

Spec == Init /\ [][Next]_vars
=============================================================================
