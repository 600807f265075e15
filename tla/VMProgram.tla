----------------------------- MODULE VMProgram ------------------------------
(***************************************************************************)
(* Programs of the virtual machine, as nandtotetris/projects/08/           *)
(* vm_backend.c reads them: the commands its parser recognises, where they *)
(* stand in the program text and in ROM, and the memory map their code     *)
(* runs in.  A Program offers, at each point, a set of commands: a single  *)
(* one describes one program text, several describe all the texts that     *)
(* have one of them there, so that one run covers every command sequence.  *)
(***************************************************************************)
EXTENDS HackWord, Sequences

CONSTANTS
  Point,        \* places in the program text where a command can stand
  Boot,         \* the bootstrap the translator writes first
  SysInit,      \* the entry point of Sys.init
  Program,      \* Program[p]: the commands that may stand at p
  NextPoint,    \* the point the text falls through to
  RomAddr,      \* the ROM address of the code of a point
  Static,       \* the names File.i of the static variables
  StaticAddr,   \* the RAM address the assembler gives each of them
  StackBase,    \* first word of the stack, 256
  StackTop,     \* first word above the stack, where the heap begins
  MaxLocals,    \* bounds on the operands of function,
  MaxArgs,      \*   of call
  MaxIndex      \*   and of the segments and constants

(***************************************************************************)
(* Commands                                                                *)
(***************************************************************************)
Segment == {"local", "argument", "this", "that", "temp", "pointer"}
Unary   == {"neg", "not"}
Compare == {"eq", "lt", "gt"}
Binary  == {"add", "sub", "and", "or"} \cup Compare

PushPop == [op : {"push", "pop"}, seg : Segment, idx : 0 .. MaxIndex]
             \cup [op : {"push", "pop"}, seg : {"static"}, idx : Static]
             \cup [op : {"push"}, seg : {"constant"}, idx : 0 .. MaxIndex]
Arithmetic == [op : {"arithmetic"}, fn : Unary \cup Binary]
Jump       == [op : {"goto", "if-goto"}, to : Point \ {Boot}]
Function   == [op : {"function"}, locals : 0 .. MaxLocals]
Call       == [op : {"call"}, to : Point \ {Boot}, args : 0 .. MaxArgs]
Plain      == [op : {"label", "return"}]
Command    == PushPop \cup Arithmetic \cup Jump \cup Function \cup Call \cup Plain

(***************************************************************************)
(* Memory map: the registers by the names the assembler predefines, the    *)
(* translator's two scratch registers, and the fixed segments.             *)
(***************************************************************************)
SP   == 0
LCL  == 1
ARG  == 2
THIS == 3
THAT == 4

base_pointer == 3
base_temp    == 5
NTemp        == 8

tmp_register     == 13
tmp_ret_register == 14

HeapAddr == StackTop .. Half - 1

(* Where a call resumes. The code of a call stands right before its label   *)
(* (return-f-k), so no two of these places have one address; other places   *)
(* may, because a label, or a function without locals, has no code at all.  *)
ReturnPoint ==
  {NextPoint[p] : p \in {Boot} \cup {q \in Point : \E c \in Program[q] : c.op = "call"}}

ASSUME ProgramAssumption ==
  /\ Boot \in Point /\ SysInit \in Point \ {Boot}
  /\ Program \in [Point -> SUBSET Command]
  /\ NextPoint \in [Point -> Point \ {Boot}]
  /\ RomAddr \in [Point -> Address]
  /\ \A p, q \in ReturnPoint : RomAddr[p] = RomAddr[q] => p = q

ASSUME LayoutAssumption ==
  /\ StackBase \in Nat /\ StackTop \in Nat
  /\ 16 <= StackBase /\ StackBase + 5 <= StackTop /\ StackTop < Half
  /\ StaticAddr \in [Static -> 16 .. StackBase - 1]
  /\ \A v, w \in Static : StaticAddr[v] = StaticAddr[w] => v = w
  /\ MaxLocals \in Nat /\ MaxArgs \in Nat /\ MaxIndex \in Nat
  /\ MaxIndex < Half /\ MaxLocals < Half /\ MaxArgs + 5 < Half

(***************************************************************************)
(* What the language lets a command do, given the shape s of the running   *)
(* frame.  The translator checks none of it.                               *)
(***************************************************************************)
HasSegment(c, s) ==
  CASE c.seg = "constant" -> TRUE
    [] c.seg = "local"    -> c.idx < s.locals
    [] c.seg = "argument" -> c.idx < s.args
    [] c.seg = "this"     -> s.this + c.idx \in HeapAddr
    [] c.seg = "that"     -> s.that + c.idx \in HeapAddr
    [] c.seg = "temp"     -> c.idx < NTemp
    [] c.seg = "pointer"  -> c.idx < 2
    [] c.seg = "static"   -> TRUE

Room(s, n) == s.used + n <= StackTop - StackBase

Allowed(c, s) ==
  /\ s.entering <=> c.op = "function"
  /\ CASE c.op = "push"       -> HasSegment(c, s) /\ Room(s, 1)
       [] c.op = "pop"        -> HasSegment(c, s) /\ s.work >= 1
       [] c.op = "arithmetic" -> s.work >= (IF c.fn \in Unary THEN 1 ELSE 2)
       [] c.op = "if-goto"    -> s.work >= 1
       [] c.op = "function"   -> Room(s, c.locals)
       [] c.op = "call"       -> s.work >= c.args /\ Room(s, 5)
       [] c.op = "return"     -> s.work >= 1 /\ ~s.bottom
       [] OTHER               -> TRUE
=============================================================================
