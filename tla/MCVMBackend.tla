---------------------------- MODULE MCVMBackend -----------------------------
(***************************************************************************)
(* Small instances of VMCode.  Two points of a body offer the same set of  *)
(* commands, so a run explores every sequence of them; the entry points    *)
(* sys and fun offer function commands.  A point whose commands may all    *)
(* have no code has the address of the one after it; no two places a call  *)
(* can return to have one address.                                         *)
(***************************************************************************)
EXTENDS VMCode, MCBits, TLC

(* The call at p2 is followed by a label, and so is the bootstrap; sys and   *)
(* the label begin where p1 does.                                          *)
MCPoint     == {"boot", "sys", "fun", "p1", "p2", "after"}
MCNextPoint == "boot" :> "after" @@ "sys" :> "p1" @@ "fun" :> "p1"
                 @@ "p1" :> "p2" @@ "p2" :> "after" @@ "after" :> "p1"
MCRomAddr   == "boot" :> 0 @@ "sys" :> 5 @@ "fun" :> 8 @@ "p1" :> 5 @@ "p2" :> 6
                 @@ "after" :> 5

(* The commands without frames come in two bodies, and the choice of one of *)
(* them is the first thing a program does.                                 *)
CommandPoint     == {"boot", "sys", "either", "a1", "a2", "s1", "s2"}
CommandNextPoint == "boot" :> "either" @@ "sys" :> "either" @@ "either" :> "a1"
                      @@ "a1" :> "a2" @@ "a2" :> "a1" @@ "s1" :> "s2" @@ "s2" :> "s1"
CommandRomAddr   == "boot" :> 0 @@ "sys" :> 4 @@ "either" :> 5 @@ "a1" :> 6 @@ "a2" :> 7
                      @@ "s1" :> 8 @@ "s2" :> 9

MCStaticAddr == "A.0" :> 16

PushOf(seg, idx) == [op |-> "push", seg |-> seg, idx |-> idx]
PopOf(seg, idx)  == [op |-> "pop", seg |-> seg, idx |-> idx]
FunctionOf(k)    == [op |-> "function", locals |-> k]
CallTo(f, n)     == [op |-> "call", to |-> f, args |-> n]
Simple(op)       == [op |-> op]

(* Calls with 0, 1 and 2 arguments of functions with 0 and 1 locals.       *)
FramesText ==
  [p \in MCPoint |->
     CASE p = "boot" -> {}
       [] p = "sys"  -> {FunctionOf(0)}
       [] p = "after" -> {Simple("label")}
       [] p = "fun"  -> {FunctionOf(0), FunctionOf(1)}
       [] OTHER      -> {PushOf("constant", 1), PushOf("argument", 0), PopOf("argument", 0),
                         PopOf("local", 0), PopOf("pointer", 0), Simple("return")}
                          \cup {CallTo("fun", n) : n \in 0 .. 2}]

(* Every arithmetic command, on operands whose sums and differences         *)
(* overflow, and both outcomes of if-goto.                                  *)
Arithmetics == {PushOf("constant", i) : i \in {1, 27}}
                 \cup {[op |-> "arithmetic", fn |-> f] : f \in Unary \cup Binary}
                 \cup {[op |-> "if-goto", to |-> "a1"]}

(* Every segment, read and written; 27 points into the heap.                *)
Segments == {PushOf("constant", 27), [op |-> "if-goto", to |-> "s1"],
             [op |-> "goto", to |-> "s2"], Simple("label")}
              \cup {[op |-> o, seg |-> sg, idx |-> 0] :
                      o \in {"push", "pop"}, sg \in {"local", "this", "temp"}}
              \cup {[op |-> o, seg |-> "that", idx |-> 1] : o \in {"push", "pop"}}
              \cup {[op |-> o, seg |-> "pointer", idx |-> i] : o \in {"push", "pop"}, i \in 0 .. 1}
              \cup {[op |-> o, seg |-> "static", idx |-> "A.0"] : o \in {"push", "pop"}}

(* Calls and returns have no room here: they end a program, and what they   *)
(* do is what counts.                                                      *)
Frames == {CallTo("sys", 1), Simple("return"), FunctionOf(0), FunctionOf(1)}

CommandText ==
  [p \in CommandPoint |->
     CASE p = "boot"   -> {}
       [] p = "sys"    -> {FunctionOf(1)}
       [] p = "either" -> {[op |-> "goto", to |-> q] : q \in {"a1", "s1"}}
       [] p \in {"a1", "a2"} -> Arithmetics
       [] p = "s1"     -> Segments \cup Frames
       [] OTHER        -> Segments]

(* What the RAM holds before: all zero, or left over from an earlier run.  *)
MCInitialRam == {[a \in Address |-> v] : v \in {0, 9}}
MCZeroRam    == {[a \in Address |-> 0]}

(* A and D before: a word that is no address, and one that is not zero.     *)
MCLeftover == {<<2 * Half - 1, 1>>}
=============================================================================
