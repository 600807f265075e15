------------------------------ MODULE HackWord ------------------------------
(***************************************************************************)
(* The machine word of the Hack computer: what the ALU of projects/02 and  *)
(* the address lines of projects/05 compute with.  A word is kept as its   *)
(* unsigned value 0 .. 2*Half-1; Half is 2^15 in the hardware and stays a  *)
(* parameter, so that the small instances the model checker explores       *)
(* overflow as often as the theorems say they may.                         *)
(***************************************************************************)
EXTENDS Integers

CONSTANTS
  Half,        \* number of addresses; a word has twice as many values
  And(_, _),   \* bitwise conjunction of two words
  Or(_, _)     \* bitwise disjunction of two words

Word    == 0 .. 2 * Half - 1
Address == 0 .. Half - 1

(* The virtual machine needs the sixteen registers R0-R15.                  *)
ASSUME HalfAssumption == Half \in Nat /\ Half > 16
ASSUME BitwiseAssumption ==
  \A x, y \in Word :
    /\ And(x, y) \in Word /\ Or(x, y) \in Word
    /\ And(x, y) = And(y, x) /\ Or(x, y) = Or(y, x)

(* The carry out of bit 15 is dropped: one addition or subtraction of two  *)
(* words leaves the range by less than one modulus.                        *)
Wrap(x) == IF x < 0 THEN x + 2 * Half
           ELSE IF x >= 2 * Half THEN x - 2 * Half ELSE x

Add(x, y) == Wrap(x + y)
Sub(x, y) == Wrap(x - y)

(* Mutant: a negative number is left outside the range of words.            *)
NegNoWrap(x) == -x
Neg(x)       == Wrap(-x)

Not(x) == 2 * Half - 1 - x

(* The two flags of the ALU, which the jump bits test.                     *)
IsNegative(x) == x >= Half
IsPositive(x) == x # 0 /\ x < Half

(* The value a word stands for in two's complement.                        *)
Signed(x) == IF IsNegative(x) THEN x - 2 * Half ELSE x

(* addressM is A without its top bit.                                      *)
Addr(x) == IF x >= Half THEN x - Half ELSE x
=============================================================================
