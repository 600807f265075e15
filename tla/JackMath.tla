------------------------------- MODULE JackMath -------------------------------
(***************************************************************************)
(* The Math class of the Jack OS (nandtotetris/projects/12/MathTest) on    *)
(* words of the Hack machine.  The operators are those of the language:    *)
(* * and / are Math.multiply and Math.divide, < and > what the translator  *)
(* makes of lt and gt.  A loop is the function from its rounds to its      *)
(* locals.                                                                 *)
(***************************************************************************)
EXTENDS Integers, Sequences, SequencesExt

CONSTANT Bits            \* of a word: 16, or fewer in a small instance

ASSUME BitsAssumption == Bits \in Nat /\ Bits >= 6 /\ Bits % 2 = 0

TwoTo[n \in Nat] == IF n = 0 THEN 1 ELSE 2 * TwoTo[n - 1]
HalfOfWords == TwoTo[Bits - 1]

LOCAL Unused(x, y) == 0
INSTANCE HackWord WITH Half <- HalfOfWords, And <- Unused, Or <- Unused

AsWord(z) == z % (2 * HalfOfWords)

(* The sign of the difference, which is a word: two numbers that are far    *)
(* enough apart compare the wrong way round.                               *)
Less(x, y)    == IsPositive(Sub(y, x))
Greater(x, y) == IsNegative(Sub(y, x))

HasBit(y, mask) == (y \div mask) % 2 = 1        \* y & mask, mask a power of two

(* A recursion that never ends has no value, nor has what is computed of    *)
(* it.                                                                     *)
Endless   == -1
MaxDepth  == Bits        \* bound: a divisor that was doubled so often is 0 and stays 0
MaxDigits == Bits \div 3 \* bound: of the digits after the first one of a word

abs(x) == IF Less(x, 0) THEN Neg(x) ELSE x

multiply(x, y) ==
  LET round[n \in 0 .. Bits] ==
        IF n = 0 THEN [mask |-> 1, shiftedX |-> x, result |-> 0]
        ELSE LET l == round[n - 1]
             IN [mask     |-> 2 * l.mask,
                 shiftedX |-> Add(l.shiftedX, l.shiftedX),
                 result   |-> IF HasBit(y, l.mask) THEN Add(l.result, l.shiftedX) ELSE l.result]
  IN IF Endless \in {x, y} THEN Endless ELSE round[Bits].result

(* Whether one more divisor goes into what twice q of them leave.          *)
odd(tmpX, q, tmpY) == ~Less(Sub(tmpX, multiply(multiply(2, q), tmpY)), tmpY)

Sign(x) == IF Less(x, 0) THEN Neg(1) ELSE 1

(* divide calls itself with the divisor doubled, until that is larger than  *)
(* the dividend: the arguments of the calls that wait for one another, and  *)
(* what they return, the last one first.                                   *)
IsLast(args) == Greater(abs(args[2]), abs(args[1]))

Calls(x, y) ==
  LET calls[n \in 0 .. MaxDepth] ==
        IF n = 0 THEN <<<<x, y>>>>
        ELSE LET s    == calls[n - 1]
                 args == Last(s)
             IN IF Len(s) < n \/ IsLast(args) THEN s ELSE Append(s, <<abs(args[1]), multiply(2, abs(args[2]))>>)
  IN calls[MaxDepth]

Returned(calls) ==
  LET returned[n \in 0 .. Len(calls) - 1] ==
        IF n = 0 THEN IF IsLast(Last(calls)) THEN 0 ELSE Endless
        ELSE LET q    == returned[n - 1]
                 args == calls[Len(calls) - n]
             IN IF q = Endless THEN Endless
                ELSE multiply(multiply(IF odd(abs(args[1]), q, abs(args[2])) THEN Add(multiply(2, q), 1)
                                                                            ELSE multiply(2, q),
                                       Sign(args[1])), Sign(args[2]))
  IN returned[Len(calls) - 1]

divide(x, y) == IF Endless \in {x, y} THEN Endless ELSE Returned(Calls(x, y))

(* Mutant: the root of a square is too large for it.                       *)
fits_strictly(square, absX) == Greater(square, 0) /\ Less(square, absX)
fits(square, absX) == Greater(square, 0) /\ (Less(square, absX) \/ square = absX)

(* Half as many rounds as a word has bits: 8, from base 128.               *)
sqrt(x) ==
  LET root[n \in 0 .. Bits \div 2] ==
        IF n = 0 THEN 0
        ELSE LET y == root[n - 1]
                 s == Add(y, TwoTo[Bits \div 2 - n])
             IN IF fits(multiply(s, s), abs(x)) THEN s ELSE y
  IN root[Bits \div 2]

max(a, b) == IF Greater(a, b) THEN a ELSE b
min(a, b) == IF Greater(a, b) THEN b ELSE a

-----------------------------------------------------------------------------
(* What they promise.  The divisor is doubled until it exceeds the dividend *)
(* and may overflow then, but must still exceed it as the absolute value of *)
(* a word.  The smallest word has no absolute value.                       *)
Magnitude(x) == IF Signed(x) < 0 THEN -Signed(x) ELSE Signed(x)

Divisible(x, y) ==
  /\ y # 0 /\ Magnitude(x) < HalfOfWords /\ Magnitude(y) < HalfOfWords
  /\ \A k \in 0 .. Bits : TwoTo[k] <= Magnitude(x) \div Magnitude(y)
                             => Magnitude(y) * TwoTo[k + 1] + Magnitude(x) < 2 * HalfOfWords

IntegerPart(x, y) ==
  LET q == Magnitude(x) \div Magnitude(y)
  IN AsWord(IF (Signed(x) < 0) = (Signed(y) < 0) THEN q ELSE -q)

IsRoot(r, x) == Magnitude(x) < HalfOfWords => r * r <= Magnitude(x) /\ Magnitude(x) < (r + 1) * (r + 1)
=============================================================================
