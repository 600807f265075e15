------------------------------ MODULE JackString ------------------------------
(***************************************************************************)
(* The String class of the Jack OS (nandtotetris/projects/12/StringTest).  *)
(* A string is its length and the memory its array lies in: array[j] is    *)
(* the word j words after the start of the block, inside it or not.        *)
(***************************************************************************)
EXTENDS JackMath

CONSTANT MaxLength       \* words of the block of a string

Margin == 8                                    \* bound: words kept around the block
Around == -Margin .. MaxLength + Margin
Inside == 0 .. MaxLength - 1
Other  == 7                                    \* what lies outside the block

NewString == [currentLength |-> 0, array |-> [j \in Around |-> IF j \in Inside THEN 0 ELSE Other]]

Minus     == 45
newLine   == 128
backSpace == 129
Digit(d)  == 48 + d

Chars(s) == [j \in 1 .. s.currentLength |-> s.array[j - 1]]

setCharAt(s, j, c) == [s EXCEPT !.array[j] = c]
Longer(s)          == [s EXCEPT !.currentLength = @ + 1]
appendChar(s, c)   == Longer(setCharAt(s, s.currentLength, c))

(* Mutant: the length stays.                                               *)
eraseLastChar_kept(s) == setCharAt(s, s.currentLength, 0)
eraseLastChar(s)      == [setCharAt(s, s.currentLength, 0) EXCEPT !.currentLength = @ - 1]

(* The weight of the first digit: ten for every digit in front of the last *)
(* character.                                                              *)
weight(front) ==
  LET base[n \in 0 .. Len(front)] ==
        IF n = 0 THEN 1
        ELSE IF front[n] = Minus THEN base[n - 1] ELSE multiply(10, base[n - 1])
  IN base[Len(front)]

(* The digits by their weights; a minus has none, wherever it stands.      *)
intValue(s) ==
  LET chars == Chars(s)
      front == SubSeq(chars, 1, Len(chars) - 1)
      read[n \in 0 .. Len(chars)] ==
        IF n = 0 THEN [sum |-> 0, base |-> weight(front)]
        ELSE LET l == read[n - 1]
                 c == chars[n]
             IN IF c = Minus THEN l
                ELSE [sum  |-> Add(l.sum, multiply(AsWord(c - 48), l.base)),
                      base |-> divide(l.base, 10)]
      sum == read[Len(chars)].sum
  IN IF Contains(front, Minus) THEN multiply(sum, Neg(1)) ELSE sum

lastDigit(val) == Sub(val, multiply(divide(val, 10), 10))

(* The values of the calls of intToString inside one another.              *)
Values(val) ==
  LET values[n \in 0 .. MaxDigits] ==
        IF n = 0 THEN <<val>>
        ELSE LET v == values[n - 1]
             IN IF Len(v) < n \/ Less(Last(v), 10) THEN v ELSE Append(v, divide(Last(v), 10))
  IN values[MaxDigits]

Built(s, values, start) ==
  LET built[n \in 0 .. Len(values) - 1] ==
        IF n = 0 THEN Longer(setCharAt(s, start, Digit(lastDigit(Last(values)))))
        ELSE appendChar(built[n - 1], Digit(lastDigit(values[Len(values) - n])))
  IN built[Len(values) - 1]

intToString(s, val, start) == Built(s, Values(val), start)

reset(s) == [s EXCEPT !.currentLength = 0]

setInt(s, val) ==
  IF Less(val, 0) THEN intToString(Longer(setCharAt(reset(s), 0, Minus)), abs(val), 1)
                  ELSE intToString(reset(s), val, 0)

-----------------------------------------------------------------------------
Kept(s)  == \A j \in Around \ Inside : s.array[j] = Other

(* Numbers as text.                                                        *)
Number(t) ==
  /\ t # <<>> /\ Last(t) # Minus
  /\ \A i \in DOMAIN t : t[i] \in Digit(0) .. Digit(9) \/ (t[i] = Minus /\ i = 1)
Positive_(t) == t[1] # Minus

ValueOf(t) ==
  LET magnitude[n \in 0 .. Len(t)] ==
        IF n = 0 THEN 0
        ELSE IF t[n] = Minus THEN magnitude[n - 1] ELSE 10 * magnitude[n - 1] + t[n] - 48
  IN IF Positive_(t) THEN magnitude[Len(t)] ELSE -magnitude[Len(t)]

(* t is the shortest text of z.                                            *)
IsTextOf(t, z) ==
  /\ Number(t) /\ ValueOf(t) = z
  /\ t[1] = Minus => z < 0
  /\ IF Positive_(t) THEN Len(t) > 1 => t[1] # Digit(0) ELSE t[2] # Digit(0)
=============================================================================
