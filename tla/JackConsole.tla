------------------------------ MODULE JackConsole ------------------------------
(***************************************************************************)
(* Keyboard and Output of the Jack OS (nandtotetris/projects/12), with a   *)
(* program that reads a number and a user who types: the keyboard is one   *)
(* word that changes while the program polls it.                           *)
(*                                                                         *)
(* A patient user holds a key until the program has seen it, and presses   *)
(* the next when it waits for one; another user does not look.  Screen is  *)
(* a class of empty functions here, so what is drawn is left out: a        *)
(* character that is printed moves the cursor.                             *)
(***************************************************************************)
EXTENDS JackString

CONSTANTS
  Sessions,              \* [plan, patient, start, operands]: the keys a user wants to
                         \* type, how, where the cursor is, and two words for Math
  Cols, Rows,            \* of the screen: 64 and 23
  Message,               \* length of the message of readInt
  Forever                \* the word readLine's loop tests: 1

(* A line of keys ends at its newline; it begins wherever the cursor is.    *)
Session == [plan     : Seq(Nat \ {0}),
            patient  : BOOLEAN,
            start    : (0 .. Cols - 1) \X (0 .. Rows - 1),
            operands : Word \X Word]

ASSUME ConsoleAssumption ==
  /\ Cols \in Nat \ {0} /\ Rows \in Nat \ {0}
  /\ Message \in Nat /\ MaxLength \in Nat /\ Forever \in Word
ASSUME SessionsAssumption ==
  \A s \in Sessions :
    /\ s \in Session
    /\ \A i \in DOMAIN s.plan : s.plan[i] = newLine <=> i = Len(s.plan)

VARIABLES
  session,
  pressed,               \* the number of keys pressed so far
  seen,                  \* history: the keys readChar took
  key,                   \* the keyboard's word: 0 when no key is down
  pc,                    \* "start"; "poll", "release": the loops of readChar; "done"
  char,                  \* the local key of readChar
  buffer,
  cursorX, cursorY

cursor  == <<cursorX, cursorY>>
vars    == <<session, pressed, seen, key, pc, char, buffer, cursor>>
plan    == session.plan
patient == session.patient

-----------------------------------------------------------------------------
(* Output.jack: a cursor is a pair of column and row.                      *)

(* Mutant: the last row is not the end.                                    *)
incrementCursor_down(c) == IF c[1] < Cols - 1 THEN <<c[1] + 1, c[2]>> ELSE <<0, c[2] + 1>>

incrementCursor(c) ==
  IF c[1] < Cols - 1 THEN <<c[1] + 1, c[2]>>
  ELSE IF c[2] < Rows - 1 THEN <<0, c[2] + 1>> ELSE <<0, 0>>

decreaseCursor(c) == IF c[1] = 0 THEN <<Cols - 1, c[2] - 1>> ELSE <<c[1] - 1, c[2]>>

printChar(c)    == incrementCursor(c)
Printed(c, n)   == LET at[k \in 0 .. n] == IF k = 0 THEN c ELSE printChar(at[k - 1]) IN at[n]
backSpace_(c)   == decreaseCursor(printChar(decreaseCursor(c)))

(* Mutant: the recursion ends one too early.                               *)
further_11(decimal) == Greater(decimal, 11)
further(decimal)    == Greater(decimal, 10)

(* The numbers of the calls of printInt inside one another: a decimal of    *)
(* ten is one digit, the one after 9.                                      *)
tens(i)  == abs(divide(i, 10))
digit(i) == Sub(abs(i), multiply(tens(i), 10))
sign(i)  == IF Less(i, 0) THEN <<Minus>> ELSE <<>>

Numbers(i) ==
  LET numbers[n \in 0 .. MaxDigits] ==
        IF n = 0 THEN <<i>>
        ELSE LET v == numbers[n - 1]
             IN IF Len(v) < n \/ ~further(tens(Last(v))) THEN v ELSE Append(v, abs(tens(Last(v))))
  IN numbers[MaxDigits]

PrintedFor(numbers) ==
  LET printed[n \in 0 .. Len(numbers) - 1] ==
        IF n = 0 THEN sign(Last(numbers)) \o <<Digit(tens(Last(numbers))), Digit(digit(Last(numbers)))>>
        ELSE LET v == numbers[Len(numbers) - n]
             IN sign(v) \o printed[n - 1] \o <<Digit(digit(v))>>
  IN printed[Len(numbers) - 1]

printInt(i) == PrintedFor(Numbers(i))

-----------------------------------------------------------------------------
(* The user                                                                *)

Press ==
  /\ pressed < Len(plan)
  /\ patient => pc = "poll" /\ key = 0
  /\ pressed' = pressed + 1
  /\ key' = plan[pressed + 1]
  /\ UNCHANGED <<session, seen, pc, char, buffer, cursor>>

Release ==
  /\ key # 0
  /\ patient => pc = "release"
  /\ key' = 0
  /\ UNCHANGED <<session, pressed, seen, pc, char, buffer, cursor>>

-----------------------------------------------------------------------------
(* Keyboard.jack                                                           *)

Init ==
  /\ session \in Sessions
  /\ pressed = 0 /\ seen = <<>> /\ key = 0 /\ pc = "start" /\ char = 0
  /\ buffer = NewString
  /\ cursorX = session.start[1] /\ cursorY = session.start[2]

CursorAt(c) == cursorX' = c[1] /\ cursorY' = c[2]

(* The code of a while negates its condition and leaves when that is not    *)
(* zero: a loop goes on as long as every bit of its condition is set.      *)
Loops == Not(Forever) = 0

(* readLine: the message, and the bar of the first readChar.               *)
readLine ==
  /\ pc = "start"
  /\ pc' = IF Loops THEN "poll" ELSE "done"
  /\ CursorAt(Printed(cursor, IF Loops THEN Message + 1 ELSE Message))
  /\ UNCHANGED <<session, pressed, seen, key, char, buffer>>

(* Mutant: only keys that can be printed are seen.                         *)
KeyDown_printable ==
  /\ pc = "poll" /\ key \in 1 .. 127
  /\ char' = key /\ seen' = Append(seen, key)
  /\ pc' = "release"
  /\ UNCHANGED <<session, pressed, key, buffer, cursor>>

(* readChar, first loop: a key is down.                                    *)
KeyDown ==
  /\ pc = "poll" /\ key # 0
  /\ char' = key /\ seen' = Append(seen, key)
  /\ pc' = "release"
  /\ UNCHANGED <<session, pressed, key, buffer, cursor>>

(* The echo takes the bar back, prints the key and a bar.                  *)
Echo == printChar(printChar(backSpace_(cursor)))

(* Mutant: the second loop ends while a key is down.                       *)
no_key_any == TRUE
no_key     == key = 0

(* readChar, second loop: no key is down, and what readLine does with the  *)
(* character.                                                              *)
KeyUp ==
  /\ pc = "release" /\ no_key
  /\ \/ /\ char = newLine
        /\ CursorAt(Echo)
        /\ pc' = "done"
        /\ UNCHANGED buffer
     \/ /\ char = backSpace
        /\ buffer' = eraseLastChar(buffer)
        /\ CursorAt(printChar(printChar(backSpace_(Echo))))
        /\ pc' = "poll"
     \/ /\ char \notin {newLine, backSpace}
        /\ buffer' = appendChar(buffer, char)
        /\ CursorAt(printChar(Echo))
        /\ pc' = "poll"
  /\ UNCHANGED <<session, pressed, seen, key, char>>

readInt == intValue(buffer)                    \* once the line is done

(* The rounds of the two loops that find nothing new.                      *)
Waits ==
  /\ (pc = "poll" /\ key = 0) \/ (pc = "release" /\ key # 0)
  /\ UNCHANGED vars

Finished == pc = "done" /\ UNCHANGED vars

Program == readLine \/ KeyDown \/ KeyUp
Next    == Press \/ Release \/ Program \/ Waits \/ Finished

(* The program never stops polling, and a user who wants to type types.    *)
Spec == Init /\ [][Next]_vars /\ WF_vars(Program) /\ WF_vars(Press) /\ WF_vars(Release)

-----------------------------------------------------------------------------
(* What a line of keys stands for.                                         *)
Apply(line, k) == IF k # backSpace THEN Append(line, k) ELSE IF line = <<>> THEN line ELSE Front(line)

Edited(keys, n) ==
  LET line[i \in 0 .. n] == IF i = 0 THEN <<>> ELSE Apply(line[i - 1], keys[i]) IN line[n]
EditedLine(keys) == Edited(keys, Len(keys))

(* Lines that fit the buffer: a backspace on a full or an empty line does   *)
(* not.                                                                    *)
Fits(keys) ==
  \A i \in DOMAIN keys :
    LET length == Len(Edited(keys, i - 1))
    IN IF keys[i] = backSpace THEN length \in 1 .. MaxLength - 1 ELSE length < MaxLength

(* The first digit's weight is a word that can be divided by ten.           *)
TenTo[n \in Nat] == IF n = 0 THEN 1 ELSE 10 * TenTo[n - 1]
Weighed(t) ==
  LET first == TenTo[Len(t) - (IF Positive_(t) THEN 1 ELSE 2)]
  IN first < HalfOfWords /\ Divisible(first, 10)

(* The keys whose handling is over, without the newline.                   *)
Handled == IF pc = "release" THEN Front(seen)
           ELSE IF pc = "done" THEN Front(seen) ELSE seen

IsSubsequence(s, t) ==
  \E at \in [DOMAIN s -> DOMAIN t] :
    /\ \A i, j \in DOMAIN s : i < j => at[i] < at[j]
    /\ \A i \in DOMAIN s : s[i] = t[at[i]]

TypeOK ==
  /\ pressed \in 0 .. Len(plan) /\ key \in {0} \cup Range(plan) /\ char \in {0} \cup Range(plan)
  /\ pc \in {"start", "poll", "release", "done"}
  /\ pc = "release" => char = Last(seen)

(* At the end of every key the cursor is on the screen, from wherever the   *)
(* line began and however it wraps around the last corner.                 *)
CursorAtRest == TypeOK /\ cursorX \in 0 .. Cols - 1 /\ cursorY \in 0 .. Rows - 1

(* The line is what the keys that were read make of it, corrections applied *)
(* (readLine: "Also handles user backspaces"), and lies in its own memory; *)
(* readInt returns the number that was typed and corrected.                *)
LineRead ==
  Fits(Handled) =>
    LET line == EditedLine(Handled)
    IN /\ Kept(buffer) /\ Chars(buffer) = line
       /\ pc = "done" /\ Number(line) /\ Weighed(line) => readInt = AsWord(ValueOf(line))

(* Whatever the user does, a key may get lost but none is read twice or in  *)
(* another order; of a patient user every key is read.                     *)
KeysRead ==
  /\ IF patient THEN IsPrefix(seen, SubSeq(plan, 1, pressed))
                ELSE IsSubsequence(seen, SubSeq(plan, 1, pressed))
  /\ patient /\ pc = "done" /\ Loops => seen = plan

(* readLine "reads from the keyboard the entered text until a newline       *)
(* character is detected".                                                 *)
ReadsToNewline == pc = "done" => seen # <<>> /\ Last(seen) = newLine

(* The line of a patient user comes to its end.                            *)
LineReturns == patient => <>(pc = "done")

-----------------------------------------------------------------------------
(* The functions of the session's operands, evaluated once.                *)
operandX == session.operands[1]
operandY == session.operands[2]
AtStart == pc = "start" /\ pressed = 0

(* multiply is the product of words; divide is the integer part, also where *)
(* its doubled divisor overflows, as long as that still exceeds the        *)
(* dividend; sqrt is the integer root, though half of its candidates       *)
(* overflow when squared.                                                  *)
MathRight ==
  AtStart =>
    /\ multiply(operandX, operandY) = AsWord(Signed(operandX) * Signed(operandY))
    /\ Divisible(operandX, operandY) => divide(operandX, operandY) = IntegerPart(operandX, operandY)
    /\ IsRoot(sqrt(operandX), operandX)

(* setInt writes the text of a number and intValue reads that back, for     *)
(* the numbers that ten divides without going wrong: those below three     *)
(* quarters of the largest, which are 24575 and less in the machine.  The  *)
(* others, as the -32767 of StringTest/Main.jack, become another text.     *)
(* What printInt prints is the text too, for a number of several digits    *)
(* that does not go on after a 10; of the others it prints something else. *)
DividedByTen(val)  == 4 * Magnitude(val) < 3 * HalfOfWords
GoesOnAfterTen(val) == \E n \in 1 .. MaxLength : Magnitude(val) \div TenTo[n] = 10
FitsString(val) == MaxLength > 0 /\ Magnitude(val) < TenTo[MaxLength - 1]

IsWritten(s, val) == Kept(s) /\ IsTextOf(Chars(s), Signed(val)) /\ intValue(s) = val

NumbersRoundTrip ==
  AtStart /\ DividedByTen(operandX) /\ FitsString(operandX) =>
    /\ IsWritten(setInt(NewString, operandX), operandX)
    /\ Magnitude(operandX) >= 10 /\ ~GoesOnAfterTen(operandX)
         => IsTextOf(printInt(operandX), Signed(operandX))
=============================================================================
