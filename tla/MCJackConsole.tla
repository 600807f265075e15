---------------------------- MODULE MCJackConsole -----------------------------
(***************************************************************************)
(* A small instance of JackConsole: every line of up to four keys, typed   *)
(* at every place of a small screen; lines that fill the buffer and are    *)
(* corrected; numbers of up to six digits, and words around the edges of a *)
(* machine word, with divisors of every size.                              *)
(***************************************************************************)
EXTENDS JackConsole

Keys    == {Digit(1), Digit(5), Minus, backSpace}
Corner  == <<Cols - 1, Rows - 1>>
NoWords == <<0, 1>>
LinesOver(keys, k) == {Append(t, newLine) : t \in SeqOf(keys, k)}
LinesOf(k) == LinesOver(Keys, k)

(* Numbers of as many digits as the largest words, and one more.            *)
FiveDigits == {<<3, 2, 7, 6, 7>>, <<3, 2, 7, 6, 8>>, <<9, 9, 9, 9, 9>>, <<1, 0, 0, 0, 0>>}
Numerals   == {[i \in DOMAIN d |-> Digit(d[i])] : d \in FiveDigits}
LongLines  == {Append(t, newLine) : t \in Numerals \cup {<<Minus>> \o t : t \in Numerals}
                                             \cup {Append(t, Digit(0)) : t \in Numerals}}

Typed(p, careful, c, words) == [plan |-> p, patient |-> careful, start |-> c, operands |-> words]

Magnitudes == {0, 1, 2, 3, 9, 10, 11, 99, 100, 105, 110, 181, 182, 1000, 1234, 9999, 10000, 10915,
               16383, 16384, 16385, 20479, 20480, 20481, 24575, 24576, 32123, 32766, 32767}
Words      == {AsWord(n) : n \in Magnitudes} \cup {AsWord(-n) : n \in Magnitudes \cup {32768}}
Divisors   == {0, 1, AsWord(-1), 2, 3, AsWord(-7), 10, 181, 1000, AsWord(-8191), 16384, 32767, 32768}

MCSessions ==
  {Typed(p, TRUE, c, NoWords) : p \in LinesOf(4), c \in {<<0, 0>>, Corner}}
    \cup {Typed(p, TRUE, c, NoWords) : p \in LinesOf(2), c \in (0 .. Cols - 1) \X (0 .. Rows - 1)}
    \cup {Typed(p, TRUE, <<0, 0>>, NoWords) : p \in LinesOver({Digit(1), backSpace}, 7) \cup LongLines}
    \cup {Typed(p, FALSE, <<0, 0>>, NoWords) : p \in LinesOf(3)}
    \cup {Typed(<<newLine>>, FALSE, Corner, <<v, w>>) : v \in Words, w \in Divisors}
=============================================================================
