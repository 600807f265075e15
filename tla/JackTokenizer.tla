---------------------------- MODULE JackTokenizer ----------------------------
(***************************************************************************)
(* The tokenizer of nandtotetris/projects/10 (projects/11 has the same     *)
(* file): one pass over the characters of a Jack text, line by line, which *)
(* writes a line per token.                                                *)
(*                                                                         *)
(* A text is a sequence of symbols, quotes, digits, blanks, line ends and  *)
(* words.  A word stands for letters that lie together; two words next to  *)
(* each other are one longer word.  Lines fit the buffer of 1024.          *)
(***************************************************************************)
EXTENDS Integers, Sequences, SequencesExt

VARIABLES
  text,
  pos,                   \* the character the loop looks at
  is_skip, is_string,
  token,                 \* the characters of the token so far
  tokens                 \* the lines written after <tokens>

scanner == <<pos, is_skip, is_string, token, tokens>>

Quote    == "\""
NewLine  == "\n"
Blanks   == {" ", NewLine}
Digits   == {"0", "1", "2", "3", "4", "5", "6", "7", "8", "9"}
symbols  == {"{", "}", "(", ")", "[", "]", ".", ",", ";",
             "+", "-", "*", "/", "&", "|", "<", ">", "=", "~"}
keywords == {"class", "constructor", "function", "method", "field", "static", "var",
             "int", "char", "boolean", "void", "true", "false", "null", "this",
             "let", "do", "if", "else", "while", "return"}

-----------------------------------------------------------------------------

token_type(t) ==
  CASE t[1] \in symbols                      -> "symbol"
    [] Len(t) = 1 /\ t[1] \in keywords        -> "keyword"
    [] \A i \in DOMAIN t : t[i] \in Digits   -> "integerConstant"
    [] t[1] = Quote                          -> "stringConstant"
    [] OTHER                                 -> "identifier"

Line(kind, val) == [kind |-> kind, val |-> val]
TokensEnd       == Line("tokens", <<>>)

(* A string constant is written without its quotes; &lt; &gt; and &amp;     *)
(* stand for themselves here.                                              *)
parse_token(t) ==
  LET kind == token_type(t)
  IN Line(kind, IF kind = "stringConstant" THEN SubSeq(t, 2, Len(t) - 1) ELSE t)

Pending == IF token = <<>> THEN <<>> ELSE <<parse_token(token)>>

-----------------------------------------------------------------------------
Tokenized == tokens # <<>> /\ tokens[Len(tokens)] = TokensEnd
Scanning  == ~Tokenized /\ pos <= Len(text)
Char      == text[pos]
Here(s)   == pos + Len(s) - 1 <= Len(text) /\ SubSeq(text, pos, pos + Len(s) - 1) = s

(* The first character of the next line.                                   *)
NextLine ==
  LET ends == {i \in pos .. Len(text) : text[i] = NewLine}
  IN IF ends = {} THEN Len(text) + 1 ELSE 1 + CHOOSE i \in ends : \A j \in ends : i <= j

LineComment == Here(<<"/", "/">>)
Opening     == Here(<<"/", "*", "*">>)
Plain       == Scanning /\ ~LineComment /\ ~Opening /\ ~is_skip

(* Two slashes drop the rest of the line, wherever they stand.              *)
line_comment ==
  /\ Scanning /\ LineComment
  /\ pos' = NextLine
  /\ UNCHANGED <<is_skip, is_string, token, tokens>>

open_comment ==
  /\ Scanning /\ Opening
  /\ is_skip' = TRUE
  /\ pos' = pos + 1
  /\ UNCHANGED <<is_string, token, tokens>>

(* Mutant: a comment ends at its first star.                               *)
in_comment_star ==
  /\ Scanning /\ is_skip /\ ~LineComment /\ ~Opening
  /\ is_skip' = ~Here(<<"*">>)
  /\ pos' = IF Here(<<"*", "/">>) THEN NextLine ELSE pos + 1
  /\ UNCHANGED <<is_string, token, tokens>>

(* The end of a comment drops the rest of its line, too.                   *)
in_comment ==
  /\ Scanning /\ is_skip /\ ~LineComment /\ ~Opening
  /\ is_skip' = ~Here(<<"*", "/">>)
  /\ pos' = IF Here(<<"*", "/">>) THEN NextLine ELSE pos + 1
  /\ UNCHANGED <<is_string, token, tokens>>

symbol ==
  /\ Plain /\ ~is_string /\ Char \in symbols
  /\ tokens' = tokens \o Pending \o <<parse_token(<<Char>>)>>
  /\ token' = <<>>
  /\ pos' = pos + 1
  /\ UNCHANGED <<is_skip, is_string>>

blank ==
  /\ Plain /\ ~is_string /\ Char \in Blanks
  /\ tokens' = tokens \o Pending
  /\ token' = <<>>
  /\ pos' = pos + 1
  /\ UNCHANGED <<is_skip, is_string>>

(* A quote opens or closes a string, and is kept with it.                  *)
keep ==
  /\ Plain /\ (is_string \/ Char \notin symbols \cup Blanks)
  /\ token' = Append(token, Char)
  /\ is_string' = (is_string # (Char = Quote))
  /\ pos' = pos + 1
  /\ UNCHANGED <<is_skip, tokens>>

(* What is left in token is lost.                                          *)
end_of_text ==
  /\ ~Tokenized /\ pos > Len(text)
  /\ tokens' = Append(tokens, TokensEnd)
  /\ UNCHANGED <<pos, is_skip, is_string, token>>

JackTokenizer_constructor ==
  /\ \/ line_comment \/ open_comment \/ in_comment
     \/ symbol \/ blank \/ keep \/ end_of_text
  /\ UNCHANGED text

TokenizerInit == pos = 1 /\ is_skip = FALSE /\ is_string = FALSE /\ token = <<>> /\ tokens = <<>>
=============================================================================
