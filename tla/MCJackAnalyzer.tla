---------------------------- MODULE MCJackAnalyzer ----------------------------
(***************************************************************************)
(* A small instance of JackAnalyzer: classes with every rule of the        *)
(* grammar in every other, texts of one class in many layouts, and texts   *)
(* that break off after any token.                                         *)
(***************************************************************************)
EXTENDS JackAnalyzer

Spelled(tok) == IF tok.kind = "stringConstant" THEN <<Quote>> \o tok.chars \o <<Quote>>
                                               ELSE Written(tok).val

(* Layouts.  A gap is plain when this tokenizer knows it for one: a comment *)
(* is, if it begins with two stars or two slashes and, between two words,   *)
(* does not follow the first immediately; a comment of one star is not, nor *)
(* is a token after a comment on its line.                                 *)
Remark     == <<"/", "/", " ", Quote, "a", ";", "/", "*", "*", " ", "if", NewLine>>
Block_     == <<"/", "*", "*", " ", Quote, "a", "*", " ", "/", ";", NewLine, " ", "*", "*", "/", NewLine>>
PlainGaps  == {<<" ">>, <<NewLine, " ", NewLine>>, <<" ">> \o Remark, <<" ">> \o Block_,
               <<" ", "/", "*", "*", "/", " ", "a", NewLine>>}
Comments   == {Remark, Block_}
Star       == <<" ", "/", "*", " ", "a", " ", "*", "/", NewLine>>

Wordlike(tok) == tok.kind \in {"keyword", "identifier", "integerConstant"}
Least(toks, i) == IF i < Len(toks) /\ Wordlike(toks[i]) /\ toks[i + 1].kind # "symbol" THEN <<" ">> ELSE <<>>

TextOf(toks, Gap(_)) == FlattenSeq([i \in DOMAIN toks |-> Spelled(toks[i]) \o Gap(i)])
Tight(toks)          == TextOf(toks, LAMBDA i : Least(toks, i))

Source_(c, toks, t, p) == [class |-> c, tokens |-> toks, text |-> t, plain |-> p]
TightSource(c)         == Source_(c, ClassTokens(c), Tight(ClassTokens(c)), TRUE)
Known(toks, k, gap)    == gap \in PlainGaps \/ (gap \in Comments /\ Least(toks, k) = <<>> /\ toks[k].val # "/")
GapAt(c, k, gap)       ==
  LET toks == ClassTokens(c)
  IN Source_(c, toks, TextOf(toks, LAMBDA i : IF i = k THEN gap ELSE Least(toks, i)), Known(toks, k, gap))
GapEverywhere(c, gap)  == Source_(c, ClassTokens(c), TextOf(ClassTokens(c), LAMBDA i : gap), TRUE)
CutAfter(c, k)         == LET toks == SubSeq(ClassTokens(c), 1, k)
                          IN Source_(c, toks, Tight(toks) \o <<" ">>, TRUE)

(* Expressions: each term as the first, the second or the only one, with    *)
(* each in it.                                                             *)
Leaves == {Num(3), Var("x"), Word_("null"), Text(<<"Hi", " ", ";", "[", ",">>, {}), Text(<<"a", ")">>, {})}
Over(t) == {Unary_("-", t), Unary_("~", t), Paren(Just(t)), At("a", Just(t)), CallTo(<<"m">>, <<Just(t)>>),
            CallTo(<<"o", "n">>, <<Op(Num(1), "/", t), Just(t)>>)}
Inner  == UNION {Over(t) : t \in Leaves} \cup {CallTo(<<"m">>, <<>>), CallTo(<<"o", "n">>, <<>>)}
Deep   == UNION {Over(t) : t \in UNION {Over(u) : u \in {Var("x"), CallTo(<<"o", "n">>, <<>>)}}}
Tests  == {Just(t) : t \in Leaves \cup Inner \cup Deep}
            \cup {Op(t, op, Num(3)) : t \in {Var("x"), At("a", Just(Var("x")))}, op \in ops}
            \cup {Op2(t, "-", u, "&", t) : t \in Over(Var("x")), u \in Over(Num(3))}

Method(body) == Class("C", <<>>, <<Subroutine("method", "r", <<>>, <<>>, body)>>)
OfExpressions == {Method(<<LetVar("x", e)>>) : e \in Tests}
                   \cup {Method(<<Ret(<<Just(t)>>)>>) : t \in Leaves}

(* Statements in one another.                                              *)
Plains  == {LetVar("x", Just(Var("y"))), LetAt("a", Just(Var("x")), Op(Var("p"), "-", Var("x"))),
            DoCall(<<"m">>, <<Just(Var("x"))>>), DoCall(<<"o", "n">>, <<>>), Ret(<<>>), Ret(<<Just(Var("f"))>>)}
Bodies  == {<<>>} \cup {<<s>> : s \in Plains}
Around(b, d) == {IfElse(Just(Var("x")), b, d), While(Just(Var("x")), b)}
Nested  == UNION {Around(b, d) : b \in Bodies, d \in {<<>>, <<Ret(<<>>)>>}}
OfStatements ==
  {Method(<<s, u>>) : s \in Plains, u \in Plains}
    \cup {Method(<<s, Ret(<<>>)>>) : s \in Nested \cup UNION {Around(<<s>>, <<u>>) : s, u \in Nested}}

(* Declarations.                                                           *)
Vars    == {<<>>, <<Dec("var", "int", <<"x">>)>>, <<Dec("var", "C", <<"x", "y">>), Dec("var", "char", <<"u", "v", "w">>)>>}
Params  == {<<>>, <<Param("int", "p")>>, <<Param("int", "p"), Param("C", "q"), Param("C", "r")>>}
Members == {<<>>, <<Dec("static", "boolean", <<"f">>)>>,
            <<Dec("field", "int", <<"f", "g">>), Dec("static", "C", <<"h", "i", "j">>)>>}
Kinds   == {"constructor", "function", "method"}
Subs    == {Subroutine(prefix, "s", params, vs, body) :
              prefix \in Kinds, params \in Params, vs \in Vars, body \in {<<>>, <<Ret(<<>>)>>}}
OfDeclarations == {Class("C", decs, <<s>>) : decs \in Members, s \in Subs}
                    \cup {Class("C", decs, <<>>) : decs \in Members}
                    \cup {Class("C", <<>>, <<s, s>>) : s \in Subs}

Sample == Class("C", <<Dec("field", "int", <<"f">>)>>,
            <<Subroutine("method", "r", <<Param("int", "p")>>, <<Dec("var", "C", <<"a">>)>>,
                <<IfElse(Op(Var("p"), "<", Num(3)), <<DoCall(<<"a", "n">>, <<Just(Text(<<"Hi", " ", "you">>, {}))>>)>>,
                         <<LetAt("a", Just(Num(0)), Op(Var("f"), "/", Num(2)))>>),
                  Ret(<<Just(Text(<<" ">>, {}))>>)>>)>>)
Size   == Len(ClassTokens(Sample))

Texts ==
  {GapAt(Sample, k, gap) : k \in 1 .. Size, gap \in PlainGaps \cup Comments \cup {Star}}
    \cup {GapEverywhere(Sample, gap) : gap \in PlainGaps}
Cuts == {CutAfter(Sample, k) : k \in 1 .. Size - 1}

MCSources == {TightSource(c) : c \in OfExpressions \cup OfStatements \cup OfDeclarations} \cup Texts \cup Cuts
=============================================================================
