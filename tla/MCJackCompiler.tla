--------------------------- MODULE MCJackCompiler ---------------------------
(***************************************************************************)
(* Small instances of JackCompiler: families of classes, each built from   *)
(* its own set of expressions or statements.                               *)
(***************************************************************************)
EXTENDS JackMeaning, MCBits

(* Expressions of up to two operators over these terms; what is written for *)
(* an operator does not depend on its operands.                            *)
Leaves == {Num(3), Var("x"), Var("p"), Var("f"), Var("g"), Word_("true"), Word_("this")}
Few    == {Num(3), Var("x"), Var("f")}
Inner  == {Unary_("-", t) : t \in Few} \cup {Unary_("~", t) : t \in Few}
            \cup {Paren(Op(Var("p"), "-", t)) : t \in Few}
            \cup {At("a", Just(t)) : t \in Few}
            \cup {At("a", Op(At("f", Just(Num(1))), "+", Var("p")))}
            \cup {CallTo(<<"m">>, <<>>), CallTo(<<"m">>, <<Just(Var("x"))>>),
                  CallTo(<<"o", "n">>, <<Op(Var("x"), "-", Num(1)), Just(CallTo(<<"m">>, <<>>))>>),
                  CallTo(<<"Lib", "h">>, <<Just(Unary_("-", Num(1))), Just(At("a", Just(Var("p"))))>>),
                  Text(<<72, 105>>, {}), CallTo(<<"Lib", "h">>, <<Just(Text(<<53, 59>>, {";"}))>>)}
Operators == {"+", "-", "*", "&", "|", "<", ">", "="}

Expressions ==
  {Just(t) : t \in Leaves \cup Inner}
    \cup {Op(t, "-", u) : t \in Leaves \cup Inner, u \in Few \cup Inner}
    \cup {Op(t, op, u) : t \in Few, op \in Operators, u \in Few}
    \cup {Op2(t, "-", u, op, w) : t \in Few, op \in {"-", "*"}, u \in Few, w \in Few}

Decs == <<Dec("static", "int", <<"g", "k">>), Dec("field", "int", <<"e", "f">>), Dec("field", "Obj", <<"o">>)>>
Locals == <<Dec("var", "Arr", <<"a">>), Dec("var", "int", <<"x", "y">>)>>
Params == <<Param("int", "p"), Param("int", "q")>>

Method(body) == Class("C", Decs, <<Subroutine("method", "r", Params, Locals, body)>>)

ExpressionSources ==
  {Source(Method(<<LetVar("x", Just(Num(5))), LetVar("a", Just(Num(9))), LetVar("x", e),
                   Ret(<<Just(Var("x"))>>)>>)) : e \in Expressions}

(* Statements, one in another in another: every statement alone, every pair *)
(* in a branch, and loops and branches in loops and branches.              *)
Plain   == {LetVar("x", Op(Var("x"), "+", Num(1))), LetAt("a", Just(Var("x")), Op(Var("p"), "-", Var("x"))),
            DoCall(<<"m">>, <<Just(Var("x"))>>), DoCall(<<"o", "n">>, <<>>),
            Ret(<<>>), Ret(<<Just(Var("f"))>>)}
Tests   == {Op(Var("x"), "<", Num(3)), Op(Var("p"), ">", Var("x"))}
Blocks1 == {<<>>} \cup {<<s>> : s \in Plain} \cup {<<LetVar("x", Op(Var("x"), "+", Num(1))), s>> : s \in Plain}
Nested1 == {IfElse(t, b, d) : t \in Tests, b \in Blocks1, d \in {<<>>} \cup {<<s>> : s \in Plain}}
             \cup {While(t, b) : t \in Tests, b \in Blocks1}
Count   == <<LetVar("x", Op(Var("x"), "+", Num(1)))>>
Inside  == {IfElse(t, <<DoCall(<<"o", "n">>, <<Just(Var("x"))>>)>>, d) : t \in Tests, d \in {<<>>, <<Ret(<<>>)>>}}
             \cup {While(t, Count) : t \in Tests}
Nested2 == {IfElse(t, <<u>>, d) : t \in Tests, u \in Inside, d \in {<<>>} \cup {<<w>> : w \in Inside}}
             \cup {While(t, <<u>> \o Count) : t \in Tests, u \in Inside}

StatementSources ==
  {Source(Method(<<LetVar("a", Just(Num(9))), s, DoCall(<<"m">>, <<Just(Var("x"))>>), Ret(<<Just(Var("x"))>>)>>)) :
     s \in Plain \cup Nested1 \cup Nested2}
    \cup {Source(Method(<<s, u, Ret(<<>>)>>)) : s \in Inside, u \in Inside}

(* Classes of two and three subroutines of each kind, whose parameters and  *)
(* locals have the names of one another's and of the class's variables.    *)
Kinds    == {"constructor", "method", "function"}
ParamLists  == {<<>>, <<Param("int", "u")>>, <<Param("int", "f"), Param("Obj", "g")>>}
LocalLists  == {<<>>, <<Dec("var", "int", <<"u">>)>>,
                <<Dec("var", "int", <<"v", "w">>), Dec("var", "Obj", <<"g">>)>>}
Bodies      == {<<LetVar("g", Op(Var("g"), "+", Num(1))), Ret(<<Just(Var("g"))>>)>>,
                <<LetVar("u", Op(Var("g"), "-", Num(2))), DoCall(<<"g", "n">>, <<Just(Var("u"))>>), Ret(<<>>)>>,
                <<IfElse(Op(Var("g"), "<", Num(0)), <<LetVar("v", Just(Num(1)))>>, <<LetVar("w", Just(Num(2)))>>),
                  While(Op(Var("w"), "<", Num(2)), <<LetVar("w", Op(Var("w"), "+", Num(1)))>>),
                  Ret(<<Just(Var("v"))>>)>>}
ClassDecs   == <<Dec("static", "Obj", <<"g">>), Dec("field", "int", <<"e", "f">>)>>
Headings    == {h \in ParamLists \X LocalLists :
                  Range(NamesOf(h[1], "argument")) \cap Range(NamesOf(h[2], "var")) = {}}
Subroutines(f) == {Subroutine(prefix, f, h[1], h[2], b) : prefix \in Kinds, h \in Headings, b \in Bodies}
Other       == Subroutine("method", "s", <<Param("int", "u")>>, <<Dec("var", "int", <<"v", "w">>)>>,
                 <<LetVar("v", Op(Var("u"), "+", Var("f"))), IfElse(Just(Var("v")), <<LetVar("f", Just(Var("w")))>>, <<>>),
                   Ret(<<>>)>>)
Final        == Subroutine("function", "t", <<>>, <<>>, <<While(Just(Num(0)), <<>>), Ret(<<Just(Var("g"))>>)>>)

Makers      == {Subroutine("constructor", "new", h[1], h[2],
                  <<LetVar("f", Just(Num(7))), DoCall(<<"s">>, <<Just(Var("f"))>>), Ret(<<Just(Word_("this"))>>)>>) :
                  h \in Headings}

ScopeSources ==
  {Source(Class("C", ClassDecs, <<s, Other>>)) : s \in Subroutines("r")}
    \cup {Source(Class("C", ClassDecs, <<Other, s, Final>>)) : s \in Subroutines("r")}
    \cup {Source(Class("C", ClassDecs, <<s, Other>>)) : s \in Makers}

ClassSources == ExpressionSources \cup StatementSources \cup ScopeSources

(* The last statements of the program that prints an average.              *)
AverageSources ==
  {Source(Class("Main", <<>>,
     <<Subroutine("function", "main", <<>>, <<Dec("var", "int", <<"length">>), Dec("var", "int", <<"i", "sum">>)>>,
        <<LetVar("length", Just(Num(3))), LetVar("sum", Just(Num(12))),
          DoCall(<<"Output", "printInt">>, <<Op(Var("sum"), "/", Var("length"))>>), Ret(<<>>)>>)>>))}

(* Average/Main.jack:8: "Inputs some numbers and computes their average":   *)
(* the program prints the quotient it computes.                            *)
AveragePrinted ==
  Done => LET c     == source.class
              s     == c.subs[1]
              trace == Run(Machine(c, s, Env(c, s, 0), out), out).trace
          IN \E i \in DOMAIN trace : trace[i][1] = <<"Output", ".", "printInt">>
=============================================================================
