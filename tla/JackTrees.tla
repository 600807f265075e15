------------------------------ MODULE JackTrees ------------------------------
(***************************************************************************)
(* Jack classes: their tokens, and classes as trees with the tokens that   *)
(* spell them.                                                             *)
(***************************************************************************)
EXTENDS Integers, Sequences, SequencesExt

(***************************************************************************)
(* Tokens.  The marks of a string constant are the texts it happens to     *)
(* contain that a compiler may search its line for.                        *)
(***************************************************************************)
Token(kind, val)         == [kind |-> kind, val |-> val, num |-> 0, chars |-> <<>>, marks |-> {}]
Integer(n)               == [Token("integerConstant", "") EXCEPT !.num = n]
StringConst(chars, mark) == [Token("stringConstant", "") EXCEPT !.chars = chars, !.marks = mark]

(***************************************************************************)
(* Classes as trees                                                        *)
(***************************************************************************)
Num(n)           == [k |-> "num", n |-> n]
Word_(w)         == [k |-> "word", w |-> w]              \* true, false, null, this
Text(chars, ms)  == [k |-> "text", chars |-> chars, marks |-> ms]
Var(x)           == [k |-> "var", x |-> x]
At(x, e)         == [k |-> "at", x |-> x, e |-> e]
Unary_(op, t)    == [k |-> "unary", op |-> op, t |-> t]
Paren(e)         == [k |-> "paren", e |-> e]
CallTo(f, es)    == [k |-> "call", f |-> f, es |-> es]   \* f has one or two parts

(* An expression is a first term and a sequence of operators with terms.   *)
Just(t)          == [t |-> t, rest |-> <<>>]
Op(t, op, u)     == [t |-> t, rest |-> <<<<op, u>>>>]
Op2(t, o, u, p, v) == [t |-> t, rest |-> <<<<o, u>>, <<p, v>>>>]

LetVar(x, e)     == [k |-> "let", x |-> x, e |-> e]
LetAt(x, i, e)   == [k |-> "letat", x |-> x, i |-> i, e |-> e]
DoCall(f, es)    == [k |-> "do", f |-> f, es |-> es]
Ret(es)          == [k |-> "return", es |-> es]          \* none or one expression
IfElse(e, s, u)  == [k |-> "if", e |-> e, s |-> s, u |-> u]
While(e, s)      == [k |-> "while", e |-> e, s |-> s]

Subroutine(prefix, f, params, locals, body) ==
  [prefix |-> prefix, f |-> f, params |-> params, locals |-> locals, body |-> body]
Class(name, decs, subs) == [name |-> name, decs |-> decs, subs |-> subs]
Dec(kind, type, names)  == [kind |-> kind, type |-> type, names |-> names]
Param(type, x)          == Dec("argument", type, <<x>>)

(***************************************************************************)
(* Their tokens                                                            *)
(***************************************************************************)
Sym(s)  == <<Token("symbol", s)>>
Key(s)  == <<Token("keyword", s)>>
Name(x) == <<Token("identifier", x)>>

(* Sequences of tokens, with commas between them.                          *)
Listed(ss) == FlattenSeq([i \in DOMAIN ss |-> IF i = 1 THEN ss[i] ELSE Sym(",") \o ss[i]])

RECURSIVE TermTokens(_), ExprTokens(_), BlockTokens(_)

CallTokens(f, es) ==
  Name(f[1]) \o (IF Len(f) = 2 THEN Sym(".") \o Name(f[2]) ELSE <<>>)
    \o Sym("(") \o Listed([i \in DOMAIN es |-> ExprTokens(es[i])]) \o Sym(")")

TermTokens(t) ==
  CASE t.k = "num"   -> <<Integer(t.n)>>
    [] t.k = "word"  -> Key(t.w)
    [] t.k = "text"  -> <<StringConst(t.chars, t.marks)>>
    [] t.k = "var"   -> Name(t.x)
    [] t.k = "at"    -> Name(t.x) \o Sym("[") \o ExprTokens(t.e) \o Sym("]")
    [] t.k = "unary" -> Sym(t.op) \o TermTokens(t.t)
    [] t.k = "paren" -> Sym("(") \o ExprTokens(t.e) \o Sym(")")
    [] t.k = "call"  -> CallTokens(t.f, t.es)

ExprTokens(e) ==
  TermTokens(e.t) \o FlattenSeq([i \in DOMAIN e.rest |-> Sym(e.rest[i][1]) \o TermTokens(e.rest[i][2])])

StatementTokens(s) ==
  CASE s.k = "let"    -> Key("let") \o Name(s.x) \o Sym("=") \o ExprTokens(s.e) \o Sym(";")
    [] s.k = "letat"  -> Key("let") \o Name(s.x) \o Sym("[") \o ExprTokens(s.i) \o Sym("]")
                           \o Sym("=") \o ExprTokens(s.e) \o Sym(";")
    [] s.k = "do"     -> Key("do") \o CallTokens(s.f, s.es) \o Sym(";")
    [] s.k = "return" -> Key("return") \o Listed([i \in DOMAIN s.es |-> ExprTokens(s.es[i])]) \o Sym(";")
    [] s.k = "if"     -> Key("if") \o Sym("(") \o ExprTokens(s.e) \o Sym(")")
                           \o Sym("{") \o BlockTokens(s.s) \o Sym("}")
                           \o IF s.u = <<>> THEN <<>>
                              ELSE Key("else") \o Sym("{") \o BlockTokens(s.u) \o Sym("}")
    [] s.k = "while"  -> Key("while") \o Sym("(") \o ExprTokens(s.e) \o Sym(")")
                           \o Sym("{") \o BlockTokens(s.s) \o Sym("}")

BlockTokens(ss) == FlattenSeq([i \in DOMAIN ss |-> StatementTokens(ss[i])])

Type(t) == IF t \in {"int", "char", "boolean", "void"} THEN Key(t) ELSE Name(t)
DecTokens(d) ==
  Key(d.kind) \o Type(d.type) \o Listed([i \in DOMAIN d.names |-> Name(d.names[i])]) \o Sym(";")

SubroutineTokens(s) ==
  Key(s.prefix) \o Type("int") \o Name(s.f) \o Sym("(")
    \o Listed([i \in DOMAIN s.params |-> Type(s.params[i].type) \o Name(s.params[i].names[1])])
    \o Sym(")") \o Sym("{") \o FlattenSeq([i \in DOMAIN s.locals |-> DecTokens(s.locals[i])])
    \o BlockTokens(s.body) \o Sym("}")

ClassTokens(c) ==
  Key("class") \o Name(c.name) \o Sym("{")
    \o FlattenSeq([i \in DOMAIN c.decs |-> DecTokens(c.decs[i])])
    \o FlattenSeq([i \in DOMAIN c.subs |-> SubroutineTokens(c.subs[i])]) \o Sym("}")

Source(c) == [class |-> c, tokens |-> ClassTokens(c)]
=============================================================================
