----------------------------- MODULE JackAnalyzer -----------------------------
(***************************************************************************)
(* JackAnalyzer.c of nandtotetris/projects/10: the tokenizer writes the    *)
(* tokens of a Jack file, then the compilation engine reads them and       *)
(* writes the parse tree.  A source is a class as a tree, the tokens that  *)
(* are left of it, one text they are written in, and whether the layout of *)
(* the text is one the tokenizer knows (plain).                            *)
(***************************************************************************)
EXTENDS JackSyntax, JackTrees

CONSTANT Sources       \* [class, tokens, text, plain]

VARIABLE source
vars == <<source, text, scanner, engine>>

Init ==
  /\ source \in Sources
  /\ text = source.text
  /\ TokenizerInit /\ EngineInit

Finished == todo = <<>> /\ UNCHANGED vars

Next ==
  \/ JackTokenizer_constructor /\ UNCHANGED <<source, engine>>
  \/ CompilationEngine_constructor /\ UNCHANGED source
  \/ Finished

Spec     == Init /\ [][Next]_vars
FairSpec == Spec /\ WF_vars(Next)

(***************************************************************************)
(* The parse tree of a class                                               *)
(***************************************************************************)
Written(tok) ==
  Line(tok.kind, CASE tok.kind = "stringConstant"  -> tok.chars
                   [] tok.kind = "integerConstant" -> <<ToString(tok.num)>>
                   [] OTHER                        -> <<tok.val>>)
Lines(toks) == [i \in DOMAIN toks |-> Written(toks[i])]

Element(tag, lines) == <<Open(tag)>> \o lines \o <<Close(tag)>>
Each(ss, Tree(_))   == FlattenSeq([i \in DOMAIN ss |-> Tree(ss[i])])
Commas(ss)          == FlattenSeq([i \in DOMAIN ss |-> IF i = 1 THEN ss[i] ELSE Lines(Sym(",")) \o ss[i]])
S(sym)              == Lines(Sym(sym))
K(word)             == Lines(Key(word))
Id(x)               == Lines(Name(x))

RECURSIVE TermTree(_), ExprTree(_), BlockTree(_)

CallTree(f, es) ==
  Id(f[1]) \o (IF Len(f) = 2 THEN S(".") \o Id(f[2]) ELSE <<>>)
    \o S("(") \o Element("expressionList", Commas([i \in DOMAIN es |-> ExprTree(es[i])])) \o S(")")

TermTree(t) ==
  Element("term",
    CASE t.k = "at"    -> Id(t.x) \o S("[") \o ExprTree(t.e) \o S("]")
      [] t.k = "unary" -> S(t.op) \o TermTree(t.t)
      [] t.k = "paren" -> S("(") \o ExprTree(t.e) \o S(")")
      [] t.k = "call"  -> CallTree(t.f, t.es)
      [] OTHER         -> Lines(TermTokens(t)))

ExprTree(e) ==
  Element("expression",
    TermTree(e.t) \o FlattenSeq([i \in DOMAIN e.rest |-> S(e.rest[i][1]) \o TermTree(e.rest[i][2])]))

InBraces(ss)  == S("{") \o BlockTree(ss) \o S("}")
InParens(e)   == S("(") \o ExprTree(e) \o S(")")

StatementTree(s) ==
  CASE s.k = "let"    -> Element("letStatement", K("let") \o Id(s.x) \o S("=") \o ExprTree(s.e) \o S(";"))
    [] s.k = "letat"  -> Element("letStatement", K("let") \o Id(s.x) \o S("[") \o ExprTree(s.i) \o S("]")
                                                   \o S("=") \o ExprTree(s.e) \o S(";"))
    [] s.k = "do"     -> Element("doStatement", K("do") \o CallTree(s.f, s.es) \o S(";"))
    [] s.k = "return" -> Element("returnStatement", K("return") \o Each(s.es, ExprTree) \o S(";"))
    [] s.k = "if"     -> Element("ifStatement", K("if") \o InParens(s.e) \o InBraces(s.s)
                                   \o IF s.u = <<>> THEN <<>> ELSE K("else") \o InBraces(s.u))
    [] s.k = "while"  -> Element("whileStatement", K("while") \o InParens(s.e) \o InBraces(s.s))
BlockTree(ss) == Element("statements", Each(ss, StatementTree))

ClassVarTree(d) == Element("classVarDec", Lines(DecTokens(d)))
VarTree(d)      == Element("varDec", Lines(DecTokens(d)))
SubroutineTree(s) ==
  Element("subroutineDec",
    K(s.prefix) \o Lines(Type("int")) \o Id(s.f) \o S("(")
      \o Element("parameterList", Commas([i \in DOMAIN s.params |->
                                            Lines(Type(s.params[i].type)) \o Id(s.params[i].names[1])])) \o S(")")
      \o Element("subroutineBody", S("{") \o Each(s.locals, VarTree) \o BlockTree(s.body) \o S("}")))
ClassTree(c) ==
  Element("class", K("class") \o Id(c.name) \o S("{") \o Each(c.decs, ClassVarTree)
                     \o Each(c.subs, SubroutineTree) \o S("}"))

-----------------------------------------------------------------------------
Done == todo = <<>> /\ ~exited

(* The tags that are open at the end of some lines, the innermost first.    *)
StillOpen(lines) ==
  FoldLeft(LAMBDA tags, l :
             CASE l.kind = "open"  -> l.val \o tags
               [] l.kind = "close" -> IF l.val = SubSeq(tags, 1, 1) THEN Tail(tags) ELSE <<"crossed">> \o tags
               [] OTHER            -> tags,
           <<>>, lines)

(* Only what was read is written, every line of it once.  Wherever the      *)
(* engine ends, on whatever text, every tag was closed where it was the     *)
(* innermost open one, and none is left open unless the tokens ran out.    *)
TypeOK ==
  /\ pos \in 1 .. Len(text) + 1
  /\ is_skip \in BOOLEAN /\ is_string \in BOOLEAN /\ exited \in BOOLEAN
  /\ at \in 1 .. Len(tokens) + 1
  /\ at > 1 => Tokenized
  /\ SelectSeq(out, LAMBDA l : l.kind \notin {"open", "close"}) = SubSeq(tokens, 1, at - 1)
  /\ todo = <<>> => "crossed" \notin ToSet(StillOpen(out)) /\ (StillOpen(out) = <<>> \/ exited)

(* However a text lays its tokens out, with blanks, line ends and comments  *)
(* of the forms the tokenizer knows: the lines it writes are those tokens.  *)
TokensRight == Tokenized /\ source.plain => tokens = Append(Lines(source.tokens), TokensEnd)

(* The engine searches the line of a token for a text, so a string constant *)
(* may be taken for what it holds where one of these is looked for.        *)
Clear(toks) ==
  \A i \in DOMAIN toks : toks[i].kind = "stringConstant" =>
    /\ \A t \in {"(", "-", "~", "identifier"} : ~Contains(toks[i].chars, t)
    /\ Contains(toks[i].chars, ")") => toks[i - 1].val # "("
    /\ Contains(toks[i].chars, ";") => toks[i - 1].val # "return"

Whole    == source.tokens = ClassTokens(source.class)
Readable == source.plain /\ Clear(source.tokens)

(* A tree that was finished is the tree of its class; that of a text which  *)
(* breaks off is never finished, wherever it does.                         *)
TreeRight == Done /\ Readable => Whole /\ out = ClassTree(source.class)

(* The text of a whole class is read to its end and its tree finished.     *)
TreeFinished == Whole /\ Readable => <>Done
=============================================================================
