------------------------------ MODULE JackSyntax ------------------------------
(***************************************************************************)
(* The syntax analyzer of nandtotetris/projects/10, CompilationEngine.c:   *)
(* it reads the lines of tokens and writes them again inside the tags of a *)
(* parse tree, by recursive descent with one line of lookahead (two for a  *)
(* term).  JackAnalyzer.c runs it after the tokenizer.                     *)
(*                                                                         *)
(* todo is the C call stack, innermost first: what every active function   *)
(* has still to do.  A rule replaces its item by its body: lines to copy   *)
(* (write_self), rules to call, loops, and the closing tag.                *)
(***************************************************************************)
EXTENDS JackTokenizer

VARIABLES
  at,                    \* the next line of the tokens
  todo,
  out,                   \* the lines of the tree
  exited                 \* exit(1): a read at the end of the tokens

engine == <<at, todo, out, exited>>

Open(tag)  == Line("open", <<tag>>)
Close(tag) == Line("close", <<tag>>)

Rule(name)   == [do |-> name]
write_self(k) == [do |-> "copy", lines |-> k]
Closing(tag) == [do |-> "close", tag |-> tag]

Now(do)   == Tokenized /\ todo # <<>> /\ Head(todo).do = do
This      == Head(todo)
Unread    == Len(tokens) - at + 1
Tok       == tokens[at]

(* strstr: a string constant may hold any text, so it is found there, too.  *)
Has(tok, t)        == Contains(tok.val, t)
HasOneOf(tok, ts)  == \E t \in ts : Has(tok, t)
IsKeyword(tok, t)  == tok.val = <<t>>           \* ">let</", say
Identifier(tok)    == tok.kind = "identifier" \/ Has(tok, "identifier")

ops == {"+", "-", "*", "/", "&", "|", "<", ">", "="}

(* The running function goes on with items, inside a new tag or not.       *)
Go(items) ==
  /\ todo' = items \o Tail(todo)
  /\ UNCHANGED <<at, out, exited>>
Nest(tag, items) ==
  /\ todo' = items \o <<Closing(tag)>> \o Tail(todo)
  /\ out' = Append(out, Open(tag))
  /\ UNCHANGED <<at, exited>>

(* A loop that looks at a line: as long as the line passes, its round, and  *)
(* then the loop again.                                                    *)
Loop(passes, round) == IF passes THEN Go(round \o <<This>>) ELSE Go(<<>>)

-----------------------------------------------------------------------------
(* Mutant: a line that was looked at is copied again.                      *)
copy_again ==
  /\ Now("copy") /\ This.lines <= Unread
  /\ out' = out \o SubSeq(tokens, at, at + This.lines - 1)
  /\ at' = at + This.lines - (IF This.lines = 4 THEN 1 ELSE 0)
  /\ todo' = Tail(todo)
  /\ UNCHANGED exited

copy ==
  /\ Now("copy") /\ This.lines <= Unread
  /\ out' = out \o SubSeq(tokens, at, at + This.lines - 1)
  /\ at' = at + This.lines
  /\ todo' = Tail(todo)
  /\ UNCHANGED exited

close ==
  /\ Now("close")
  /\ out' = Append(out, Close(This.tag))
  /\ todo' = Tail(todo)
  /\ UNCHANGED <<at, exited>>

(* The rules that look at the next line before anything else.              *)
Looking == {"members", "names", "parameterList", "parameters", "locals", "declared", "statement",
            "index", "result", "else", "term", "ops", "call", "arguments", "more"}

(* read_to at the end of the file ends the program, in whatever depth;      *)
(* what was left to copy is written first.                                 *)
read_to_end ==
  /\ Tokenized /\ todo # <<>>
  /\ IF This.do = "copy" THEN This.lines > Unread ELSE This.do \in Looking /\ Unread = 0
  /\ out' = out \o SubSeq(tokens, at, Len(tokens))
  /\ at' = Len(tokens) + 1
  /\ exited' = TRUE
  /\ todo' = <<>>

Looks(rule) == Now(rule) /\ Unread > 0

-----------------------------------------------------------------------------
(* Declarations                                                            *)

compile_class == Now("class") /\ Nest("class", <<write_self(3), Rule("members")>>)

(* A line that no member starts with is looked at for ever.                *)
members ==
  /\ Looks("members")
  /\ IF HasOneOf(Tok, {"static", "field"}) THEN Go(<<Rule("classVarDec"), This>>)
     ELSE IF HasOneOf(Tok, {"constructor", "function", "method"}) THEN Go(<<Rule("subroutineDec"), This>>)
     ELSE IF Has(Tok, "}") THEN Go(<<write_self(1)>>)
     ELSE UNCHANGED engine

compile_class_var_dec == Now("classVarDec") /\ Nest("classVarDec", <<write_self(3), Rule("names")>>)
names == Looks("names") /\ IF Has(Tok, ",") THEN Go(<<write_self(2), This>>) ELSE Go(<<write_self(1)>>)

compile_subroutine_dec ==
  /\ Now("subroutineDec")
  /\ Nest("subroutineDec", <<write_self(4), Rule("parameterList"), write_self(1), Rule("subroutineBody")>>)

(* Mutant: an empty list has no tags.                                      *)
parameter_list_bare ==
  /\ Looks("parameterList")
  /\ IF Has(Tok, ")") THEN Go(<<>>) ELSE Nest("parameterList", <<write_self(2), Rule("parameters")>>)

compile_parameter_list ==
  /\ Looks("parameterList")
  /\ Nest("parameterList", IF Has(Tok, ")") THEN <<>> ELSE <<write_self(2), Rule("parameters")>>)

parameters == Looks("parameters") /\ Loop(Has(Tok, ","), <<write_self(3)>>)

compile_subroutine_body ==
  /\ Now("subroutineBody")
  /\ Nest("subroutineBody", <<write_self(1), Rule("locals"), write_self(1)>>)

locals ==
  Looks("locals") /\ IF Has(Tok, "var") THEN Go(<<Rule("varDec"), This>>) ELSE Go(<<Rule("statements")>>)
compile_var_dec == Now("varDec") /\ Nest("varDec", <<write_self(1), Rule("declared")>>)
declared == Looks("declared") /\ IF Has(Tok, ";") THEN Go(<<write_self(1)>>) ELSE Go(<<write_self(1), This>>)

-----------------------------------------------------------------------------
(* Statements                                                              *)

compile_statements == Now("statements") /\ Nest("statements", <<Rule("statement")>>)
Statements == {"let", "return", "do", "if", "while"}
statement ==
  /\ Looks("statement")
  /\ \/ \E s \in Statements : IsKeyword(Tok, s) /\ Go(<<Rule(s), This>>)
     \/ (\A s \in Statements : ~IsKeyword(Tok, s)) /\ Go(<<>>)

compile_do_statement ==
  Now("do") /\ Nest("doStatement", <<write_self(1), Rule("call"), write_self(1)>>)

compile_return_statement ==
  Now("return") /\ Nest("returnStatement", <<write_self(1), Rule("result"), write_self(1)>>)
result == Looks("result") /\ Go(IF Has(Tok, ";") THEN <<>> ELSE <<Rule("expression")>>)

compile_let_statement ==
  /\ Now("let")
  /\ Nest("letStatement", <<write_self(2), Rule("index"), write_self(1), Rule("expression"), write_self(1)>>)
let_index ==
  Looks("index") /\ Go(IF Has(Tok, "[") THEN <<write_self(1), Rule("expression"), write_self(1)>> ELSE <<>>)

Block == <<write_self(1), Rule("statements"), write_self(1)>>

compile_while_statement ==
  Now("while") /\ Nest("whileStatement", <<write_self(2), Rule("expression"), write_self(1)>> \o Block)

compile_if_statement ==
  /\ Now("if")
  /\ Nest("ifStatement", <<write_self(2), Rule("expression"), write_self(1)>> \o Block \o <<Rule("else")>>)
else_branch == Looks("else") /\ Go(IF Has(Tok, "else") THEN <<write_self(1)>> \o Block ELSE <<>>)

-----------------------------------------------------------------------------
(* Expressions                                                             *)

compile_expression == Now("expression") /\ Nest("expression", <<Rule("term"), Rule("ops")>>)

(* Mutant: the operator is looked at and put back.                         *)
ops_back == Looks("ops") /\ Loop(HasOneOf(Tok, ops), <<>>)

compile_ops == Looks("ops") /\ Loop(HasOneOf(Tok, ops), <<write_self(1), Rule("term")>>)

compile_term ==
  /\ Looks("term")
  /\ Nest("term",
       IF Identifier(Tok)
       THEN IF Has(tokens[at + 1], "[") THEN <<write_self(2), Rule("expression"), write_self(1)>>
            ELSE IF HasOneOf(tokens[at + 1], {"(", "."}) THEN <<Rule("call")>>
            ELSE <<write_self(1)>>
       ELSE IF Has(Tok, "(") THEN <<write_self(1), Rule("expression"), write_self(1)>>
       ELSE IF HasOneOf(Tok, {"-", "~"}) THEN <<write_self(1), Rule("term")>>
       ELSE <<write_self(1)>>)

compile_subroutine_call ==
  /\ Looks("call")
  /\ Go(IF Has(Tok, "(") THEN <<write_self(1), Rule("arguments"), write_self(1)>> ELSE <<write_self(1), This>>)

compile_expression_list ==
  /\ Looks("arguments")
  /\ Nest("expressionList", IF Has(Tok, ")") THEN <<>> ELSE <<Rule("expression"), Rule("more")>>)
more == Looks("more") /\ Loop(Has(Tok, ","), <<write_self(1), Rule("expression")>>)

-----------------------------------------------------------------------------
CompilationEngine_constructor ==
  /\ \/ copy \/ close \/ read_to_end
     \/ compile_class \/ members \/ compile_class_var_dec \/ names
     \/ compile_subroutine_dec \/ compile_parameter_list \/ parameters
     \/ compile_subroutine_body \/ locals \/ compile_var_dec \/ declared
     \/ compile_statements \/ statement \/ compile_do_statement
     \/ compile_return_statement \/ result \/ compile_let_statement \/ let_index
     \/ compile_while_statement \/ compile_if_statement \/ else_branch
     \/ compile_expression \/ compile_ops \/ compile_term
     \/ compile_subroutine_call \/ compile_expression_list \/ more
  /\ UNCHANGED <<text, scanner>>

EngineInit == at = 1 /\ todo = <<Rule("class")>> /\ out = <<>> /\ exited = FALSE
=============================================================================
