---------------------------- MODULE JackCompiler ----------------------------
(***************************************************************************)
(* The compiler of nandtotetris/projects/11: CompilationEngine.c walks the *)
(* tokens of a class by recursive descent, SymbolTable.c resolves names,   *)
(* VMWriter.c writes the commands.                                         *)
(*                                                                         *)
(* todo is the C call stack, innermost first: what every active function   *)
(* has still to do.  A function that is called replaces its item by its    *)
(* body, so a step is a call, a table access, or a run of write_self and   *)
(* write_... calls (Put).  The parse tree written beside the code is left   *)
(* out.  Lines that would overlap in sprintf(function_name, "%s%s",        *)
(* function_name, ...) come out appended, as in a build without fortified  *)
(* string functions (the Makefile asks for none).                          *)
(***************************************************************************)
EXTENDS Integers, Sequences, SequencesExt

CONSTANT Sources       \* classes to compile; each has its tokens

(* A token: [kind, val, num, chars, marks]; chars are those of a string.    *)
ASSUME SourcesAssumption ==
  \A s \in Sources : \A i \in DOMAIN s.tokens : s.tokens[i].chars \in Seq(Nat)

VARIABLES
  source,              \* the class, as the tokenizer left it
  at,                  \* the next token
  todo,
  out,                 \* the commands written
  class_name,
  classTable, subroutineTable,
  index,               \* of the next variable of each kind
  if_label_index, while_label_index,
  failed               \* exit(2): a name that is in no table

tables == <<classTable, subroutineTable, index>>
labels == <<if_label_index, while_label_index>>
vars   == <<source, at, todo, out, class_name, tables, labels, failed>>

(* The compiler searches the line of a token for a text: it finds it in    *)
(* the token with that text, and in string constants that contain it.      *)
Has(tok, text)       == tok.val = text \/ text \in tok.marks
HasOneOf(tok, texts) == \E text \in texts : Has(tok, text)

Tok      == source.tokens[at]
Peek(k)  == source.tokens[at + k]

(* Commands                                                                *)
Push(seg, i)   == [op |-> "push", seg |-> seg, idx |-> i]
Pop(seg, i)    == [op |-> "pop", seg |-> seg, idx |-> i]
Do(fn)         == [op |-> "arithmetic", fn |-> fn]
Label(l)       == [op |-> "label", to |-> l]
Goto(l)        == [op |-> "goto", to |-> l]
If(l)          == [op |-> "if-goto", to |-> l]
Call(f, n)     == [op |-> "call", to |-> f, args |-> n]
Function(f, n) == [op |-> "function", to |-> f, locals |-> n]
Return         == [op |-> "return"]
stray          == [op |-> "stray"]     \* bytes in front of the next command

-----------------------------------------------------------------------------
(* Items of todo                                                           *)

Put(k, cmds)      == [do |-> "put", skip |-> k, cmds |-> cmds]
PushName(x)       == [do |-> "name", op |-> "push", name |-> x]
PopName(x)        == [do |-> "name", op |-> "pop", name |-> x]
Names(kind, type) == [do |-> "names", kind |-> kind, type |-> type]
Body(name, prefix, n) == [do |-> "body", name |-> name, prefix |-> prefix, count |-> n]
CallOf(name, parts, n) == [do |-> "call", name |-> name, parts |-> parts, args |-> n]
Arguments(name, n) == [do |-> "arguments", name |-> name, args |-> n]
Item(do)          == [do |-> do]

(* There is a token left: what is read behind the last is not modelled.      *)
Now(do) == todo # <<>> /\ at \in DOMAIN source.tokens /\ Head(todo).do = do
This    == Head(todo)

(* The running function goes on with items, and its caller after that.     *)
Continue(items) == todo' = items \o Tail(todo)

-----------------------------------------------------------------------------
(* SymbolTable.c                                                           *)

Place(table, x) == SelectInSeq(table, LAMBDA entry : entry.name = x)

exist_table(x) == Place(subroutineTable, x) # 0 \/ Place(classTable, x) # 0

Entry(x) == IF Place(subroutineTable, x) # 0 THEN subroutineTable[Place(subroutineTable, x)]
                                             ELSE classTable[Place(classTable, x)]

define(x, type, kind) ==
  LET entry == [name |-> x, type |-> type, kind |-> kind, index |-> index[kind]]
  IN /\ index' = [index EXCEPT ![kind] = @ + 1]
     /\ IF kind \in {"static", "field"}
        THEN classTable' = Append(classTable, entry) /\ UNCHANGED subroutineTable
        ELSE subroutineTable' = Append(subroutineTable, entry) /\ UNCHANGED classTable

(* Mutant: the local variables go on counting from the last subroutine.     *)
startSubroutine_args ==
  /\ index' = [index EXCEPT !["argument"] = 0]
  /\ subroutineTable' = <<>>

(* Mutant: the entries of the last subroutine stay.                        *)
startSubroutine_kept ==
  /\ index' = [index EXCEPT !["var"] = 0, !["argument"] = 0]
  /\ UNCHANGED subroutineTable

startSubroutine ==
  /\ index' = [index EXCEPT !["var"] = 0, !["argument"] = 0]
  /\ subroutineTable' = <<>>

SegmentOf(kind) == CASE kind = "var"      -> "local"
                     [] kind = "argument" -> "argument"
                     [] kind = "static"   -> "static"
                     [] kind = "field"    -> "this"

(* write_push_name and write_pop_name                                      *)
write_name ==
  /\ Now("name")
  /\ IF exist_table(This.name)
     THEN LET e == Entry(This.name)
          IN /\ out' = Append(out, [op |-> This.op, seg |-> SegmentOf(e.kind), idx |-> e.index])
             /\ Continue(<<>>) /\ UNCHANGED failed
     ELSE todo' = <<>> /\ failed' = TRUE /\ UNCHANGED out
  /\ UNCHANGED <<source, at, class_name, tables, labels>>

-----------------------------------------------------------------------------
(* VMWriter.c                                                              *)

(* The length given for "call Math.divide 2\n" is that of another text, so  *)
(* two more bytes go out with it.  Any other text is no operator, and has   *)
(* no code (the compiler exits).                                           *)
write_arithmetic(op) ==
  CASE op = "+" -> <<Do("add")>>
    [] op = "-" -> <<Do("sub")>>
    [] op = "=" -> <<Do("eq")>>
    [] op = ">" -> <<Do("gt")>>
    [] op = "<" -> <<Do("lt")>>
    [] op = "&" -> <<Do("and")>>
    [] op = "|" -> <<Do("or")>>
    [] op = "*" -> <<Call(<<"Math", ".", "multiply">>, 2)>>
    [] op = "/" -> <<Call(<<"Math", ".", "divide">>, 2), stray>>
    [] op = "neg" -> <<Do("neg")>>
    [] op = "~"   -> <<Do("not")>>
    [] OTHER      -> <<>>

ops == {"+", "-", "*", "/", "&", "|", "<", ">", "="}

write_string(chars) ==
  <<Push("constant", Len(chars)), Call(<<"String", ".", "new">>, 1)>>
    \o [i \in 1 .. 2 * Len(chars) |-> IF i % 2 = 1 THEN Push("constant", chars[(i + 1) \div 2])
                                      ELSE Call(<<"String", ".", "appendChar">>, 2)]

write_constructor == <<Push("constant", index["field"]),
                       Call(<<"Memory", ".", "alloc">>, 1), Pop("pointer", 0)>>

put ==
  /\ Now("put")
  /\ at' = at + This.skip
  /\ out' = out \o This.cmds
  /\ Continue(<<>>)
  /\ UNCHANGED <<source, class_name, tables, labels, failed>>

-----------------------------------------------------------------------------
(* CompilationEngine.c: declarations                                       *)

compile_class ==
  /\ Now("class")
  /\ class_name' = Peek(1).val
  /\ at' = at + 3
  /\ Continue(<<Item("members")>>)
  /\ UNCHANGED <<source, out, tables, labels, failed>>

members ==
  /\ Now("members")
  /\ \/ /\ HasOneOf(Tok, {"static", "field"})
        /\ Continue(<<Names(Tok.val, Peek(1).val), This>>)
        /\ at' = at + 2
     \/ /\ HasOneOf(Tok, {"constructor", "function", "method"})
        /\ Continue(<<Item("subroutine"), This>>)
        /\ UNCHANGED at
     \/ /\ Has(Tok, "}")
        /\ Continue(<<>>)
        /\ at' = at + 1
  /\ UNCHANGED <<source, out, class_name, tables, labels, failed>>

(* One name of a classVarDec, and the token after it.                      *)
compile_class_var_dec ==
  /\ Now("names") /\ This.kind \in {"static", "field"}
  /\ define(Tok.val, This.type, This.kind)
  /\ at' = at + 2
  /\ Continue(IF Has(Peek(1), ",") THEN <<This>> ELSE <<>>)
  /\ UNCHANGED <<source, out, class_name, labels, failed>>

compile_subroutine_dec ==
  /\ Now("subroutine")
  /\ startSubroutine /\ UNCHANGED classTable
  /\ LET prefix == Tok.val
         name   == Peek(2).val
     IN Continue((IF prefix = "method" THEN <<Item("this")>> ELSE <<>>)
                   \o (IF Has(Peek(4), ")") THEN <<>> ELSE <<Names("argument", "")>>)
                   \o <<Put(2, <<>>), Body(name, prefix, 0)>>)
  /\ at' = at + 4
  /\ UNCHANGED <<source, out, class_name, labels, failed>>

(* A method has its object as argument 0; its body defines it once more.   *)
define_this ==
  /\ Now("this")
  /\ define("this", class_name, "argument")
  /\ Continue(<<>>)
  /\ UNCHANGED <<source, at, out, class_name, labels, failed>>

compile_parameter_list ==
  /\ Now("names") /\ This.kind = "argument"
  /\ define(Peek(1).val, Tok.val, "argument")
  /\ \/ Has(Peek(2), ",") /\ at' = at + 3 /\ UNCHANGED todo
     \/ ~Has(Peek(2), ",") /\ at' = at + 2 /\ Continue(<<>>)
  /\ UNCHANGED <<source, out, class_name, labels, failed>>

(* One token of a varDec; the number of names goes to the body's count.    *)
compile_var_dec ==
  /\ Now("names") /\ This.kind = "var"
  /\ \/ /\ Has(Tok, ";")
        /\ Continue(<<>>) /\ UNCHANGED tables
     \/ /\ Has(Tok, ",")
        /\ UNCHANGED <<todo, tables>>
     \/ /\ ~HasOneOf(Tok, {",", ";"})
        /\ define(Tok.val, This.type, "var")
        /\ todo' = [todo EXCEPT ![2].count = @ + 1]
  /\ at' = at + 1
  /\ UNCHANGED <<source, out, class_name, labels, failed>>

compile_subroutine_body ==
  /\ Now("body")
  /\ \/ /\ Has(Tok, "var")
        /\ Continue(<<Names("var", Peek(1).val), This>>)
        /\ at' = at + 2
        /\ UNCHANGED out
     \/ /\ ~Has(Tok, "var")
        /\ out' = out \o <<Function(<<class_name, ".", This.name>>, This.count)>>
                      \o CASE This.prefix = "constructor" -> write_constructor
                           [] This.prefix = "method" -> <<Push("argument", 0), Pop("pointer", 0)>>
                           [] OTHER -> <<>>
        /\ Continue((IF This.prefix = "method" THEN <<Item("this")>> ELSE <<>>)
                      \o <<Item("statements"), Put(1, <<>>)>>)
        /\ UNCHANGED at
  /\ UNCHANGED <<source, class_name, tables, labels, failed>>

-----------------------------------------------------------------------------
(* CompilationEngine.c: statements                                         *)

Code(k, items) ==
  /\ at' = at + k
  /\ Continue(items)
  /\ UNCHANGED <<source, out, class_name, tables, failed>>

compile_let_statement ==
  /\ Has(Tok, "let")
  /\ LET x == Peek(1).val
     IN IF Has(Peek(2), "[")
        THEN Code(3, <<Item("expression"), Put(1, <<>>), PushName(x), Put(1, write_arithmetic("+")),
                       Item("expression"),
                       Put(1, <<Pop("temp", 1), Pop("pointer", 1), Push("temp", 1), Pop("that", 0)>>),
                       This>>)
        ELSE Code(3, <<Item("expression"), Put(1, <<>>), PopName(x), This>>)
  /\ UNCHANGED labels

compile_return_statement ==
  /\ Has(Tok, "return")
  /\ Code(1, <<IF Has(Peek(1), ";") THEN Put(0, <<Push("constant", 0)>>) ELSE Item("expression"),
               Put(1, <<Return>>), This>>)
  /\ UNCHANGED labels

compile_do_statement ==
  /\ Has(Tok, "do")
  /\ Code(1, <<CallOf(<<>>, 0, 0), Put(1, <<Pop("temp", 0)>>), This>>)
  /\ UNCHANGED labels

compile_while_statement ==
  LET start == <<"WIHLE_EXP", while_label_index>>
      end   == <<"WHILE_END", while_label_index>>
  IN /\ Has(Tok, "while")
     /\ Code(1, <<Put(1, <<Label(start)>>), Item("expression"),
                  Put(2, write_arithmetic("~") \o <<If(end)>>), Item("statements"),
                  Put(1, <<Goto(start), Label(end)>>), This>>)
     /\ while_label_index' = while_label_index + 1
     /\ UNCHANGED if_label_index

(* Mutant: the number is taken when the statement is done.                 *)
IfNumberedLate ==
  LET l(kind) == <<kind, if_label_index>>
  IN /\ Has(Tok, "if")
     /\ Code(2, <<Item("expression"),
                  Put(2, <<If(l("IF_TRUE")), Goto(l("IF_FALSE")), Label(l("IF_TRUE"))>>),
                  Item("statements"),
                  Put(1, <<Goto(l("IF_END")), Label(l("IF_FALSE"))>>), Item("else"),
                  Put(0, <<Label(l("IF_END"))>>), This>>)
     /\ UNCHANGED labels

compile_if_statement ==
  LET l(kind) == <<kind, if_label_index>>
  IN /\ Has(Tok, "if")
     /\ Code(2, <<Item("expression"),
                  Put(2, <<If(l("IF_TRUE")), Goto(l("IF_FALSE")), Label(l("IF_TRUE"))>>),
                  Item("statements"),
                  Put(1, <<Goto(l("IF_END")), Label(l("IF_FALSE"))>>), Item("else"),
                  Put(0, <<Label(l("IF_END"))>>), This>>)
     /\ if_label_index' = if_label_index + 1
     /\ UNCHANGED while_label_index

compile_else ==
  /\ Now("else")
  /\ IF Has(Tok, "else") THEN Code(2, <<Item("statements"), Put(1, <<>>)>>) ELSE Code(0, <<>>)
  /\ UNCHANGED labels

compile_statements ==
  /\ Now("statements")
  /\ \/ compile_let_statement \/ compile_return_statement \/ compile_do_statement
     \/ compile_if_statement \/ compile_while_statement
     \/ /\ ~HasOneOf(Tok, {"let", "return", "do", "if", "while"})
        /\ Code(0, <<>>) /\ UNCHANGED labels

-----------------------------------------------------------------------------
(* CompilationEngine.c: expressions                                        *)

compile_expression ==
  /\ Now("expression")
  /\ Code(0, <<Item("term"), Item("ops")>>)
  /\ UNCHANGED labels

(* Mutant: the operator is written before its second operand.              *)
compile_ops_early ==
  /\ Now("ops")
  /\ IF HasOneOf(Tok, ops) THEN Code(1, <<Put(0, write_arithmetic(Tok.val)), Item("term"), This>>)
                           ELSE Code(0, <<>>)
  /\ UNCHANGED labels

compile_ops ==
  /\ Now("ops")
  /\ IF HasOneOf(Tok, ops) THEN Code(1, <<Item("term"), Put(0, write_arithmetic(Tok.val)), This>>)
                           ELSE Code(0, <<>>)
  /\ UNCHANGED labels

constant(tok) ==
  CASE Has(tok, "true") -> <<Push("constant", 1), Do("neg")>>
    [] ~Has(tok, "true") /\ HasOneOf(tok, {"false", "null"}) -> <<Push("constant", 0)>>
    [] ~HasOneOf(tok, {"true", "false", "null"}) ->
         CASE tok.val = "this" -> <<Push("pointer", 0)>>
           [] tok.kind = "stringConstant" -> write_string(tok.chars)
           [] tok.kind # "stringConstant" -> <<Push("constant", tok.num)>>

Identifier_(tok) == tok.kind = "identifier" \/ "identifier" \in tok.marks

compile_term ==
  /\ Now("term")
  /\ \/ /\ Identifier_(Tok)
        /\ \/ /\ Has(Peek(1), "[")
              /\ Code(2, <<PushName(Tok.val), Item("expression"),
                           Put(1, write_arithmetic("+") \o <<Pop("pointer", 1), Push("that", 0)>>)>>)
           \/ /\ HasOneOf(Peek(1), {"(", "."})
              /\ Code(0, <<CallOf(<<>>, 0, 0)>>)
           \/ /\ ~HasOneOf(Peek(1), {"[", "(", "."})
              /\ Code(1, <<PushName(Tok.val)>>)
     \/ /\ ~Identifier_(Tok) /\ Has(Tok, "(")
        /\ Code(1, <<Item("expression"), Put(1, <<>>)>>)
     \/ /\ ~Identifier_(Tok) /\ ~Has(Tok, "(") /\ HasOneOf(Tok, {"-", "~"})
        /\ Code(1, <<Item("term"), Put(0, write_arithmetic(IF Has(Tok, "-") THEN "neg" ELSE "~"))>>)
     \/ /\ ~Identifier_(Tok) /\ ~HasOneOf(Tok, {"(", "-", "~"})
        /\ Code(0, <<Put(1, constant(Tok))>>)
  /\ UNCHANGED labels

(* One token of the name in front of the parenthesis.  A part that is a     *)
(* variable is an object: it is pushed, and stands for its type.           *)
compile_subroutine_call ==
  /\ Now("call")
  /\ \/ /\ ~Has(Tok, "(")
        /\ IF exist_table(Tok.val)
           THEN Code(1, <<PushName(Tok.val),
                          CallOf(Append(This.name, Entry(Tok.val).type), This.parts + 1, This.args + 1)>>)
           ELSE Code(1, <<CallOf(Append(This.name, Tok.val), This.parts + 1, This.args)>>)
     \/ /\ Has(Tok, "(")
        /\ LET own  == This.parts = 1
               name == IF own THEN <<class_name, "." >> \o This.name ELSE This.name
               n    == IF own THEN This.args + 1 ELSE This.args
           IN Code(1, (IF own THEN <<Put(0, <<Push("pointer", 0)>>)>> ELSE <<>>)
                        \o (IF Has(Peek(1), ")") THEN <<Put(0, <<Call(name, n)>>)>>
                            ELSE <<Item("expression"), Arguments(name, n + 1)>>)
                        \o <<Put(1, <<>>)>>)
  /\ UNCHANGED labels

compile_expression_list ==
  /\ Now("arguments")
  /\ IF Has(Tok, ",") THEN Code(1, <<Item("expression"), Arguments(This.name, This.args + 1)>>)
                      ELSE Code(0, <<Put(0, <<Call(This.name, This.args)>>)>>)
  /\ UNCHANGED labels

-----------------------------------------------------------------------------

Init ==
  /\ source \in Sources
  /\ at = 1 /\ out = <<>> /\ class_name = "" /\ failed = FALSE
  /\ todo = <<Item("class")>>
  /\ classTable = <<>> /\ subroutineTable = <<>>
  /\ index = [kind \in {"static", "field", "argument", "var"} |-> 0]
  /\ if_label_index = 0 /\ while_label_index = 0

Finished == todo = <<>> /\ UNCHANGED vars

Next ==
  \/ put \/ write_name
  \/ compile_class \/ members \/ compile_class_var_dec \/ compile_subroutine_dec \/ define_this
  \/ compile_parameter_list \/ compile_var_dec \/ compile_subroutine_body
  \/ compile_statements \/ compile_else
  \/ compile_expression \/ compile_ops \/ compile_term
  \/ compile_subroutine_call \/ compile_expression_list
  \/ Finished

Spec == Init /\ [][Next]_vars

-----------------------------------------------------------------------------
Done == todo = <<>> /\ ~failed

(* Every variable in its range; counts of declared variables are those of   *)
(* the tables.                                                             *)
TypeOK ==
  /\ index \in [{"static", "field", "argument", "var"} -> Nat]
  /\ index["static"] + index["field"] = Len(classTable)
  /\ index["argument"] + index["var"] = Len(subroutineTable)
  /\ if_label_index \in Nat /\ while_label_index \in Nat
  /\ failed \in BOOLEAN /\ (failed => todo = <<>>)

(* The commands of the function that command i is part of.                 *)
Start(i)      == CHOOSE k \in 1 .. i : /\ out[k].op = "function"
                                      /\ \A j \in k + 1 .. i : out[j].op # "function"
SameFunction(i, j) == Start(i) = Start(j)

(* A label is written once in the code of a class, and every jump of the    *)
(* finished code is to a label of its own function: the translator knows    *)
(* no scope of labels (parse_label of projects/08).                        *)
JumpsLand ==
  /\ \A i, j \in DOMAIN out :
       out[i].op = "label" /\ out[j].op = "label" /\ out[i].to = out[j].to => i = j
  /\ Done => \A i \in DOMAIN out : out[i].op \in {"goto", "if-goto"} =>
       \E j \in DOMAIN out : out[j] = Label(out[i].to) /\ SameFunction(i, j)

(* The tables hold as many entries as the indices given out say.           *)
(* The locals a function asks for are exactly those its code can name: the  *)
(* count taken from the declarations and the indices given out by the       *)
(* table are computed apart from each other.                               *)
LocalsCounted ==
  /\ TypeOK
  /\ \A i \in DOMAIN out :
       out[i].op \in {"push", "pop"} /\ out[i].seg = "local" => out[i].idx < out[Start(i)].locals
=============================================================================
