----------------------------- MODULE JackMeaning -----------------------------
(***************************************************************************)
(* What a Jack class means, and whether the code JackCompiler writes for   *)
(* it means the same: classes as trees, their tokens, a direct evaluation  *)
(* of the trees, and an evaluation of the code.  Everything a subroutine   *)
(* calls is outside: a call has a result and leaves a trace, in which both *)
(* evaluations must agree.                                                 *)
(***************************************************************************)
EXTENDS JackTrees, JackCompiler, HackWord

CONSTANT Fuel         \* bound: rounds of loops an evaluation may take

(***************************************************************************)
(* The variables a subroutine uses, and those it may use                   *)
(***************************************************************************)
RECURSIVE UsedInTerm(_), UsedInBlock(_)
UsedIn(e) == UsedInTerm(e.t) \cup UNION {UsedInTerm(e.rest[i][2]) : i \in DOMAIN e.rest}
UsedInAll(es) == UNION {UsedIn(es[i]) : i \in DOMAIN es}

UsedInTerm(t) ==
  CASE t.k = "var"   -> {t.x}
    [] t.k = "at"    -> {t.x} \cup UsedIn(t.e)
    [] t.k = "unary" -> UsedInTerm(t.t)
    [] t.k = "paren" -> UsedIn(t.e)
    [] t.k = "call"  -> UsedInAll(t.es)
    [] OTHER         -> {}

UsedInStatement(s) ==
  CASE s.k = "let"    -> {s.x} \cup UsedIn(s.e)
    [] s.k = "letat"  -> {s.x} \cup UsedIn(s.i) \cup UsedIn(s.e)
    [] s.k \in {"do", "return"} -> UsedInAll(s.es)
    [] s.k = "if"     -> UsedIn(s.e) \cup UsedInBlock(s.s) \cup UsedInBlock(s.u)
    [] s.k = "while"  -> UsedIn(s.e) \cup UsedInBlock(s.s)
UsedInBlock(ss) == UNION {UsedInStatement(ss[i]) : i \in DOMAIN ss}

Declared(c, s) == UNION {Range(d.names) : d \in Range(c.decs \o s.params \o s.locals)}

(***************************************************************************)
(* The meaning of a subroutine.  An environment env has the variables, the *)
(* heap (an object's fields and arrays are words of it), the trace of      *)
(* calls, the rounds left, and done: the result, once there is one.        *)
(***************************************************************************)
True == 2 * Half - 1

Call_(env, f, args) ==
  [v   |-> (FoldLeft(Add, 0, args) + Len(env.trace) + 1) % (2 * Half),
   env |-> [env EXCEPT !.trace = Append(@, <<f, args>>)]]

Truth(b) == IF b THEN True ELSE 0

Operator(op, x, y) ==
  CASE op = "+" -> Add(x, y)
    [] op = "-" -> Sub(x, y)
    [] op = "&" -> And(x, y)
    [] op = "|" -> Or(x, y)
    [] op = "=" -> Truth(x = y)
    [] op = "<" -> Truth(Signed(x) < Signed(y))
    [] op = ">" -> Truth(Signed(x) > Signed(y))

Library == [op \in {"*", "/"} |-> <<"Math", ".", IF op = "*" THEN "multiply" ELSE "divide">>]

(* The declared variables: a name is that of a local or a parameter, else   *)
(* of a field or static of the class.                                      *)
NamesOf(decs, kind) == FlattenSeq([i \in DOMAIN decs |->
                                     IF decs[i].kind = kind THEN decs[i].names ELSE <<>>])
Position(xs, x) == CHOOSE i \in DOMAIN xs : xs[i] = x

Read(c, s, env, x) ==
  CASE Contains(NamesOf(s.locals, "var"), x) -> env.locals[Position(NamesOf(s.locals, "var"), x)]
    [] Contains(NamesOf(s.params, "argument"), x) -> env.params[Position(NamesOf(s.params, "argument"), x)]
    [] Contains(NamesOf(c.decs, "field"), x) ->
         env.heap[Addr(Add(env.this, Position(NamesOf(c.decs, "field"), x) - 1))]
    [] Contains(NamesOf(c.decs, "static"), x) -> env.statics[Position(NamesOf(c.decs, "static"), x)]

Write(c, s, env, x, v) ==
  CASE Contains(NamesOf(s.locals, "var"), x) ->
         [env EXCEPT !.locals[Position(NamesOf(s.locals, "var"), x)] = v]
    [] Contains(NamesOf(s.params, "argument"), x) ->
         [env EXCEPT !.params[Position(NamesOf(s.params, "argument"), x)] = v]
    [] Contains(NamesOf(c.decs, "field"), x) ->
         [env EXCEPT !.heap[Addr(Add(env.this, Position(NamesOf(c.decs, "field"), x) - 1))] = v]
    [] Contains(NamesOf(c.decs, "static"), x) ->
         [env EXCEPT !.statics[Position(NamesOf(c.decs, "static"), x)] = v]

(* The class of a variable that holds an object, or no class.              *)
TypesIn(decs, x) == {decs[i].type : i \in {j \in DOMAIN decs : Contains(decs[j].names, x)}}
Types(c, s, x) == IF TypesIn(s.locals \o s.params, x) # {} THEN TypesIn(s.locals \o s.params, x)
                                                            ELSE TypesIn(c.decs, x)
IsObject(c, s, x) == Types(c, s, x) # {}
TypeOf(c, s, x)   == CHOOSE type \in Types(c, s, x) : TRUE

RECURSIVE Term(_, _, _, _), Expr(_, _, _, _), Args(_, _, _, _, _), Exec(_, _, _, _)

Result(v, env) == [v |-> v, env |-> env]

(* Operands from left to right, without precedence.                        *)
Expr(c, s, env, e) ==
  FoldLeft(LAMBDA acc, p :
             LET r == Term(c, s, acc.env, p[2])
             IN IF p[1] \in {"*", "/"} THEN Call_(r.env, Library[p[1]], <<acc.v, r.v>>)
                ELSE Result(Operator(p[1], acc.v, r.v), r.env),
           Term(c, s, env, e.t), e.rest)

Args(c, s, env, first, es) ==
  FoldLeft(LAMBDA acc, e : LET r == Expr(c, s, acc.env, e)
                           IN [vs |-> Append(acc.vs, r.v), env |-> r.env],
           [vs |-> first, env |-> env], es)

(* f(...) is a method of this object, x.f(...) a method of the object x,    *)
(* and C.f(...) a function of the class C.                                 *)
Invoke(c, s, env, f, es) ==
  LET own   == Len(f) = 1
      obj   == ~own /\ IsObject(c, s, f[1])
      first == IF own THEN <<env.this>> ELSE IF obj THEN <<Read(c, s, env, f[1])>> ELSE <<>>
      class == IF own THEN c.name ELSE IF obj THEN TypeOf(c, s, f[1]) ELSE f[1]
      a     == Args(c, s, env, first, es)
  IN Call_(a.env, <<class, ".", f[Len(f)]>>, a.vs)

Term(c, s, env, t) ==
  CASE t.k = "num"   -> Result(t.n, env)
    [] t.k = "word"  -> Result(CASE t.w = "true" -> True
                                 [] t.w \in {"false", "null"} -> 0
                                 [] t.w = "this" -> env.this, env)
    [] t.k = "text"  -> FoldLeft(LAMBDA acc, ch : Call_(acc.env, <<"String", ".", "appendChar">>, <<acc.v, ch>>),
                                 Call_(env, <<"String", ".", "new">>, <<Len(t.chars)>>), t.chars)
    [] t.k = "var"   -> Result(Read(c, s, env, t.x), env)
    [] t.k = "at"    -> LET r == Expr(c, s, env, t.e)
                        IN Result(r.env.heap[Addr(Add(Read(c, s, r.env, t.x), r.v))], r.env)
    [] t.k = "unary" -> LET r == Term(c, s, env, t.t)
                        IN Result(IF t.op = "-" THEN Neg(r.v) ELSE Not(r.v), r.env)
    [] t.k = "paren" -> Expr(c, s, env, t.e)
    [] t.k = "call"  -> Invoke(c, s, env, t.f, t.es)

Statement(c, s, env, st) ==
  CASE st.k = "let"    -> LET r == Expr(c, s, env, st.e) IN Write(c, s, r.env, st.x, r.v)
    [] st.k = "letat"  -> LET i == Expr(c, s, env, st.i)
                              r == Expr(c, s, i.env, st.e)
                          IN [r.env EXCEPT !.heap[Addr(Add(Read(c, s, env, st.x), i.v))] = r.v]
    [] st.k = "do"     -> Invoke(c, s, env, st.f, st.es).env
    [] st.k = "return" -> IF st.es = <<>> THEN [env EXCEPT !.done = <<0>>]
                          ELSE LET r == Expr(c, s, env, st.es[1]) IN [r.env EXCEPT !.done = <<r.v>>]
    [] st.k = "if"     -> LET r == Expr(c, s, env, st.e)
                          IN Exec(c, s, r.env, IF r.v # 0 THEN st.s ELSE st.u)
    [] st.k = "while"  -> LET r == Expr(c, s, env, st.e)
                          IN IF r.v = 0 THEN r.env
                             ELSE IF r.env.fuel = 0 THEN [r.env EXCEPT !.done = <<0>>, !.fuel = -1]
                             ELSE Exec(c, s, [r.env EXCEPT !.fuel = @ - 1], st.s \o <<st>>)

Exec(c, s, env, sts) ==
  IF sts = <<>> \/ env.done # <<>> THEN env
  ELSE Exec(c, s, Statement(c, s, env, Head(sts)), Tail(sts))

(* A constructor makes its object first.                                   *)
Meaning(c, s, env) ==
  Exec(c, s, IF s.prefix = "constructor"
             THEN LET r == Call_(env, <<"Memory", ".", "alloc">>, <<Len(NamesOf(c.decs, "field"))>>)
                  IN [r.env EXCEPT !.this = r.v]
             ELSE env, s.body)

(***************************************************************************)
(* Running the code, on the machine the translator promises: an operand    *)
(* stack, and segments.  A machine that finds too few operands, or no such *)
(* word or label, is wrong.                                                *)
(***************************************************************************)
Wrong(m)  == [m EXCEPT !.state = "wrong"]
Down(m, k) == [m EXCEPT !.stack = SubSeq(@, 1, Len(@) - k)]
Up(m, v)   == [m EXCEPT !.stack = Append(@, v)]
TopOf(m, k) == m.stack[Len(m.stack) - k]

Fetch(m, cmd) ==
  CASE cmd.seg = "constant" -> cmd.idx
    [] cmd.seg = "local"    -> m.locals[cmd.idx + 1]
    [] cmd.seg = "argument" -> m.args[cmd.idx + 1]
    [] cmd.seg = "static"   -> m.statics[cmd.idx + 1]
    [] cmd.seg = "this"     -> m.heap[Addr(Add(m.pointer[1], cmd.idx))]
    [] cmd.seg = "that"     -> m.heap[Addr(Add(m.pointer[2], cmd.idx))]
    [] cmd.seg = "pointer"  -> m.pointer[cmd.idx + 1]
    [] cmd.seg = "temp"     -> m.temp[cmd.idx + 1]

Put_(m, cmd, v) ==
  CASE cmd.seg = "local"    -> [m EXCEPT !.locals[cmd.idx + 1] = v]
    [] cmd.seg = "argument" -> [m EXCEPT !.args[cmd.idx + 1] = v]
    [] cmd.seg = "static"   -> [m EXCEPT !.statics[cmd.idx + 1] = v]
    [] cmd.seg = "this"     -> [m EXCEPT !.heap[Addr(Add(m.pointer[1], cmd.idx))] = v]
    [] cmd.seg = "that"     -> [m EXCEPT !.heap[Addr(Add(m.pointer[2], cmd.idx))] = v]
    [] cmd.seg = "pointer"  -> [m EXCEPT !.pointer[cmd.idx + 1] = v]
    [] cmd.seg = "temp"     -> [m EXCEPT !.temp[cmd.idx + 1] = v]

Exists(m, cmd) ==
  CASE cmd.seg = "local"    -> cmd.idx < Len(m.locals)
    [] cmd.seg = "argument" -> cmd.idx < Len(m.args)
    [] cmd.seg = "static"   -> cmd.idx < Len(m.statics)
    [] OTHER                -> TRUE

Operation == [add |-> "+", sub |-> "-", and |-> "&", or |-> "|", eq |-> "=", lt |-> "<", gt |-> ">"]

Jump(m, code, l) ==
  IF m.fuel = 0 THEN Wrong(m)
  ELSE [m EXCEPT !.fuel = @ - 1, !.pc = CHOOSE i \in DOMAIN code : code[i] = Label(l)]

(* One command, when the machine has the operands it needs.                *)
Perform(m, code, cmd) ==
  CASE cmd.op = "push"       -> Up(m, Fetch(m, cmd))
    [] cmd.op = "pop"        -> Put_(Down(m, 1), cmd, TopOf(m, 0))
    [] cmd.op = "arithmetic" ->
         IF cmd.fn \in {"neg", "not"}
         THEN Up(Down(m, 1), IF cmd.fn = "neg" THEN Neg(TopOf(m, 0)) ELSE Not(TopOf(m, 0)))
         ELSE Up(Down(m, 2), Operator(Operation[cmd.fn], TopOf(m, 1), TopOf(m, 0)))
    [] cmd.op = "label"      -> m
    [] cmd.op = "goto"       -> Jump(m, code, cmd.to)
    [] cmd.op = "if-goto"    -> IF TopOf(m, 0) # 0 THEN Jump(Down(m, 1), code, cmd.to) ELSE Down(m, 1)
    [] cmd.op = "call"       ->
         LET r == Call_(m, cmd.to, SubSeq(m.stack, Len(m.stack) - cmd.args + 1, Len(m.stack)))
         IN Up(Down(r.env, cmd.args), r.v)
    [] cmd.op = "return"     -> [m EXCEPT !.state = "returned"]
    [] cmd.op = "stray"      -> [m EXCEPT !.pc = @ + 1]

Needs(cmd) ==
  CASE cmd.op \in {"pop", "if-goto"} -> 1
    [] cmd.op = "arithmetic" -> IF cmd.fn \in {"neg", "not"} THEN 1 ELSE 2
    [] cmd.op = "call"       -> cmd.args
    [] OTHER                 -> 0

Ready(m, cmd) ==
  /\ Len(m.stack) >= Needs(cmd)
  /\ cmd.op \in {"push", "pop"} => Exists(m, cmd)
  /\ cmd.op = "return" => Len(m.stack) = 1
  /\ cmd.op # "function"

RECURSIVE Run(_, _)
Run(m, code) ==
  IF m.state # "running" THEN m
  ELSE IF m.pc > Len(code) \/ ~Ready(m, code[m.pc]) THEN Wrong(m)
  ELSE LET next == Perform(m, code, code[m.pc])
       IN Run([next EXCEPT !.pc = @ + 1], code)

Machine(c, s, env, code) ==
  LET name  == <<c.name, ".", s.f>>
      entry == CHOOSE i \in DOMAIN code : code[i].op = "function" /\ code[i].to = name
  IN [stack |-> <<>>, heap |-> env.heap, statics |-> env.statics,
      locals |-> [i \in 1 .. code[entry].locals |-> 0],
      args |-> (IF s.prefix = "method" THEN <<env.this>> ELSE <<>>) \o env.params,
      pointer |-> <<0, 0>>, temp |-> <<0, 0>>, trace |-> <<>>, fuel |-> 4 * Fuel + 4,
      pc |-> entry + 1, state |-> "running"]

-----------------------------------------------------------------------------

(* What a subroutine may find when it is called: a value per parameter and *)
(* static, and an object on the heap.                                      *)
Env(c, s, v) ==
  [heap |-> [a \in Address |-> (a + v) % (2 * Half)], this |-> 20,
   statics |-> [i \in DOMAIN NamesOf(c.decs, "static") |-> v + i],
   params |-> [i \in DOMAIN s.params |-> (v + 3 * i) % (2 * Half)],
   locals |-> [i \in DOMAIN NamesOf(s.locals, "var") |-> 0],
   trace |-> <<>>, done |-> <<>>, fuel |-> Fuel]

Agree(env, m) ==
  env.fuel >= 0 =>
    /\ m.state = "returned"
    /\ env.done = m.stack
    /\ env.trace = m.trace /\ env.heap = m.heap /\ env.statics = m.statics

Preserved(c, s, v, code) ==
  Agree(Meaning(c, s, Env(c, s, v)), Run(Machine(c, s, Env(c, s, v), code), code))

(* The code of every subroutine of a class does what its text says: it      *)
(* returns the same result, leaves the same heap and statics, and calls     *)
(* the same subroutines with the same arguments in the same order.          *)
CompiledRight ==
  Done => \A i \in DOMAIN source.class.subs, v \in {0, Half} :
            Preserved(source.class, source.class.subs[i], v, out)

(* A class is given up exactly when one of its subroutines uses a variable  *)
(* that neither it nor its class declares: what other subroutines declare,  *)
(* before or after it, is not to be found.  Any other class is read to its  *)
(* last token.                                                             *)
GivesUpRightly ==
  todo = <<>> =>
    /\ failed <=> \E s \in Range(source.class.subs) :
                    ~(UsedInBlock(s.body) \subseteq Declared(source.class, s))
    /\ ~failed => at = Len(source.tokens) + 1
=============================================================================
