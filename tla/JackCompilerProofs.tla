------------------------- MODULE JackCompilerProofs -------------------------
(***************************************************************************)
(* What the compiler promises for every sequence of tokens, grammatical or *)
(* not: no label is written twice, every jump lands in its own function,   *)
(* and a function has as many locals as its code names.                    *)
(***************************************************************************)
EXTENDS JackCompiler, SequenceTheorems, WellFoundedInduction, TLAPS

Sequence(s) == s \in Seq(Range(s))
Kinds       == {"static", "field", "argument", "var"}

(* Commands that are no label, no jump and no function, and no access to a  *)
(* local variable: all a rule writes but for names, branches and loops.    *)
PlainOps == {"push", "pop", "arithmetic", "call", "return", "stray"}
PlainCmd(c) == c.op \in PlainOps /\ (c.op \in {"push", "pop"} => c.seg # "local")
Plain(cmds) == Sequence(cmds) /\ \A m \in 1 .. Len(cmds) : PlainCmd(cmds[m])

(* Commands that wait to be written.                                        *)
WaitOps == PlainOps \cup {"label", "goto", "if-goto"}
WaitCmd(c) == c.op \in WaitOps /\ (c.op \in {"push", "pop"} => c.seg # "local")

(* The items a function has left while its statements are compiled.         *)
CodeItems == {"put", "name", "statements", "else", "expression", "ops", "term", "call",
              "arguments", "this"}
InCode(x) ==
  /\ x.do \in CodeItems
  /\ x.do = "put" => Sequence(x.cmds) /\ \A m \in 1 .. Len(x.cmds) : WaitCmd(x.cmds[m])
  /\ x.do = "name" => x.op \in {"push", "pop"}

(* The items in front of the body of a subroutine.                          *)
InHead(x) ==
  /\ x.do \in {"this", "names", "put"}
  /\ x.do = "put" => x.cmds = <<>>
  /\ x.do = "names" => x.kind \in {"argument", "var"}

-----------------------------------------------------------------------------
(* The function a command is in.                                            *)
LastFunction(o, i, k) ==
  k \in 1 .. i /\ o[k].op = "function" /\ \A j \in k + 1 .. i : o[j].op # "function"
StartIn(o, i) == CHOOSE k \in 1 .. i : o[k].op = "function" /\ \A j \in k + 1 .. i : o[j].op # "function"

-----------------------------------------------------------------------------
Depth == Len(todo)

(* Between the members of a class, in front of a body, and in a body.       *)
MembersOf(t) == Len(t) = 1 \/ (Len(t) = 2 /\ t[1].do \in {"names", "subroutine"})
HeadOf(t, locals) ==
  /\ Len(t) >= 2
  /\ t[Len(t) - 1].do = "body"
  /\ t[Len(t) - 1] = Body(t[Len(t) - 1].name, t[Len(t) - 1].prefix, locals)
  /\ \A k \in 1 .. Len(t) - 2 : InHead(t[k])
  /\ \A k \in 1 .. Len(t) - 2 : t[k].do = "names" /\ t[k].kind = "var" => Len(t) = 3

AtMembers == MembersOf(todo)
AtHead    == HeadOf(todo, index["var"])
AtCode ==
  /\ Depth >= 1 /\ out # <<>> /\ \A k \in 1 .. Depth - 1 : InCode(todo[k])
  /\ out[StartIn(out, Len(out))].locals = index["var"]

Layout ==
  \/ todo = <<>>
  \/ todo = <<Item("class")>>
  \/ Depth >= 1 /\ todo[Depth] = Item("members") /\ (AtMembers \/ AtHead \/ AtCode)

Typed ==
  /\ source \in Sources /\ Sequence(todo) /\ Sequence(out)
  /\ out # <<>> => out[1].op = "function"
  /\ if_label_index \in Nat /\ while_label_index \in Nat
  /\ failed \in BOOLEAN /\ (failed => todo = <<>>)

Tabled ==
  /\ Sequence(classTable) /\ Sequence(subroutineTable)
  /\ index \in [Kinds -> Nat]
  /\ index["static"] + index["field"] = Len(classTable)
  /\ index["argument"] + index["var"] = Len(subroutineTable)
  /\ \A i \in 1 .. Len(classTable) : classTable[i].kind \in {"static", "field"}
  /\ \A i \in 1 .. Len(subroutineTable) :
       /\ subroutineTable[i].kind \in {"argument", "var"}
       /\ subroutineTable[i].index \in Nat
       /\ subroutineTable[i].kind = "var" => subroutineTable[i].index < index["var"]

IsLocal(c) == c.op \in {"push", "pop"} /\ c.seg = "local"
LocalsHeld(o) == \A i \in 1 .. Len(o) : IsLocal(o[i]) => o[i].idx < o[StartIn(o, i)].locals

-----------------------------------------------------------------------------
(* The m-th command of the k-th item of t, while it waits.                  *)
Waits(t, k, m) == k \in 1 .. Len(t) /\ t[k].do = "put" /\ m \in 1 .. Len(t[k].cmds)
Cmd(t, k, m)   == t[k].cmds[m]
IsLabel(c)     == c.op = "label"
IsJump(c)      == c.op \in {"goto", "if-goto"}

(* A label has a number that was given out, of f ifs and w whiles.          *)
Numbered(l, f, w) ==
  \/ l[1] \in {"IF_TRUE", "IF_FALSE", "IF_END"} /\ l[2] \in Nat /\ l[2] < f
  \/ l[1] \in {"WIHLE_EXP", "WHILE_END"} /\ l[2] \in Nat /\ l[2] < w

(* No label is twice among the commands o and those that wait in t.         *)
LabelsApart(o, t, f, w) ==
  /\ \A i \in 1 .. Len(o) : IsLabel(o[i]) => Numbered(o[i].to, f, w)
  /\ \A k, m \in Nat : Waits(t, k, m) /\ IsLabel(Cmd(t, k, m)) => Numbered(Cmd(t, k, m).to, f, w)
  /\ \A i, j \in 1 .. Len(o) : IsLabel(o[i]) /\ IsLabel(o[j]) /\ o[i].to = o[j].to => i = j
  /\ \A i \in 1 .. Len(o), k, m \in Nat :
       Waits(t, k, m) /\ IsLabel(o[i]) /\ IsLabel(Cmd(t, k, m)) => o[i].to # Cmd(t, k, m).to
  /\ \A k, m, l, n \in Nat :
       Waits(t, k, m) /\ Waits(t, l, n) /\ IsLabel(Cmd(t, k, m)) /\ IsLabel(Cmd(t, l, n))
       /\ Cmd(t, k, m).to = Cmd(t, l, n).to => k = l /\ m = n

(* A label that is written in the function of command i, or waits.          *)
Written(o, l, i) == \E j \in 1 .. Len(o) : o[j] = Label(l) /\ StartIn(o, j) = StartIn(o, i)
Waiting(t, l)    == \E k, m \in Nat : Waits(t, k, m) /\ Cmd(t, k, m) = Label(l)

(* The label of every jump is written in its function, or will be.          *)
JumpsKept(o, t) ==
  /\ \A i \in 1 .. Len(o) : IsJump(o[i]) =>
       Written(o, o[i].to, i) \/ (Waiting(t, o[i].to) /\ StartIn(o, i) = StartIn(o, Len(o)))
  /\ \A k, m \in Nat : Waits(t, k, m) /\ IsJump(Cmd(t, k, m)) =>
       Written(o, Cmd(t, k, m).to, Len(o)) \/ Waiting(t, Cmd(t, k, m).to)

IInv ==
  /\ Typed /\ Tabled /\ Layout /\ LocalsHeld(out)
  /\ LabelsApart(out, todo, if_label_index, while_label_index)
  /\ failed \/ JumpsKept(out, todo)

-----------------------------------------------------------------------------
(* Sequences, whatever they are of                                          *)
LEMMA SequenceOf ==
  ASSUME NEW S, NEW s \in Seq(S)
  PROVE  Sequence(s)
<1>1. Len(s) \in Nat /\ DOMAIN s = 1 .. Len(s) /\ s \in [1 .. Len(s) -> S]
  BY LenProperties
<1>2. s \in [1 .. Len(s) -> Range(s)]
  BY <1>1 DEF Range
<1>3. \A n \in Nat : [1 .. n -> Range(s)] \subseteq Seq(Range(s))
  OBVIOUS
<1> QED
  BY <1>1, <1>2, <1>3 DEF Sequence

LEMMA SequenceFacts ==
  ASSUME NEW s, Sequence(s)
  PROVE  Len(s) \in Nat /\ DOMAIN s = 1 .. Len(s) /\ (s = <<>> <=> Len(s) = 0)
BY LenProperties, EmptySeq DEF Sequence

LEMMA ConcatFacts ==
  ASSUME NEW s, NEW t, Sequence(s), Sequence(t)
  PROVE  /\ Sequence(s \o t) /\ Len(s \o t) = Len(s) + Len(t)
         /\ \A k \in 1 .. Len(s) : (s \o t)[k] = s[k]
         /\ \A k \in Len(s) + 1 .. Len(s) + Len(t) : (s \o t)[k] = t[k - Len(s)]
<1> DEFINE S == Range(s) \cup Range(t)
<1>1. s \in Seq(S) /\ t \in Seq(S)
  BY DEF Sequence
<1> HIDE DEF S
<1>2. /\ s \o t \in Seq(S) /\ Len(s \o t) = Len(s) + Len(t) /\ Len(s) \in Nat /\ Len(t) \in Nat
      /\ \A i \in 1 .. Len(s) + Len(t) : (s \o t)[i] = IF i <= Len(s) THEN s[i] ELSE t[i - Len(s)]
  BY <1>1, ConcatProperties
<1>3. ASSUME NEW k \in 1 .. Len(s) PROVE (s \o t)[k] = s[k]
  BY <1>2
<1>4. ASSUME NEW k \in Len(s) + 1 .. Len(s) + Len(t) PROVE (s \o t)[k] = t[k - Len(s)]
  <2>1. k \in 1 .. Len(s) + Len(t) /\ ~(k <= Len(s))
    BY <1>2
  <2> QED
    BY <1>2, <2>1
<1> QED
  BY <1>2, <1>3, <1>4, SequenceOf

(* t is s with items in the place of its first.                             *)
Replaced(s, items, t) ==
  /\ Sequence(t) /\ Len(t) = Len(items) + Len(s) - 1
  /\ \A k \in 1 .. Len(items) : t[k] = items[k]
  /\ \A k \in Len(items) + 1 .. Len(t) : t[k] = s[k + 1 - Len(items)]
  /\ \A k \in 2 .. Len(s) : t[k - 1 + Len(items)] = s[k]
  /\ Head(s) = s[1] /\ Len(s) \in Nat \ {0} /\ Len(items) \in Nat

LEMMA Continued ==
  ASSUME NEW s, Sequence(s), s # <<>>, NEW items, Sequence(items), NEW t, t = items \o Tail(s)
  PROVE  Replaced(s, items, t)
<1>1. Len(s) \in Nat \ {0} /\ s \in Seq(Range(s)) /\ Len(items) \in Nat
  BY SequenceFacts DEF Sequence
<1>2. /\ Tail(s) \in Seq(Range(s)) /\ Len(Tail(s)) = Len(s) - 1 /\ Head(s) = s[1]
      /\ \A k \in 1 .. Len(s) - 1 : Tail(s)[k] = s[k + 1]
  BY <1>1, HeadTailProperties
<1>3. Sequence(Tail(s))
  BY <1>2, SequenceOf
<1> DEFINE r == Tail(s)
<1> HIDE DEF r
<1>4. /\ Sequence(t) /\ Len(t) = Len(items) + Len(r)
      /\ \A k \in 1 .. Len(items) : t[k] = items[k]
      /\ \A k \in Len(items) + 1 .. Len(items) + Len(r) : t[k] = r[k - Len(items)]
  BY <1>3, ConcatFacts DEF r
<1>5. Len(r) = Len(s) - 1 /\ \A k \in 1 .. Len(s) - 1 : r[k] = s[k + 1]
  BY <1>2 DEF r
<1>6. ASSUME NEW k \in Len(items) + 1 .. Len(t) PROVE t[k] = s[k + 1 - Len(items)]
  <2>1. k \in Len(items) + 1 .. Len(items) + Len(r) /\ k - Len(items) \in 1 .. Len(s) - 1
        /\ k - Len(items) + 1 = k + 1 - Len(items)
    BY <1>1, <1>4, <1>5
  <2> QED
    BY <1>4, <1>5, <2>1
<1>7. ASSUME NEW k \in 2 .. Len(s) PROVE t[k - 1 + Len(items)] = s[k]
  <2>1. k - 1 + Len(items) \in Len(items) + 1 .. Len(t) /\ k - 1 + Len(items) + 1 - Len(items) = k
    BY <1>1, <1>4, <1>5
  <2> QED
    BY <1>6, <2>1
<1> QED
  BY <1>1, <1>2, <1>4, <1>5, <1>6, <1>7 DEF Replaced

LEMMA NoItems == Sequence(<<>>) /\ Len(<<>>) = 0
<1>1. <<>> \in Seq({})
  OBVIOUS
<1> QED
  BY <1>1, SequenceOf, EmptySeq

LEMMA Tuple1 == ASSUME NEW a PROVE Sequence(<<a>>) /\ Len(<<a>>) = 1 /\ <<a>>[1] = a
<1>1. <<a>> \in Seq({a})
  OBVIOUS
<1> QED
  BY <1>1, SequenceOf

LEMMA Tuple2 ==
  ASSUME NEW a, NEW b
  PROVE  Sequence(<<a, b>>) /\ Len(<<a, b>>) = 2 /\ <<a, b>>[1] = a /\ <<a, b>>[2] = b
<1>1. <<a, b>> \in Seq({a, b})
  OBVIOUS
<1> QED
  BY <1>1, SequenceOf

-----------------------------------------------------------------------------
(* The function a command is in.                                            *)
LEMMA LeastOf ==
  ASSUME NEW S \in SUBSET Nat, S # {}
  PROVE  \E m \in S : \A k \in S : m <= k
<1> DEFINE Under == OpToRel(<, Nat)
<1>1. IsWellFoundedOn(Under, Nat)
  BY NatLessThanWellFounded
<1>2. ASSUME NEW k \in Nat, NEW m \in Nat, k < m PROVE <<k, m>> \in Under
  <2> DEFINE pair == <<k, m>>
  <2>1. pair \in Nat \X Nat /\ pair[1] < pair[2]
    BY <1>2
  <2> QED
    BY <2>1 DEF OpToRel
<1> HIDE DEF Under
<1>3. PICK m \in S : \A k \in S : ~(<<k, m>> \in Under)
  BY <1>1, WFMin
<1>4. ASSUME NEW k \in S PROVE m <= k
  <2>1. k \in Nat /\ m \in Nat
    BY <1>3
  <2>2. ~(<<k, m>> \in Under)
    BY <1>3
  <2> QED
    BY <1>2, <2>1, <2>2
<1> QED
  BY <1>4

LEMMA StartIs ==
  ASSUME NEW o, NEW i \in Nat, NEW k, LastFunction(o, i, k)
  PROVE  StartIn(o, i) = k
<1>1. k \in 1 .. i /\ o[k].op = "function" /\ \A j \in k + 1 .. i : o[j].op # "function"
  BY DEF LastFunction
<1>2. ASSUME NEW l \in 1 .. i, o[l].op = "function", \A j \in l + 1 .. i : o[j].op # "function"
      PROVE  l = k
  <2>1. ~(l < k)
    BY <1>1, <1>2
  <2>2. ~(k < l)
    BY <1>1, <1>2
  <2> QED
    BY <1>1, <2>1, <2>2
<1> QED
  BY <1>1, <1>2 DEF StartIn

LEMMA StartExists ==
  ASSUME NEW o, NEW i \in Nat \ {0}, o[1].op = "function"
  PROVE  LastFunction(o, i, StartIn(o, i))
<1> DEFINE back == {d \in 0 .. i - 1 : o[i - d].op = "function"}
<1>1. back \in SUBSET Nat /\ i - 1 \in back
  <2>1. i - (i - 1) = 1 /\ i - 1 \in 0 .. i - 1
    OBVIOUS
  <2> QED
    BY <2>1
<1>2. PICK d \in back : \A e \in back : d <= e
  BY <1>1, LeastOf
<1>3. i - d \in 1 .. i /\ o[i - d].op = "function"
  BY <1>2
<1>4. ASSUME NEW j \in i - d + 1 .. i, o[j].op = "function" PROVE FALSE
  <2>1. d \in 0 .. i - 1 /\ i - j \in 0 .. i - 1 /\ i - (i - j) = j /\ ~(d <= i - j)
    BY <1>2
  <2> QED
    BY <1>2, <1>4, <2>1
<1>5. LastFunction(o, i, i - d)
  BY <1>3, <1>4 DEF LastFunction
<1> QED
  BY <1>5, StartIs

(* Commands behind those there are leave every function where it starts;    *)
(* they belong to the last one, unless a function is among them.            *)
LEMMA StartKept ==
  ASSUME NEW o, NEW q, Sequence(o), Sequence(q), o # <<>> => o[1].op = "function"
  PROVE  /\ \A i \in 1 .. Len(o) : StartIn(o \o q, i) = StartIn(o, i) /\ StartIn(o, i) \in 1 .. i
         /\ (o # <<>> /\ \A m \in 1 .. Len(q) : q[m].op # "function") =>
              \A i \in Len(o) + 1 .. Len(o) + Len(q) : StartIn(o \o q, i) = StartIn(o, Len(o))
<1> DEFINE w == o \o q
<1>1. /\ Len(o) \in Nat /\ Len(q) \in Nat
      /\ \A k \in 1 .. Len(o) : w[k] = o[k]
      /\ \A k \in Len(o) + 1 .. Len(o) + Len(q) : w[k] = q[k - Len(o)]
  BY ConcatFacts, SequenceFacts
<1> HIDE DEF w
<1>2. ASSUME NEW i \in 1 .. Len(o) PROVE StartIn(w, i) = StartIn(o, i) /\ StartIn(o, i) \in 1 .. i
  <2>1. i \in Nat \ {0} /\ o # <<>>
    BY <1>1, SequenceFacts
  <2>2. LastFunction(o, i, StartIn(o, i))
    BY <2>1, StartExists
  <2> DEFINE k == StartIn(o, i)
  <2>3. k \in 1 .. i /\ o[k].op = "function" /\ \A j \in k + 1 .. i : o[j].op # "function"
    BY <2>2 DEF LastFunction
  <2> HIDE DEF k
  <2>4. LastFunction(w, i, k)
    BY <1>1, <2>1, <2>3 DEF LastFunction
  <2> QED
    BY <2>1, <2>3, <2>4, StartIs DEF k
<1>3. ASSUME o # <<>>, \A m \in 1 .. Len(q) : q[m].op # "function",
             NEW i \in Len(o) + 1 .. Len(o) + Len(q)
      PROVE  StartIn(w, i) = StartIn(o, Len(o))
  <2>1. i \in Nat \ {0} /\ Len(o) \in Nat \ {0}
    BY <1>1, <1>3, SequenceFacts
  <2>2. LastFunction(o, Len(o), StartIn(o, Len(o)))
    BY <1>3, <2>1, StartExists
  <2> DEFINE k == StartIn(o, Len(o))
  <2>3. k \in 1 .. Len(o) /\ o[k].op = "function" /\ \A j \in k + 1 .. Len(o) : o[j].op # "function"
    BY <2>2 DEF LastFunction
  <2> HIDE DEF k
  <2>4. k \in 1 .. i /\ w[k].op = "function"
    BY <1>1, <2>1, <2>3, <1>3
  <2>5. ASSUME NEW j \in k + 1 .. i PROVE w[j].op # "function"
    <3>1. CASE j <= Len(o)
      BY <1>1, <2>1, <2>3, <3>1
    <3>2. CASE ~(j <= Len(o))
      <4>1. j \in Len(o) + 1 .. Len(o) + Len(q) /\ j - Len(o) \in 1 .. Len(q)
        BY <1>1, <1>3, <2>1, <2>3, <3>2
      <4> QED
        BY <1>1, <1>3, <4>1
    <3> QED
      BY <3>1, <3>2
  <2>6. LastFunction(w, i, k)
    BY <2>4, <2>5 DEF LastFunction
  <2> QED
    BY <2>1, <2>6, StartIs DEF k
<1> QED
  BY <1>2, <1>3 DEF w

-----------------------------------------------------------------------------
(* What waits, when items take the place of the first of t.                 *)
Moved(t, items, u) ==
  /\ \A k, m \in Nat : Waits(items, k, m) => Waits(u, k, m) /\ Cmd(u, k, m) = Cmd(items, k, m)
  /\ \A k, m \in Nat : Waits(t, k, m) /\ k >= 2 =>
       /\ k - 1 + Len(items) \in Nat /\ Waits(u, k - 1 + Len(items), m)
       /\ Cmd(u, k - 1 + Len(items), m) = Cmd(t, k, m)
  /\ \A k, m \in Nat : Waits(u, k, m) =>
       \/ k <= Len(items) /\ Waits(items, k, m) /\ Cmd(u, k, m) = Cmd(items, k, m)
       \/ /\ k > Len(items) /\ k + 1 - Len(items) \in Nat /\ k + 1 - Len(items) >= 2
          /\ Waits(t, k + 1 - Len(items), m) /\ Cmd(u, k, m) = Cmd(t, k + 1 - Len(items), m)

LEMMA WaitsMoved ==
  ASSUME NEW t, Sequence(t), t # <<>>, NEW items, Sequence(items), NEW u, u = items \o Tail(t)
  PROVE  Moved(t, items, u)
<1>1. /\ Len(t) \in Nat /\ Len(items) \in Nat /\ Len(u) \in Nat
      /\ Len(u) = Len(items) + Len(t) - 1
      /\ \A k \in 1 .. Len(items) : u[k] = items[k]
      /\ \A k \in Len(items) + 1 .. Len(u) : u[k] = t[k + 1 - Len(items)]
      /\ \A k \in 2 .. Len(t) : u[k - 1 + Len(items)] = t[k]
      /\ Len(t) >= 1
  <2>1. Replaced(t, items, u)
    BY Continued
  <2> QED
    BY <2>1, SequenceFacts DEF Replaced
<1>2. ASSUME NEW k \in Nat, NEW m \in Nat, Waits(items, k, m)
      PROVE  Waits(u, k, m) /\ Cmd(u, k, m) = Cmd(items, k, m)
  BY <1>1, <1>2 DEF Waits, Cmd
<1>3. ASSUME NEW k \in Nat, NEW m \in Nat, Waits(t, k, m), k >= 2
      PROVE  /\ k - 1 + Len(items) \in Nat /\ Waits(u, k - 1 + Len(items), m)
             /\ Cmd(u, k - 1 + Len(items), m) = Cmd(t, k, m)
  <2>1. k \in 2 .. Len(t) /\ k - 1 + Len(items) \in 1 .. Len(u)
    BY <1>1, <1>3 DEF Waits
  <2> QED
    BY <1>1, <1>3, <2>1 DEF Waits, Cmd
<1>4. ASSUME NEW k \in Nat, NEW m \in Nat, Waits(u, k, m)
      PROVE  \/ k <= Len(items) /\ Waits(items, k, m) /\ Cmd(u, k, m) = Cmd(items, k, m)
             \/ /\ k > Len(items) /\ k + 1 - Len(items) \in Nat /\ k + 1 - Len(items) >= 2
                /\ Waits(t, k + 1 - Len(items), m) /\ Cmd(u, k, m) = Cmd(t, k + 1 - Len(items), m)
  <2>1. CASE k <= Len(items)
    BY <1>1, <1>4, <2>1 DEF Waits, Cmd
  <2>2. CASE ~(k <= Len(items))
    <3>1. k \in Len(items) + 1 .. Len(u) /\ k + 1 - Len(items) \in 2 .. Len(t)
      BY <1>1, <1>4, <2>2 DEF Waits
    <3>2. u[k] = t[k + 1 - Len(items)]
      BY <1>1, <3>1
    <3> QED
      BY <1>1, <1>4, <3>1, <3>2 DEF Waits, Cmd
  <2> QED
    BY <2>1, <2>2
<1> QED
  BY <1>2, <1>3, <1>4 DEF Moved

(* What a rule may leave to do: its labels are new and apart, and its jumps *)
(* go to labels it leaves.                                                 *)
Fresh(items, f, w, f2, w2) ==
  /\ \A k, m \in Nat : Waits(items, k, m) /\ IsLabel(Cmd(items, k, m)) =>
       Numbered(Cmd(items, k, m).to, f2, w2) /\ ~Numbered(Cmd(items, k, m).to, f, w)
  /\ \A k, m, l, n \in Nat :
       Waits(items, k, m) /\ Waits(items, l, n) /\ IsLabel(Cmd(items, k, m)) /\ IsLabel(Cmd(items, l, n))
       /\ Cmd(items, k, m).to = Cmd(items, l, n).to => k = l /\ m = n
  /\ \A k, m \in Nat : Waits(items, k, m) /\ IsJump(Cmd(items, k, m)) => Waiting(items, Cmd(items, k, m).to)

LEMMA NumberedGrows ==
  ASSUME NEW f \in Nat, NEW w \in Nat, NEW f2 \in Nat, NEW w2 \in Nat, f <= f2, w <= w2,
         NEW l, Numbered(l, f, w)
  PROVE  Numbered(l, f2, w2)
BY DEF Numbered

LEMMA CallApart ==
  ASSUME NEW t, Sequence(t), t # <<>>, NEW items, Sequence(items), NEW u, u = items \o Tail(t),
         NEW o, NEW f \in Nat, NEW w \in Nat, NEW f2 \in Nat, NEW w2 \in Nat, f <= f2, w <= w2,
         LabelsApart(o, t, f, w), Fresh(items, f, w, f2, w2)
  PROVE  LabelsApart(o, u, f2, w2)
<1>0. Len(items) \in Nat
  BY SequenceFacts
<1> DEFINE Old(k) == k + 1 - Len(items)
<1>1. \A k, m \in Nat : Waits(u, k, m) =>
        \/ k <= Len(items) /\ Waits(items, k, m) /\ Cmd(u, k, m) = Cmd(items, k, m)
        \/ /\ k > Len(items) /\ Old(k) \in Nat /\ Waits(t, Old(k), m) /\ Cmd(u, k, m) = Cmd(t, Old(k), m)
  <2>1. Moved(t, items, u)
    BY WaitsMoved
  <2> QED
    BY <2>1 DEF Moved
<1>2. /\ \A i \in 1 .. Len(o) : IsLabel(o[i]) => Numbered(o[i].to, f, w)
      /\ \A k, m \in Nat : Waits(t, k, m) /\ IsLabel(Cmd(t, k, m)) => Numbered(Cmd(t, k, m).to, f, w)
      /\ \A k, m \in Nat : Waits(items, k, m) /\ IsLabel(Cmd(items, k, m)) =>
           Numbered(Cmd(items, k, m).to, f2, w2) /\ ~Numbered(Cmd(items, k, m).to, f, w)
  BY DEF LabelsApart, Fresh
<1>3. \A i \in 1 .. Len(o) : IsLabel(o[i]) => Numbered(o[i].to, f2, w2)
  BY <1>2, NumberedGrows
<1>4. ASSUME NEW k \in Nat, NEW m \in Nat, Waits(u, k, m), IsLabel(Cmd(u, k, m))
      PROVE  /\ Numbered(Cmd(u, k, m).to, f2, w2)
             /\ \/ k <= Len(items) /\ Waits(items, k, m) /\ Cmd(u, k, m) = Cmd(items, k, m)
                   /\ ~Numbered(Cmd(u, k, m).to, f, w)
                \/ /\ k > Len(items) /\ Old(k) \in Nat /\ Waits(t, Old(k), m)
                   /\ Cmd(u, k, m) = Cmd(t, Old(k), m) /\ Numbered(Cmd(u, k, m).to, f, w)
  <2>1. CASE k <= Len(items) /\ Waits(items, k, m) /\ Cmd(u, k, m) = Cmd(items, k, m)
    BY <1>2, <1>4, <2>1
  <2>2. CASE k > Len(items) /\ Old(k) \in Nat /\ Waits(t, Old(k), m) /\ Cmd(u, k, m) = Cmd(t, Old(k), m)
    <3>1. Numbered(Cmd(u, k, m).to, f, w)
      BY <1>2, <1>4, <2>2
    <3> QED
      BY <2>2, <3>1, NumberedGrows
  <2> HIDE DEF Old
  <2> QED
    BY <1>1, <1>4, <2>1, <2>2
<1>5. ASSUME NEW i \in 1 .. Len(o), NEW k \in Nat, NEW m \in Nat,
             Waits(u, k, m), IsLabel(o[i]), IsLabel(Cmd(u, k, m))
      PROVE  o[i].to # Cmd(u, k, m).to
  <2>1. Numbered(o[i].to, f, w)
    BY <1>2, <1>5
  <2> HIDE DEF Old
  <2>2. CASE ~Numbered(Cmd(u, k, m).to, f, w)
    BY <2>1, <2>2
  <2>3. CASE Old(k) \in Nat /\ Waits(t, Old(k), m) /\ Cmd(u, k, m) = Cmd(t, Old(k), m)
    BY <1>5, <2>3 DEF LabelsApart
  <2> QED
    BY <1>4, <1>5, <2>2, <2>3
<1>6. ASSUME NEW k \in Nat, NEW m \in Nat, NEW l \in Nat, NEW n \in Nat,
             Waits(u, k, m), Waits(u, l, n), IsLabel(Cmd(u, k, m)), IsLabel(Cmd(u, l, n)),
             Cmd(u, k, m).to = Cmd(u, l, n).to
      PROVE  k = l /\ m = n
  <2>1. CASE Numbered(Cmd(u, k, m).to, f, w)
    <3> HIDE DEF Old
    <3>1. /\ k > Len(items) /\ Old(k) \in Nat /\ Waits(t, Old(k), m) /\ Cmd(u, k, m) = Cmd(t, Old(k), m)
          /\ l > Len(items) /\ Old(l) \in Nat /\ Waits(t, Old(l), n) /\ Cmd(u, l, n) = Cmd(t, Old(l), n)
      BY <1>4, <1>6, <2>1
    <3>2. Old(k) = Old(l) /\ m = n
      BY <1>6, <3>1 DEF LabelsApart
    <3> QED
      BY <1>0, <3>2 DEF Old
  <2>2. CASE ~Numbered(Cmd(u, k, m).to, f, w)
    <3> HIDE DEF Old
    <3>1. /\ Waits(items, k, m) /\ Cmd(u, k, m) = Cmd(items, k, m)
          /\ Waits(items, l, n) /\ Cmd(u, l, n) = Cmd(items, l, n)
      BY <1>4, <1>6, <2>2
    <3> QED
      BY <1>6, <3>1 DEF Fresh
  <2> QED
    BY <2>1, <2>2
<1>7. \A i, j \in 1 .. Len(o) : IsLabel(o[i]) /\ IsLabel(o[j]) /\ o[i].to = o[j].to => i = j
  BY DEF LabelsApart
<1>8. \A k, m \in Nat : Waits(u, k, m) /\ IsLabel(Cmd(u, k, m)) => Numbered(Cmd(u, k, m).to, f2, w2)
  BY <1>4
<1>9. \A i \in 1 .. Len(o), k, m \in Nat :
        Waits(u, k, m) /\ IsLabel(o[i]) /\ IsLabel(Cmd(u, k, m)) => o[i].to # Cmd(u, k, m).to
  BY <1>5
<1>10. \A k, m, l, n \in Nat :
         Waits(u, k, m) /\ Waits(u, l, n) /\ IsLabel(Cmd(u, k, m)) /\ IsLabel(Cmd(u, l, n))
         /\ Cmd(u, k, m).to = Cmd(u, l, n).to => k = l /\ m = n
  BY <1>6
<1> QED
  BY <1>3, <1>7, <1>8, <1>9, <1>10 DEF LabelsApart

LEMMA CallKeeps ==
  ASSUME NEW t, Sequence(t), t # <<>>, t[1].do # "put",
         NEW items, Sequence(items), NEW u, u = items \o Tail(t),
         NEW o, NEW f, NEW w, NEW f2, NEW w2, JumpsKept(o, t), Fresh(items, f, w, f2, w2)
  PROVE  JumpsKept(o, u)
<1> DEFINE Old(k) == k + 1 - Len(items)
           New(k) == k - 1 + Len(items)
<1>0. Len(items) \in Nat
  BY SequenceFacts
<1>1. /\ \A k, m \in Nat : Waits(items, k, m) => Waits(u, k, m) /\ Cmd(u, k, m) = Cmd(items, k, m)
      /\ \A k, m \in Nat : Waits(t, k, m) /\ k >= 2 =>
           New(k) \in Nat /\ Waits(u, New(k), m) /\ Cmd(u, New(k), m) = Cmd(t, k, m)
      /\ \A k, m \in Nat : Waits(u, k, m) =>
           \/ Waits(items, k, m) /\ Cmd(u, k, m) = Cmd(items, k, m)
           \/ Old(k) \in Nat /\ Waits(t, Old(k), m) /\ Cmd(u, k, m) = Cmd(t, Old(k), m)
  <2>1. Moved(t, items, u)
    BY WaitsMoved
  <2> QED
    BY <2>1 DEF Moved
<1> HIDE DEF Old, New
<1>2. ASSUME NEW l, Waiting(t, l) PROVE Waiting(u, l)
  <2>1. PICK k \in Nat, m \in Nat : Waits(t, k, m) /\ Cmd(t, k, m) = Label(l)
    BY <1>2 DEF Waiting
  <2>2. k >= 2
    BY <2>1 DEF Waits
  <2>3. New(k) \in Nat /\ Waits(u, New(k), m) /\ Cmd(u, New(k), m) = Label(l)
    BY <1>1, <2>1, <2>2
  <2> QED
    BY <2>1, <2>3 DEF Waiting
<1>3. ASSUME NEW l, Waiting(items, l) PROVE Waiting(u, l)
  <2>1. PICK k \in Nat, m \in Nat : Waits(items, k, m) /\ Cmd(items, k, m) = Label(l)
    BY <1>3 DEF Waiting
  <2>2. Waits(u, k, m) /\ Cmd(u, k, m) = Label(l)
    BY <1>1, <2>1
  <2> QED
    BY <2>1, <2>2 DEF Waiting
<1>4. \A i \in 1 .. Len(o) : IsJump(o[i]) =>
        Written(o, o[i].to, i) \/ (Waiting(u, o[i].to) /\ StartIn(o, i) = StartIn(o, Len(o)))
  BY <1>2 DEF JumpsKept
<1>5. ASSUME NEW k \in Nat, NEW m \in Nat, Waits(u, k, m), IsJump(Cmd(u, k, m))
      PROVE  Written(o, Cmd(u, k, m).to, Len(o)) \/ Waiting(u, Cmd(u, k, m).to)
  <2>1. CASE Waits(items, k, m) /\ Cmd(u, k, m) = Cmd(items, k, m)
    <3>1. Waiting(items, Cmd(u, k, m).to)
      BY <1>5, <2>1 DEF Fresh
    <3> QED
      BY <1>3, <3>1
  <2>2. CASE Old(k) \in Nat /\ Waits(t, Old(k), m) /\ Cmd(u, k, m) = Cmd(t, Old(k), m)
    <3>1. Written(o, Cmd(u, k, m).to, Len(o)) \/ Waiting(t, Cmd(u, k, m).to)
      BY <1>5, <2>2 DEF JumpsKept
    <3> QED
      BY <1>2, <3>1
  <2> QED
    BY <1>1, <1>5, <2>1, <2>2
<1> QED
  BY <1>4, <1>5 DEF JumpsKept

-----------------------------------------------------------------------------
(* The commands q are written, and the first of t is done: its labels and   *)
(* jumps are those of q.                                                   *)
Emits(t, q) ==
  /\ \A m \in 1 .. Len(q) : IsLabel(q[m]) \/ IsJump(q[m]) => Waits(t, 1, m) /\ Cmd(t, 1, m) = q[m]
  /\ \A m \in Nat : Waits(t, 1, m) => m \in 1 .. Len(q) /\ Cmd(t, 1, m) = q[m]

Left(t, u) ==
  /\ \A k, m \in Nat : Waits(u, k, m) => k >= 1 /\ Waits(t, k + 1, m) /\ Cmd(u, k, m) = Cmd(t, k + 1, m)
  /\ \A k, m \in Nat : Waits(t, k, m) /\ k >= 2 =>
       k - 1 \in Nat /\ Waits(u, k - 1, m) /\ Cmd(u, k - 1, m) = Cmd(t, k, m)

LEMMA WaitsLeft ==
  ASSUME NEW t, Sequence(t), t # <<>>, NEW u, u = <<>> \o Tail(t)
  PROVE  Left(t, u)
<1>1. Moved(t, <<>>, u) /\ Len(<<>>) = 0
  BY WaitsMoved, NoItems
<1>2. ASSUME NEW k \in Nat, NEW m \in Nat, Waits(u, k, m)
      PROVE  k >= 1 /\ Waits(t, k + 1, m) /\ Cmd(u, k, m) = Cmd(t, k + 1, m)
  <2>1. k >= 1
    BY <1>2 DEF Waits
  <2>2. k + 1 - 0 = k + 1
    OBVIOUS
  <2>3. ~(k <= 0)
    BY <2>1
  <2> QED
    BY <1>1, <1>2, <2>1, <2>2, <2>3 DEF Moved
<1>3. ASSUME NEW k \in Nat, NEW m \in Nat, Waits(t, k, m), k >= 2
      PROVE  k - 1 \in Nat /\ Waits(u, k - 1, m) /\ Cmd(u, k - 1, m) = Cmd(t, k, m)
  <2>1. k - 1 + 0 = k - 1
    OBVIOUS
  <2> QED
    BY <1>1, <1>3, <2>1 DEF Moved
<1> QED
  BY <1>2, <1>3 DEF Left

(* p is o with q behind.                                                    *)
Longer(o, q, p) ==
  /\ Sequence(p) /\ Len(o) \in Nat /\ Len(q) \in Nat /\ Len(p) = Len(o) + Len(q)
  /\ \A i \in 1 .. Len(o) : p[i] = o[i]
  /\ \A i \in Len(o) + 1 .. Len(p) : p[i] = q[i - Len(o)] /\ i - Len(o) \in 1 .. Len(q)
  /\ \A m \in 1 .. Len(q) : Len(o) + m \in Len(o) + 1 .. Len(p) /\ p[Len(o) + m] = q[m]
  /\ \A i \in 1 .. Len(o) : StartIn(p, i) = StartIn(o, i) /\ StartIn(o, i) \in 1 .. i
  /\ (o # <<>> /\ \A m \in 1 .. Len(q) : q[m].op # "function") =>
       \A i \in Len(o) .. Len(p) : StartIn(p, i) = StartIn(o, Len(o))

LEMMA Extended ==
  ASSUME NEW o, NEW q, NEW p, Sequence(o), Sequence(q), p = o \o q, o # <<>> => o[1].op = "function"
  PROVE  Longer(o, q, p)
<1>1. /\ Sequence(p) /\ Len(o) \in Nat /\ Len(q) \in Nat /\ Len(p) = Len(o) + Len(q)
      /\ \A i \in 1 .. Len(o) : p[i] = o[i]
      /\ \A i \in Len(o) + 1 .. Len(p) : p[i] = q[i - Len(o)]
  BY ConcatFacts, SequenceFacts
<1>2. \A i \in Len(o) + 1 .. Len(p) : i - Len(o) \in 1 .. Len(q)
  BY <1>1
<1>3. ASSUME NEW m \in 1 .. Len(q)
      PROVE  Len(o) + m \in Len(o) + 1 .. Len(p) /\ p[Len(o) + m] = q[m]
  <2>1. Len(o) + m \in Len(o) + 1 .. Len(p) /\ Len(o) + m - Len(o) = m
    BY <1>1
  <2>2. p[Len(o) + m] = q[Len(o) + m - Len(o)]
    BY <1>1, <2>1
  <2> QED
    BY <2>1, <2>2
<1>4. \A i \in 1 .. Len(o) : StartIn(p, i) = StartIn(o, i) /\ StartIn(o, i) \in 1 .. i
  BY StartKept
<1>5. ASSUME o # <<>>, \A m \in 1 .. Len(q) : q[m].op # "function", NEW i \in Len(o) .. Len(p)
      PROVE  StartIn(p, i) = StartIn(o, Len(o))
  <2>1. CASE i = Len(o)
    <3>1. Len(o) \in 1 .. Len(o)
      BY <1>1, <1>5, SequenceFacts
    <3> QED
      BY <1>4, <2>1, <3>1
  <2>2. CASE i # Len(o)
    <3>1. i \in Len(o) + 1 .. Len(o) + Len(q)
      BY <1>1, <2>2
    <3> QED
      BY <1>5, <3>1, StartKept
  <2> QED
    BY <2>1, <2>2
<1> QED
  BY <1>1, <1>2, <1>3, <1>4, <1>5 DEF Longer

LEMMA EmitApart ==
  ASSUME NEW t, Sequence(t), t # <<>>, NEW u, u = <<>> \o Tail(t),
         NEW o, NEW q, NEW p, Sequence(o), Sequence(q), p = o \o q, Emits(t, q),
         NEW f, NEW w, LabelsApart(o, t, f, w)
  PROVE  LabelsApart(p, u, f, w)
<1>1. /\ Len(o) \in Nat /\ Len(q) \in Nat /\ Len(p) = Len(o) + Len(q)
      /\ \A i \in 1 .. Len(o) : p[i] = o[i]
      /\ \A i \in Len(o) + 1 .. Len(p) : p[i] = q[i - Len(o)]
  BY ConcatFacts, SequenceFacts
<1>2. \A k, m \in Nat : Waits(u, k, m) => k >= 1 /\ Waits(t, k + 1, m) /\ Cmd(u, k, m) = Cmd(t, k + 1, m)
  <2>1. Left(t, u)
    BY WaitsLeft
  <2> QED
    BY <2>1 DEF Left
<1>3. ASSUME NEW i \in 1 .. Len(p), IsLabel(p[i])
      PROVE  \/ i \in 1 .. Len(o) /\ p[i] = o[i]
             \/ i > Len(o) /\ i - Len(o) \in Nat /\ Waits(t, 1, i - Len(o)) /\ p[i] = Cmd(t, 1, i - Len(o))
  <2>1. CASE i <= Len(o)
    BY <1>1, <2>1
  <2>2. CASE ~(i <= Len(o))
    <3>1. i \in Len(o) + 1 .. Len(p) /\ i - Len(o) \in 1 .. Len(q)
      BY <1>1, <2>2
    <3>2. p[i] = q[i - Len(o)]
      BY <1>1, <3>1
    <3> QED
      BY <1>1, <1>3, <3>1, <3>2 DEF Emits
  <2> QED
    BY <2>1, <2>2
<1>4. /\ \A i \in 1 .. Len(o) : IsLabel(o[i]) => Numbered(o[i].to, f, w)
      /\ \A k, m \in Nat : Waits(t, k, m) /\ IsLabel(Cmd(t, k, m)) => Numbered(Cmd(t, k, m).to, f, w)
      /\ \A i, j \in 1 .. Len(o) : IsLabel(o[i]) /\ IsLabel(o[j]) /\ o[i].to = o[j].to => i = j
      /\ \A i \in 1 .. Len(o), k, m \in Nat :
           Waits(t, k, m) /\ IsLabel(o[i]) /\ IsLabel(Cmd(t, k, m)) => o[i].to # Cmd(t, k, m).to
      /\ \A k, m, l, n \in Nat :
           Waits(t, k, m) /\ Waits(t, l, n) /\ IsLabel(Cmd(t, k, m)) /\ IsLabel(Cmd(t, l, n))
           /\ Cmd(t, k, m).to = Cmd(t, l, n).to => k = l /\ m = n
  BY DEF LabelsApart
<1>5. \A i \in 1 .. Len(p) : IsLabel(p[i]) => Numbered(p[i].to, f, w)
  BY <1>3, <1>4
<1>6. ASSUME NEW i \in 1 .. Len(p), NEW j \in 1 .. Len(p), IsLabel(p[i]), IsLabel(p[j]), p[i].to = p[j].to
      PROVE  i = j
  <2> DEFINE a == i - Len(o)
             b == j - Len(o)
  <2>1. \/ i \in 1 .. Len(o) /\ p[i] = o[i]
        \/ a \in Nat /\ Waits(t, 1, a) /\ p[i] = Cmd(t, 1, a)
    BY <1>3, <1>6
  <2>2. \/ j \in 1 .. Len(o) /\ p[j] = o[j]
        \/ b \in Nat /\ Waits(t, 1, b) /\ p[j] = Cmd(t, 1, b)
    BY <1>3, <1>6
  <2>3. a = b => i = j
    BY <1>1
  <2> HIDE DEF a, b
  <2>4. CASE i \in 1 .. Len(o) /\ p[i] = o[i] /\ j \in 1 .. Len(o) /\ p[j] = o[j]
    BY <1>4, <1>6, <2>4
  <2>5. CASE i \in 1 .. Len(o) /\ p[i] = o[i] /\ b \in Nat /\ Waits(t, 1, b) /\ p[j] = Cmd(t, 1, b)
    BY <1>4, <1>6, <2>5
  <2>6. CASE a \in Nat /\ Waits(t, 1, a) /\ p[i] = Cmd(t, 1, a) /\ j \in 1 .. Len(o) /\ p[j] = o[j]
    BY <1>4, <1>6, <2>6
  <2>7. CASE a \in Nat /\ Waits(t, 1, a) /\ p[i] = Cmd(t, 1, a) /\ b \in Nat /\ Waits(t, 1, b) /\ p[j] = Cmd(t, 1, b)
    <3>1. 1 \in Nat /\ IsLabel(Cmd(t, 1, a)) /\ IsLabel(Cmd(t, 1, b)) /\ Cmd(t, 1, a).to = Cmd(t, 1, b).to
      BY <1>6, <2>7
    <3>2. a = b
      BY <1>4, <2>7, <3>1
    <3> QED
      BY <2>3, <3>2
  <2> QED
    BY <2>1, <2>2, <2>4, <2>5, <2>6, <2>7
<1>7. ASSUME NEW k \in Nat, NEW m \in Nat, Waits(u, k, m), IsLabel(Cmd(u, k, m))
      PROVE  Numbered(Cmd(u, k, m).to, f, w)
  BY <1>2, <1>4, <1>7
<1>8. ASSUME NEW i \in 1 .. Len(p), NEW k \in Nat, NEW m \in Nat,
             Waits(u, k, m), IsLabel(p[i]), IsLabel(Cmd(u, k, m)), p[i].to = Cmd(u, k, m).to
      PROVE  FALSE
  <2> DEFINE a == i - Len(o)
             l == k + 1
  <2>1. l \in Nat /\ l # 1 /\ Waits(t, l, m) /\ Cmd(u, k, m) = Cmd(t, l, m)
    BY <1>2, <1>8
  <2>2. \/ i \in 1 .. Len(o) /\ p[i] = o[i]
        \/ a \in Nat /\ Waits(t, 1, a) /\ p[i] = Cmd(t, 1, a)
    BY <1>3, <1>8
  <2> HIDE DEF a, l
  <2>3. CASE i \in 1 .. Len(o) /\ p[i] = o[i]
    BY <1>4, <1>8, <2>1, <2>3
  <2>4. CASE a \in Nat /\ Waits(t, 1, a) /\ p[i] = Cmd(t, 1, a)
    <3>1. 1 \in Nat /\ IsLabel(Cmd(t, 1, a)) /\ IsLabel(Cmd(t, l, m)) /\ Cmd(t, 1, a).to = Cmd(t, l, m).to
      BY <1>8, <2>1, <2>4
    <3>2. 1 = l
      BY <1>4, <2>1, <2>4, <3>1
    <3> QED
      BY <2>1, <3>2
  <2> QED
    BY <2>2, <2>3, <2>4
<1>9. ASSUME NEW k \in Nat, NEW m \in Nat, NEW l \in Nat, NEW n \in Nat,
             Waits(u, k, m), Waits(u, l, n), IsLabel(Cmd(u, k, m)), IsLabel(Cmd(u, l, n)),
             Cmd(u, k, m).to = Cmd(u, l, n).to
      PROVE  k = l /\ m = n
  <2>1. k + 1 \in Nat /\ Waits(t, k + 1, m) /\ Cmd(u, k, m) = Cmd(t, k + 1, m)
    BY <1>2, <1>9
  <2>2. l + 1 \in Nat /\ Waits(t, l + 1, n) /\ Cmd(u, l, n) = Cmd(t, l + 1, n)
    BY <1>2, <1>9
  <2>3. k + 1 = l + 1 /\ m = n
    BY <1>4, <1>9, <2>1, <2>2
  <2> QED
    BY <2>3
<1> QED
  BY <1>5, <1>6, <1>7, <1>8, <1>9 DEF LabelsApart

LEMMA EmitKeeps ==
  ASSUME NEW t, Sequence(t), t # <<>>, NEW u, u = <<>> \o Tail(t),
         NEW o, NEW q, NEW p, Sequence(o), Sequence(q), p = o \o q, Emits(t, q),
         o # <<>>, o[1].op = "function", \A m \in 1 .. Len(q) : q[m].op # "function",
         JumpsKept(o, t)
  PROVE  JumpsKept(p, u)
<1>1. /\ Len(o) \in Nat /\ Len(q) \in Nat /\ Len(p) = Len(o) + Len(q)
      /\ \A i \in 1 .. Len(o) : p[i] = o[i]
      /\ \A i \in Len(o) + 1 .. Len(p) : p[i] = q[i - Len(o)] /\ i - Len(o) \in 1 .. Len(q)
      /\ \A m \in 1 .. Len(q) : Len(o) + m \in Len(o) + 1 .. Len(p) /\ p[Len(o) + m] = q[m]
      /\ \A i \in 1 .. Len(o) : StartIn(p, i) = StartIn(o, i)
      /\ \A i \in Len(o) .. Len(p) : StartIn(p, i) = StartIn(o, Len(o))
  <2>1. Longer(o, q, p)
    BY Extended
  <2> QED
    BY <2>1 DEF Longer
<1>2. /\ \A k, m \in Nat : Waits(u, k, m) => Waits(t, k + 1, m) /\ Cmd(u, k, m) = Cmd(t, k + 1, m)
      /\ \A k, m \in Nat : Waits(t, k, m) /\ k >= 2 =>
           k - 1 \in Nat /\ Waits(u, k - 1, m) /\ Cmd(u, k - 1, m) = Cmd(t, k, m)
  <2>1. Left(t, u)
    BY WaitsLeft
  <2> QED
    BY <2>1 DEF Left
<1>3. /\ \A i \in 1 .. Len(o) : IsJump(o[i]) =>
           Written(o, o[i].to, i) \/ (Waiting(t, o[i].to) /\ StartIn(o, i) = StartIn(o, Len(o)))
      /\ \A k, m \in Nat : Waits(t, k, m) /\ IsJump(Cmd(t, k, m)) =>
           Written(o, Cmd(t, k, m).to, Len(o)) \/ Waiting(t, Cmd(t, k, m).to)
  BY DEF JumpsKept
<1>4. ASSUME NEW l, Waiting(t, l)
      PROVE  Waiting(u, l) \/ \E j \in Len(o) + 1 .. Len(p) : p[j] = Label(l)
  <2>1. PICK k \in Nat, m \in Nat : Waits(t, k, m) /\ Cmd(t, k, m) = Label(l)
    BY <1>4 DEF Waiting
  <2>2. CASE k >= 2
    <3>1. k - 1 \in Nat /\ Waits(u, k - 1, m) /\ Cmd(u, k - 1, m) = Label(l)
      BY <1>2, <2>1, <2>2
    <3> QED
      BY <2>1, <3>1 DEF Waiting
  <2>3. CASE ~(k >= 2)
    <3>1. k = 1
      BY <2>1, <2>3 DEF Waits
    <3>2. m \in 1 .. Len(q) /\ q[m] = Label(l)
      BY <2>1, <3>1 DEF Emits
    <3> QED
      BY <1>1, <3>2
  <2> QED
    BY <2>2, <2>3
<1>5. ASSUME NEW l, NEW i \in 1 .. Len(o), Written(o, l, i) PROVE Written(p, l, i)
  <2>1. PICK j \in 1 .. Len(o) : o[j] = Label(l) /\ StartIn(o, j) = StartIn(o, i)
    BY <1>5 DEF Written
  <2>2. j \in 1 .. Len(p) /\ p[j] = Label(l) /\ StartIn(p, j) = StartIn(p, i)
    BY <1>1, <2>1, SMTT(40)
  <2> QED
    BY <2>2 DEF Written
<1>6. Len(o) \in 1 .. Len(o) /\ Len(p) \in Len(o) .. Len(p)
  BY <1>1, SequenceFacts
<1>7. ASSUME NEW l, NEW i \in 1 .. Len(p), StartIn(p, i) = StartIn(o, Len(o)),
             Written(o, l, Len(o)) \/ Waiting(t, l)
      PROVE  Written(p, l, i) \/ Waiting(u, l)
  <2>1. CASE Written(o, l, Len(o))
    <3>1. PICK j \in 1 .. Len(o) : o[j] = Label(l) /\ StartIn(o, j) = StartIn(o, Len(o))
      BY <2>1 DEF Written
    <3>2. j \in 1 .. Len(p) /\ p[j] = Label(l) /\ StartIn(p, j) = StartIn(p, i)
      BY <1>1, <1>7, <3>1
    <3> QED
      BY <3>2 DEF Written
  <2>2. CASE Waiting(t, l) /\ ~Waiting(u, l)
    <3>1. PICK j \in Len(o) + 1 .. Len(p) : p[j] = Label(l)
      BY <1>4, <2>2
    <3>2. j \in 1 .. Len(p) /\ j \in Len(o) .. Len(p)
      BY <1>1, <3>1
    <3>3. StartIn(p, j) = StartIn(p, i)
      BY <1>1, <1>7, <3>2
    <3> QED
      BY <3>1, <3>2, <3>3 DEF Written
  <2> QED
    BY <1>7, <2>1, <2>2
<1>8. ASSUME NEW i \in 1 .. Len(p), IsJump(p[i])
      PROVE  Written(p, p[i].to, i) \/ (Waiting(u, p[i].to) /\ StartIn(p, i) = StartIn(p, Len(p)))
  <2>1. CASE i <= Len(o)
    <3>1. i \in 1 .. Len(o) /\ p[i] = o[i] /\ StartIn(p, i) = StartIn(o, i)
      BY <1>1, <2>1
    <3>2. CASE Written(o, o[i].to, i)
      BY <1>5, <3>1, <3>2
    <3>3. CASE Waiting(t, o[i].to) /\ StartIn(o, i) = StartIn(o, Len(o))
      BY <1>1, <1>6, <1>7, <3>1, <3>3
    <3> QED
      BY <1>3, <1>8, <3>1, <3>2, <3>3
  <2>2. CASE ~(i <= Len(o))
    <3>1. i \in Len(o) + 1 .. Len(p) /\ i \in Len(o) .. Len(p)
      BY <1>1, <2>2
    <3>2. i - Len(o) \in Nat /\ Waits(t, 1, i - Len(o)) /\ p[i] = Cmd(t, 1, i - Len(o))
      BY <1>1, <1>8, <3>1 DEF Emits
    <3>3. Written(o, p[i].to, Len(o)) \/ Waiting(t, p[i].to)
      BY <1>3, <1>8, <3>2
    <3> QED
      BY <1>1, <1>6, <1>7, <3>1, <3>3
  <2> QED
    BY <2>1, <2>2
<1>9. ASSUME NEW k \in Nat, NEW m \in Nat, Waits(u, k, m), IsJump(Cmd(u, k, m))
      PROVE  Written(p, Cmd(u, k, m).to, Len(p)) \/ Waiting(u, Cmd(u, k, m).to)
  <2>1. k + 1 \in Nat /\ Waits(t, k + 1, m) /\ Cmd(u, k, m) = Cmd(t, k + 1, m)
    BY <1>2, <1>9
  <2>2. Written(o, Cmd(u, k, m).to, Len(o)) \/ Waiting(t, Cmd(u, k, m).to)
    BY <1>3, <1>9, <2>1
  <2>3. Len(p) \in 1 .. Len(p) /\ StartIn(p, Len(p)) = StartIn(o, Len(o))
    BY <1>1, <1>6
  <2> QED
    BY <1>7, <2>2, <2>3
<1> QED
  BY <1>8, <1>9 DEF JumpsKept

LEMMA EmitLocals ==
  ASSUME NEW o, NEW q, NEW p, Sequence(o), Sequence(q), p = o \o q,
         o # <<>>, o[1].op = "function", \A m \in 1 .. Len(q) : q[m].op # "function",
         \A m \in 1 .. Len(q) : IsLocal(q[m]) => q[m].idx < o[StartIn(o, Len(o))].locals,
         LocalsHeld(o)
  PROVE  LocalsHeld(p) /\ p[StartIn(p, Len(p))] = o[StartIn(o, Len(o))]
<1>1. /\ Len(o) \in Nat /\ Len(q) \in Nat /\ Len(p) = Len(o) + Len(q)
      /\ \A i \in 1 .. Len(o) : p[i] = o[i]
      /\ \A i \in Len(o) + 1 .. Len(p) : p[i] = q[i - Len(o)] /\ i - Len(o) \in 1 .. Len(q)
      /\ \A i \in 1 .. Len(o) : StartIn(p, i) = StartIn(o, i) /\ StartIn(o, i) \in 1 .. i
      /\ \A i \in Len(o) .. Len(p) : StartIn(p, i) = StartIn(o, Len(o))
  <2>1. Longer(o, q, p)
    BY Extended
  <2> QED
    BY <2>1 DEF Longer
<1>2. Len(o) \in 1 .. Len(o) /\ Len(p) \in Len(o) .. Len(p)
  BY <1>1, SequenceFacts
<1>3. p[StartIn(o, Len(o))] = o[StartIn(o, Len(o))]
  BY <1>1, <1>2
<1>4. ASSUME NEW i \in 1 .. Len(p), IsLocal(p[i]) PROVE p[i].idx < p[StartIn(p, i)].locals
  <2>1. CASE i <= Len(o)
    <3>1. i \in 1 .. Len(o) /\ p[i] = o[i] /\ StartIn(p, i) = StartIn(o, i) /\ StartIn(o, i) \in 1 .. Len(o)
      BY <1>1, <2>1
    <3>2. p[StartIn(o, i)] = o[StartIn(o, i)]
      BY <1>1, <3>1
    <3> QED
      BY <1>4, <3>1, <3>2 DEF LocalsHeld
  <2>2. CASE ~(i <= Len(o))
    <3>1. i \in Len(o) + 1 .. Len(p) /\ i \in Len(o) .. Len(p)
      BY <1>1, <2>2
    <3> QED
      BY <1>1, <1>3, <1>4, <3>1
  <2> QED
    BY <2>1, <2>2
<1> QED
  BY <1>1, <1>2, <1>3, <1>4 DEF LocalsHeld

(* Between functions nothing waits.                                         *)
Quiet(t) == \A k, m \in Nat : ~Waits(t, k, m)

LEMMA QuietApart ==
  ASSUME NEW t, Quiet(t), NEW u, Quiet(u),
         NEW o, NEW q, NEW p, Sequence(o), Sequence(q), p = o \o q, o # <<>> => o[1].op = "function",
         \A m \in 1 .. Len(q) : ~IsLabel(q[m]) /\ ~IsJump(q[m]) /\ ~IsLocal(q[m]),
         NEW f, NEW w, LabelsApart(o, t, f, w)
  PROVE  LabelsApart(p, u, f, w) /\ (JumpsKept(o, t) => JumpsKept(p, u)) /\ (LocalsHeld(o) => LocalsHeld(p))
<1>1. /\ Len(o) \in Nat /\ Len(q) \in Nat /\ Len(p) = Len(o) + Len(q)
      /\ \A i \in 1 .. Len(o) : p[i] = o[i]
      /\ \A i \in Len(o) + 1 .. Len(p) : p[i] = q[i - Len(o)] /\ i - Len(o) \in 1 .. Len(q)
      /\ \A i \in 1 .. Len(o) : StartIn(p, i) = StartIn(o, i) /\ StartIn(o, i) \in 1 .. i
  <2>1. Longer(o, q, p)
    BY Extended
  <2> QED
    BY <2>1 DEF Longer
<1>2. ASSUME NEW i \in 1 .. Len(p), IsLabel(p[i]) \/ IsJump(p[i]) \/ IsLocal(p[i])
      PROVE  i \in 1 .. Len(o) /\ p[i] = o[i]
  <2>1. CASE i <= Len(o)
    BY <1>1, <2>1
  <2>2. CASE ~(i <= Len(o))
    <3>1. i \in Len(o) + 1 .. Len(p)
      BY <1>1, <2>2
    <3> QED
      BY <1>1, <1>2, <3>1
  <2> QED
    BY <2>1, <2>2
<1>3. \A k, m \in Nat : ~Waits(u, k, m)
  BY DEF Quiet
<1>4. \A i \in 1 .. Len(p) : IsLabel(p[i]) => Numbered(p[i].to, f, w)
  BY <1>2 DEF LabelsApart
<1>5. \A i, j \in 1 .. Len(p) : IsLabel(p[i]) /\ IsLabel(p[j]) /\ p[i].to = p[j].to => i = j
  BY <1>2 DEF LabelsApart
<1>6. LabelsApart(p, u, f, w)
  BY <1>3, <1>4, <1>5 DEF LabelsApart
<1>7. ASSUME JumpsKept(o, t), NEW i \in 1 .. Len(p), IsJump(p[i]) PROVE Written(p, p[i].to, i)
  <2>1. i \in 1 .. Len(o) /\ p[i] = o[i]
    BY <1>2, <1>7
  <2>2. ~Waiting(t, o[i].to)
    BY DEF Quiet, Waiting
  <2>3. Written(o, o[i].to, i)
    BY <1>7, <2>1, <2>2 DEF JumpsKept
  <2>4. PICK j \in 1 .. Len(o) : o[j] = Label(o[i].to) /\ StartIn(o, j) = StartIn(o, i)
    BY <2>3 DEF Written
  <2>5. j \in 1 .. Len(p) /\ p[j] = Label(p[i].to) /\ StartIn(p, j) = StartIn(p, i)
    BY <1>1, <2>1, <2>4
  <2> QED
    BY <2>5 DEF Written
<1>8. JumpsKept(o, t) => JumpsKept(p, u)
  BY <1>3, <1>7 DEF JumpsKept
<1>9. ASSUME LocalsHeld(o), NEW i \in 1 .. Len(p), IsLocal(p[i]) PROVE p[i].idx < p[StartIn(p, i)].locals
  <2>1. i \in 1 .. Len(o) /\ p[i] = o[i] /\ StartIn(p, i) = StartIn(o, i) /\ StartIn(o, i) \in 1 .. Len(o)
    BY <1>1, <1>2, <1>9
  <2>2. p[StartIn(o, i)] = o[StartIn(o, i)]
    BY <1>1, <2>1
  <2> QED
    BY <1>9, <2>1, <2>2 DEF LocalsHeld
<1> QED
  BY <1>6, <1>8, <1>9 DEF LocalsHeld

-----------------------------------------------------------------------------
(* Items that write no label and no jump.                                   *)
Good(x) ==
  /\ x.do \in CodeItems
  /\ x.do = "put" => Plain(x.cmds)
  /\ x.do = "name" => x.op \in {"push", "pop"}

LEMMA Tuple3 ==
  ASSUME NEW a, NEW b, NEW c
  PROVE  Sequence(<<a, b, c>>) /\ Len(<<a, b, c>>) = 3
         /\ <<a, b, c>>[1] = a /\ <<a, b, c>>[2] = b /\ <<a, b, c>>[3] = c
<1>1. <<a, b, c>> \in Seq({a, b, c})
  OBVIOUS
<1> QED
  BY <1>1, SequenceOf

LEMMA Tuple4 ==
  ASSUME NEW a, NEW b, NEW c, NEW d
  PROVE  Sequence(<<a, b, c, d>>) /\ Len(<<a, b, c, d>>) = 4
         /\ <<a, b, c, d>>[1] = a /\ <<a, b, c, d>>[2] = b /\ <<a, b, c, d>>[3] = c /\ <<a, b, c, d>>[4] = d
<1>1. <<a, b, c, d>> \in Seq({a, b, c, d})
  OBVIOUS
<1> QED
  BY <1>1, SequenceOf

LEMMA Tuple6 ==
  ASSUME NEW a, NEW b, NEW c, NEW d, NEW e, NEW f, NEW s, s = <<a, b, c, d, e, f>>
  PROVE  Sequence(s) /\ Len(s) = 6
         /\ s[1] = a /\ s[2] = b /\ s[3] = c /\ s[4] = d /\ s[5] = e /\ s[6] = f
<1>1. <<a, b, c, d, e, f>> \in Seq({a, b, c, d, e, f})
  OBVIOUS
<1> QED
  BY <1>1, SequenceOf

LEMMA Tuple7 ==
  ASSUME NEW a, NEW b, NEW c, NEW d, NEW e, NEW f, NEW g, NEW s, s = <<a, b, c, d, e, f, g>>
  PROVE  Sequence(s) /\ Len(s) = 7
         /\ s[1] = a /\ s[2] = b /\ s[3] = c /\ s[4] = d /\ s[5] = e /\ s[6] = f /\ s[7] = g
<1>1. <<a, b, c, d, e, f, g>> \in Seq({a, b, c, d, e, f, g})
  OBVIOUS
<1> QED
  BY <1>1, SequenceOf

(* Runs of commands                                                         *)
LEMMA PlainRuns ==
  /\ Plain(<<>>)
  /\ \A a : PlainCmd(a) => Plain(<<a>>)
  /\ \A a, b : PlainCmd(a) /\ PlainCmd(b) => Plain(<<a, b>>)
  /\ \A a, b, c : PlainCmd(a) /\ PlainCmd(b) /\ PlainCmd(c) => Plain(<<a, b, c>>)
  /\ \A a, b, c, d : PlainCmd(a) /\ PlainCmd(b) /\ PlainCmd(c) /\ PlainCmd(d) => Plain(<<a, b, c, d>>)
<1>1. Plain(<<>>)
  BY NoItems DEF Plain
<1>2. ASSUME NEW a, PlainCmd(a) PROVE Plain(<<a>>)
  <2>1. Sequence(<<a>>) /\ Len(<<a>>) = 1 /\ <<a>>[1] = a
    BY Tuple1
  <2> HIDE DEF Sequence
  <2>2. \A m \in 1 .. 1 : m = 1
    OBVIOUS
  <2> QED
    BY <1>2, <2>1, <2>2 DEF Plain
<1>3. ASSUME NEW a, NEW b, PlainCmd(a), PlainCmd(b) PROVE Plain(<<a, b>>)
  <2>1. Sequence(<<a, b>>) /\ Len(<<a, b>>) = 2 /\ <<a, b>>[1] = a /\ <<a, b>>[2] = b
    BY Tuple2
  <2>2. \A m \in 1 .. 2 : m = 1 \/ m = 2
    OBVIOUS
  <2> QED
    BY <1>3, <2>1, <2>2 DEF Plain
<1>4. ASSUME NEW a, NEW b, NEW c, PlainCmd(a), PlainCmd(b), PlainCmd(c) PROVE Plain(<<a, b, c>>)
  <2>1. Sequence(<<a, b, c>>) /\ Len(<<a, b, c>>) = 3
        /\ <<a, b, c>>[1] = a /\ <<a, b, c>>[2] = b /\ <<a, b, c>>[3] = c
    BY Tuple3
  <2>2. \A m \in 1 .. 3 : m = 1 \/ m = 2 \/ m = 3
    OBVIOUS
  <2> QED
    BY <1>4, <2>1, <2>2 DEF Plain
<1>5. ASSUME NEW a, NEW b, NEW c, NEW d, PlainCmd(a), PlainCmd(b), PlainCmd(c), PlainCmd(d)
      PROVE  Plain(<<a, b, c, d>>)
  <2>1. Sequence(<<a, b, c, d>>) /\ Len(<<a, b, c, d>>) = 4
        /\ <<a, b, c, d>>[1] = a /\ <<a, b, c, d>>[2] = b /\ <<a, b, c, d>>[3] = c /\ <<a, b, c, d>>[4] = d
    BY Tuple4
  <2>2. \A m \in 1 .. 4 : m = 1 \/ m = 2 \/ m = 3 \/ m = 4
    OBVIOUS
  <2> QED
    BY <1>5, <2>1, <2>2 DEF Plain
<1> QED
  BY <1>1, <1>2, <1>3, <1>4, <1>5

LEMMA PlainConcat ==
  ASSUME NEW s, NEW t, Plain(s), Plain(t)
  PROVE  Plain(s \o t)
<1> DEFINE p == s \o t
<1>1. /\ Sequence(p) /\ Len(p) = Len(s) + Len(t) /\ Len(s) \in Nat /\ Len(t) \in Nat
      /\ \A k \in 1 .. Len(s) : p[k] = s[k]
      /\ \A k \in Len(s) + 1 .. Len(s) + Len(t) : p[k] = t[k - Len(s)]
  BY ConcatFacts, SequenceFacts DEF Plain
<1> HIDE DEF p
<1>2. ASSUME NEW m \in 1 .. Len(p) PROVE PlainCmd(p[m])
  <2>1. CASE m <= Len(s)
    BY <1>1, <2>1 DEF Plain
  <2>2. CASE ~(m <= Len(s))
    <3>1. m \in Len(s) + 1 .. Len(s) + Len(t) /\ m - Len(s) \in 1 .. Len(t)
      BY <1>1, <2>2
    <3> QED
      BY <1>1, <3>1 DEF Plain
  <2> QED
    BY <2>1, <2>2
<1>3. Plain(p)
  BY <1>1, <1>2 DEF Plain
<1> QED
  BY <1>3 DEF p

LEMMA PlainCmds ==
  /\ \A s, i : s # "local" => PlainCmd(Push(s, i)) /\ PlainCmd(Pop(s, i))
  /\ \A fn : PlainCmd(Do(fn))
  /\ \A g, n : PlainCmd(Call(g, n))
  /\ PlainCmd(Return) /\ PlainCmd(stray)
BY DEF PlainCmd, PlainOps, Push, Pop, Do, Call, Return, stray

LEMMA PlainArithmetic ==
  ASSUME NEW op
  PROVE  Plain(write_arithmetic(op))
<1>1. \/ write_arithmetic(op) = <<>>
      \/ \E fn : write_arithmetic(op) = <<Do(fn)>>
      \/ write_arithmetic(op) = <<Call(<<"Math", ".", "multiply">>, 2)>>
      \/ write_arithmetic(op) = <<Call(<<"Math", ".", "divide">>, 2), stray>>
  BY DEF write_arithmetic
<1> QED
  BY <1>1, PlainRuns, PlainCmds

LEMMA PlainString ==
  ASSUME NEW chars \in Seq(Nat)
  PROVE  Plain(write_string(chars))
<1> DEFINE n == Len(chars)
           cmd(i) == IF i % 2 = 1 THEN Push("constant", chars[(i + 1) \div 2])
                                  ELSE Call(<<"String", ".", "appendChar">>, 2)
           tail == [i \in 1 .. 2 * n |-> cmd(i)]
<1>1. n \in Nat
  BY LenProperties
<1>2. \A i : PlainCmd(cmd(i))
  <2> SUFFICES ASSUME NEW i PROVE PlainCmd(cmd(i))
    OBVIOUS
  <2>1. PlainCmd(Push("constant", chars[(i + 1) \div 2])) /\ PlainCmd(Call(<<"String", ".", "appendChar">>, 2))
    BY PlainCmds
  <2> QED
    BY <2>1
<1> HIDE DEF n, cmd
<1> DEFINE S == {cmd(i) : i \in 1 .. 2 * n}
<1>3. 2 * n \in Nat /\ tail \in [1 .. 2 * n -> S]
  BY <1>1
<1>4. tail \in Seq(S)
  <2> HIDE DEF S, tail
  <2>1. \A k \in Nat : [1 .. k -> S] \subseteq Seq(S)
    OBVIOUS
  <2> QED
    BY <1>3, <2>1
<1>5. Sequence(tail) /\ DOMAIN tail = 1 .. Len(tail)
  BY <1>4, SequenceOf, SequenceFacts
<1>6. \A m \in 1 .. Len(tail) : PlainCmd(tail[m])
  <2> SUFFICES ASSUME NEW m \in 1 .. Len(tail) PROVE PlainCmd(tail[m])
    OBVIOUS
  <2>1. m \in 1 .. 2 * n
    BY <1>5
  <2>2. tail[m] = cmd(m)
    BY <2>1
  <2> QED
    BY <1>2, <2>2
<1>7. Plain(tail)
  BY <1>5, <1>6 DEF Plain
<1>8. Plain(<<Push("constant", Len(chars)), Call(<<"String", ".", "new">>, 1)>>)
  BY PlainRuns, PlainCmds
<1>9. write_string(chars) = <<Push("constant", Len(chars)), Call(<<"String", ".", "new">>, 1)>> \o tail
  BY DEF write_string, n, cmd
<1> QED
  BY <1>7, <1>8, <1>9, PlainConcat

LEMMA PlainConstant ==
  ASSUME NEW tok, tok.chars \in Seq(Nat)
  PROVE  Plain(constant(tok))
<1>1. \/ constant(tok) = <<Push("constant", 1), Do("neg")>>
      \/ constant(tok) = <<Push("constant", 0)>>
      \/ constant(tok) = <<Push("pointer", 0)>>
      \/ constant(tok) = write_string(tok.chars)
      \/ constant(tok) = <<Push("constant", tok.num)>>
  BY DEF constant, HasOneOf
<1>2. Plain(write_string(tok.chars))
  BY PlainString
<1> QED
  BY <1>1, <1>2, PlainRuns, PlainCmds

LEMMA GoodItems ==
  /\ \A k, cmds : Plain(cmds) => Good(Put(k, cmds))
  /\ \A x : Good(PushName(x)) /\ Good(PopName(x))
  /\ \A name, parts, n : Good(CallOf(name, parts, n))
  /\ \A name, n : Good(Arguments(name, n))
  /\ \A do \in CodeItems \ {"put", "name"} : Good(Item(do))
BY DEF Good, CodeItems, Put, PushName, PopName, CallOf, Arguments, Item

LEMMA GoodIs ==
  ASSUME NEW items, Sequence(items), \A k \in 1 .. Len(items) : Good(items[k]), NEW f, NEW w
  PROVE  (\A k \in 1 .. Len(items) : InCode(items[k])) /\ Fresh(items, f, w, f, w)
<1>1. ASSUME NEW k \in 1 .. Len(items) PROVE InCode(items[k])
  BY <1>1 DEF Good, InCode, Plain, PlainCmd, WaitCmd, WaitOps
<1>2. ASSUME NEW k \in Nat, NEW m \in Nat, Waits(items, k, m)
      PROVE  ~IsLabel(Cmd(items, k, m)) /\ ~IsJump(Cmd(items, k, m))
  BY <1>2 DEF Waits, Cmd, Good, Plain, PlainCmd, PlainOps, IsLabel, IsJump
<1> QED
  BY <1>1, <1>2 DEF Fresh

-----------------------------------------------------------------------------
(* The items of code stand nowhere but in a body.                           *)
LEMMA InBody ==
  ASSUME IInv, todo # <<>>, todo[1].do \in CodeItems \ {"this", "put"}
  PROVE  AtCode /\ todo[Depth] = Item("members") /\ Depth >= 2
<1>1. Depth \in Nat \ {0}
  BY SequenceFacts DEF IInv, Typed, Depth
<1>2. todo # <<Item("class")>>
  <2>1. <<Item("class")>>[1].do = "class"
    BY Tuple1 DEF Item
  <2> QED
    BY <2>1 DEF CodeItems
<1>3. todo[Depth] = Item("members") /\ (AtMembers \/ AtHead \/ AtCode)
  BY <1>2 DEF IInv, Layout
<1>4. Item("members").do = "members"
  BY DEF Item
<1>5. ~AtMembers
  BY <1>1, <1>3, <1>4 DEF AtMembers, MembersOf, Depth, CodeItems
<1>6. ~AtHead
  <2>1. SUFFICES ASSUME AtHead PROVE FALSE
    OBVIOUS
  <2>2. CASE Depth = 2
    <3>1. todo[1].do = "body"
      BY <2>1, <2>2 DEF AtHead, HeadOf, Depth
    <3> QED
      BY <3>1 DEF CodeItems
  <2>3. CASE Depth # 2
    <3>1. 1 \in 1 .. Depth - 2
      <4>1. Depth >= 2
        BY <2>1 DEF AtHead, HeadOf, Depth
      <4> QED
        BY <1>1, <2>3, <4>1
    <3>2. InHead(todo[1])
      BY <2>1, <3>1 DEF AtHead, HeadOf, Depth
    <3>3. todo[1].do \in {"this", "names", "put"}
      BY <3>2 DEF InHead
    <3>4. todo[1].do = "names"
      BY <3>3
    <3> QED
      BY <3>4 DEF CodeItems
  <2> QED
    BY <2>2, <2>3
<1>7. Depth # 1
  BY <1>3, <1>4 DEF CodeItems
<1> QED
  BY <1>1, <1>3, <1>5, <1>6, <1>7

(* A rule of a body puts items in the place of its own.                     *)
LEMMA CodeStep ==
  ASSUME IInv, AtCode, todo # <<>>, todo[Depth] = Item("members"), todo[1].do \in CodeItems \ {"put"},
         NEW items, Sequence(items), \A k \in 1 .. Len(items) : InCode(items[k]), Continue(items),
         if_label_index' \in Nat, if_label_index <= if_label_index',
         while_label_index' \in Nat, while_label_index <= while_label_index',
         Fresh(items, if_label_index, while_label_index, if_label_index', while_label_index'),
         UNCHANGED <<source, out, failed>>, Tabled', index'["var"] = index["var"]
  PROVE  IInv'
<1> DEFINE t == todo
           u == todo'
<1>1. u = items \o Tail(t) /\ Sequence(t) /\ t # <<>>
  BY DEF Continue, IInv, Typed
<1> HIDE DEF t, u
<1>2. /\ Sequence(u) /\ Len(u) = Len(items) + Len(t) - 1
      /\ \A k \in 1 .. Len(items) : u[k] = items[k]
      /\ \A k \in Len(items) + 1 .. Len(u) : u[k] = t[k + 1 - Len(items)]
      /\ Len(t) \in Nat \ {0} /\ Len(items) \in Nat
  <2>1. Replaced(t, items, u)
    BY <1>1, Continued
  <2> QED
    BY <2>1 DEF Replaced
<1>3. /\ if_label_index \in Nat /\ while_label_index \in Nat /\ failed = FALSE
      /\ LabelsApart(out, t, if_label_index, while_label_index) /\ JumpsKept(out, t)
      /\ t[1].do # "put"
  BY DEF IInv, Typed, t
<1>4. LabelsApart(out, u, if_label_index', while_label_index')
  BY <1>1, <1>3, CallApart
<1>5. JumpsKept(out, u)
  BY <1>1, <1>3, CallKeeps
<1>6. source' = source /\ out' = out /\ failed' = FALSE
  BY <1>3
<1>7. Typed'
  <2>1. Sequence(todo')
    BY <1>2 DEF u
  <2> QED
    BY <1>6, <2>1 DEF IInv, Typed
<1>8. Item("members").do = "members"
  BY DEF Item
<1>9. Len(t) >= 2 /\ t[Len(t)] = Item("members")
  BY <1>2, <1>8 DEF t, Depth, CodeItems
<1>10. u[Len(u)] = Item("members") /\ Len(u) >= 1
  <2>1. Len(u) \in Len(items) + 1 .. Len(u) /\ Len(u) + 1 - Len(items) = Len(t)
    BY <1>2, <1>9
  <2> QED
    BY <1>2, <1>9, <2>1
<1>11. \A k \in 1 .. Len(t) - 1 : InCode(t[k])
  BY DEF AtCode, Depth, t
<1>12. ASSUME NEW k \in 1 .. Len(u) - 1 PROVE InCode(u[k])
  <2>1. CASE k <= Len(items)
    BY <1>2, <2>1
  <2>2. CASE ~(k <= Len(items))
    <3>1. k \in Len(items) + 1 .. Len(u) /\ k + 1 - Len(items) \in 1 .. Len(t) - 1
      BY <1>2, <2>2
    <3> QED
      BY <1>2, <1>11, <3>1
  <2> QED
    BY <2>1, <2>2
<1>13. out # <<>> /\ out[StartIn(out, Len(out))].locals = index["var"]
  BY DEF AtCode
<1>14. Layout'
  BY <1>6, <1>10, <1>12, <1>13 DEF Layout, AtCode, Depth, u
<1>15. LocalsHeld(out)
  BY DEF IInv
<1> QED
  BY <1>4, <1>5, <1>6, <1>7, <1>14, <1>15 DEF IInv, u

LEMMA SameTables ==
  ASSUME IInv, UNCHANGED tables
  PROVE  Tabled' /\ index'["var"] = index["var"]
BY DEF tables, IInv, Tabled

LEMMA GoodStep ==
  ASSUME IInv, todo # <<>>, todo[1].do \in CodeItems \ {"this", "put"},
         NEW items, Sequence(items), \A k \in 1 .. Len(items) : Good(items[k]), NEW n, Code(n, items),
         UNCHANGED labels
  PROVE  IInv'
<1>1. AtCode /\ todo[Depth] = Item("members")
  BY InBody
<1>2. if_label_index' = if_label_index /\ while_label_index' = while_label_index
      /\ if_label_index \in Nat /\ while_label_index \in Nat
  BY DEF labels, IInv, Typed
<1>3. (\A k \in 1 .. Len(items) : InCode(items[k]))
      /\ Fresh(items, if_label_index, while_label_index, if_label_index, while_label_index)
  BY GoodIs
<1> QED
  BY <1>1, <1>2, <1>3, CodeStep, SameTables DEF Code

-----------------------------------------------------------------------------
(* Rules of a body that write no label.                                     *)
GoodAll(items) == Sequence(items) /\ \A k \in 1 .. Len(items) : Good(items[k])

LEMMA GoodTuples ==
  /\ GoodAll(<<>>)
  /\ \A a : Good(a) => GoodAll(<<a>>)
  /\ \A a, b : Good(a) /\ Good(b) => GoodAll(<<a, b>>)
  /\ \A a, b, c : Good(a) /\ Good(b) /\ Good(c) => GoodAll(<<a, b, c>>)
  /\ \A a, b, c, d : Good(a) /\ Good(b) /\ Good(c) /\ Good(d) => GoodAll(<<a, b, c, d>>)
<1>1. GoodAll(<<>>)
  BY NoItems DEF GoodAll
<1>2. ASSUME NEW a, Good(a) PROVE GoodAll(<<a>>)
  <2>1. \A m \in 1 .. 1 : m = 1
    OBVIOUS
  <2> QED
    BY <1>2, <2>1, Tuple1 DEF GoodAll
<1>3. ASSUME NEW a, NEW b, Good(a), Good(b) PROVE GoodAll(<<a, b>>)
  <2>1. \A m \in 1 .. 2 : m = 1 \/ m = 2
    OBVIOUS
  <2> QED
    BY <1>3, <2>1, Tuple2 DEF GoodAll
<1>4. ASSUME NEW a, NEW b, NEW c, Good(a), Good(b), Good(c) PROVE GoodAll(<<a, b, c>>)
  <2>1. \A m \in 1 .. 3 : m = 1 \/ m = 2 \/ m = 3
    OBVIOUS
  <2> QED
    BY <1>4, <2>1, Tuple3 DEF GoodAll
<1>5. ASSUME NEW a, NEW b, NEW c, NEW d, Good(a), Good(b), Good(c), Good(d) PROVE GoodAll(<<a, b, c, d>>)
  <2>1. \A m \in 1 .. 4 : m = 1 \/ m = 2 \/ m = 3 \/ m = 4
    OBVIOUS
  <2> QED
    BY <1>5, <2>1, Tuple4 DEF GoodAll
<1> QED
  BY <1>1, <1>2, <1>3, <1>4, <1>5

LEMMA GoodConcat ==
  ASSUME NEW s, NEW t, GoodAll(s), GoodAll(t)
  PROVE  GoodAll(s \o t)
<1> DEFINE p == s \o t
<1>1. /\ Sequence(p) /\ Len(p) = Len(s) + Len(t) /\ Len(s) \in Nat /\ Len(t) \in Nat
      /\ \A k \in 1 .. Len(s) : p[k] = s[k]
      /\ \A k \in Len(s) + 1 .. Len(s) + Len(t) : p[k] = t[k - Len(s)]
  BY ConcatFacts, SequenceFacts DEF GoodAll
<1> HIDE DEF p
<1>2. ASSUME NEW m \in 1 .. Len(p) PROVE Good(p[m])
  <2>1. CASE m <= Len(s)
    BY <1>1, <2>1 DEF GoodAll
  <2>2. CASE ~(m <= Len(s))
    <3>1. m \in Len(s) + 1 .. Len(s) + Len(t) /\ m - Len(s) \in 1 .. Len(t)
      BY <1>1, <2>2
    <3> QED
      BY <1>1, <3>1 DEF GoodAll
  <2> QED
    BY <2>1, <2>2
<1>3. GoodAll(p)
  BY <1>1, <1>2 DEF GoodAll
<1> QED
  BY <1>3 DEF p

(* The form the rules below have.                                           *)
LEMMA RuleStep ==
  ASSUME IInv, todo # <<>>, todo[1].do \in CodeItems \ {"this", "put"},
         NEW items, GoodAll(items), NEW n, Code(n, items), UNCHANGED labels
  PROVE  IInv'
BY GoodStep DEF GoodAll

LEMMA NowIs ==
  ASSUME IInv, NEW do, Now(do)
  PROVE  todo # <<>> /\ todo[1].do = do /\ This = todo[1] /\ Tok.chars \in Seq(Nat)
<1>1. Sequence(todo) /\ source \in Sources /\ at \in DOMAIN source.tokens
  BY DEF IInv, Typed, Now
<1>2. Head(todo) = todo[1]
  <2>1. todo \in Seq(Range(todo)) /\ todo # <<>>
    BY <1>1 DEF Sequence, Now
  <2> QED
    BY <2>1, HeadTailProperties
<1> QED
  BY <1>1, <1>2, SourcesAssumption DEF Now, This, Tok

LEMMA ExpressionRules ==
  ASSUME IInv, compile_expression \/ compile_ops \/ compile_expression_list \/ compile_else
  PROVE  IInv'
<1>1. CASE compile_expression
  <2>1. GoodAll(<<Item("term"), Item("ops")>>)
    BY GoodItems, GoodTuples DEF CodeItems
  <2>2. todo # <<>> /\ todo[1].do = "expression"
    BY <1>1, NowIs DEF compile_expression
  <2> QED
    BY <1>1, <2>1, <2>2, RuleStep DEF compile_expression, CodeItems
<1>2. CASE compile_ops
  <2>1. todo # <<>> /\ todo[1].do = "ops" /\ This = todo[1]
    BY <1>2, NowIs DEF compile_ops
  <2>2. Good(This)
    BY <2>1 DEF Good, CodeItems
  <2>3. GoodAll(<<Item("term"), Put(0, write_arithmetic(Tok.val)), This>>)
    <3>1. Good(Put(0, write_arithmetic(Tok.val)))
      BY PlainArithmetic, GoodItems
    <3> QED
      BY <2>2, <3>1, GoodItems, GoodTuples DEF CodeItems
  <2>4. CASE HasOneOf(Tok, ops)
    BY <1>2, <2>1, <2>3, <2>4, RuleStep DEF compile_ops, CodeItems
  <2>5. CASE ~HasOneOf(Tok, ops)
    BY <1>2, <2>1, <2>5, RuleStep, GoodTuples DEF compile_ops, CodeItems
  <2> QED
    BY <2>4, <2>5
<1>3. CASE compile_expression_list
  <2>1. todo # <<>> /\ todo[1].do = "arguments"
    BY <1>3, NowIs DEF compile_expression_list
  <2>2. GoodAll(<<Item("expression"), Arguments(This.name, This.args + 1)>>)
    BY GoodItems, GoodTuples DEF CodeItems
  <2>3. GoodAll(<<Put(0, <<Call(This.name, This.args)>>)>>)
    <3>1. Good(Put(0, <<Call(This.name, This.args)>>))
      BY PlainRuns, PlainCmds, GoodItems
    <3> QED
      BY <3>1, GoodTuples
  <2>4. CASE Has(Tok, ",")
    BY <1>3, <2>1, <2>2, <2>4, RuleStep DEF compile_expression_list, CodeItems
  <2>5. CASE ~Has(Tok, ",")
    BY <1>3, <2>1, <2>3, <2>5, RuleStep DEF compile_expression_list, CodeItems
  <2> QED
    BY <2>4, <2>5
<1>4. CASE compile_else
  <2>1. todo # <<>> /\ todo[1].do = "else"
    BY <1>4, NowIs DEF compile_else
  <2>2. GoodAll(<<Item("statements"), Put(1, <<>>)>>)
    BY GoodItems, GoodTuples, PlainRuns DEF CodeItems
  <2>4. CASE Has(Tok, "else")
    BY <1>4, <2>1, <2>2, <2>4, RuleStep DEF compile_else, CodeItems
  <2>5. CASE ~Has(Tok, "else")
    BY <1>4, <2>1, <2>5, RuleStep, GoodTuples DEF compile_else, CodeItems
  <2> QED
    BY <2>4, <2>5
<1> QED
  BY <1>1, <1>2, <1>3, <1>4

LEMMA TermRule ==
  ASSUME IInv, compile_term
  PROVE  IInv'
<1>1. todo # <<>> /\ todo[1].do = "term" /\ Tok.chars \in Seq(Nat) /\ UNCHANGED labels
  BY NowIs DEF compile_term
<1>2. todo[1].do \in CodeItems \ {"this", "put"}
  BY <1>1 DEF CodeItems
<1>3. Good(Item("expression")) /\ Good(Item("term")) /\ Good(Put(1, <<>>))
  BY GoodItems, PlainRuns DEF CodeItems
<1>4. CASE Code(2, <<PushName(Tok.val), Item("expression"),
                     Put(1, write_arithmetic("+") \o <<Pop("pointer", 1), Push("that", 0)>>)>>)
  <2>1. Plain(write_arithmetic("+") \o <<Pop("pointer", 1), Push("that", 0)>>)
    <3>1. PlainCmd(Pop("pointer", 1)) /\ PlainCmd(Push("that", 0))
      BY PlainCmds
    <3> QED
      BY <3>1, PlainArithmetic, PlainConcat, PlainRuns
  <2>2. Good(PushName(Tok.val))
        /\ Good(Put(1, write_arithmetic("+") \o <<Pop("pointer", 1), Push("that", 0)>>))
    BY <2>1, GoodItems
  <2> HIDE DEF Code
  <2>3. GoodAll(<<PushName(Tok.val), Item("expression"),
                  Put(1, write_arithmetic("+") \o <<Pop("pointer", 1), Push("that", 0)>>)>>)
    BY <1>3, <2>2, GoodTuples
  <2> QED
    BY <1>1, <1>2, <1>4, <2>3, RuleStep
<1>5. CASE Code(0, <<CallOf(<<>>, 0, 0)>>)
  <2>1. GoodAll(<<CallOf(<<>>, 0, 0)>>)
    BY GoodItems, GoodTuples
  <2> QED
    BY <1>1, <1>2, <1>5, <2>1, RuleStep
<1>6. CASE Code(1, <<PushName(Tok.val)>>)
  <2>1. GoodAll(<<PushName(Tok.val)>>)
    BY GoodItems, GoodTuples
  <2> QED
    BY <1>1, <1>2, <1>6, <2>1, RuleStep
<1>7. CASE Code(1, <<Item("expression"), Put(1, <<>>)>>)
  <2>1. GoodAll(<<Item("expression"), Put(1, <<>>)>>)
    BY <1>3, GoodTuples
  <2> QED
    BY <1>1, <1>2, <1>7, <2>1, RuleStep
<1>8. CASE Code(1, <<Item("term"), Put(0, write_arithmetic(IF Has(Tok, "-") THEN "neg" ELSE "~"))>>)
  <2>1. Good(Put(0, write_arithmetic(IF Has(Tok, "-") THEN "neg" ELSE "~")))
    BY PlainArithmetic, GoodItems
  <2>2. GoodAll(<<Item("term"), Put(0, write_arithmetic(IF Has(Tok, "-") THEN "neg" ELSE "~"))>>)
    BY <1>3, <2>1, GoodTuples
  <2> QED
    BY <1>1, <1>2, <1>8, <2>2, RuleStep
<1>9. CASE Code(0, <<Put(1, constant(Tok))>>)
  <2>1. GoodAll(<<Put(1, constant(Tok))>>)
    <3>1. Plain(constant(Tok))
      BY <1>1, PlainConstant
    <3> QED
      BY <3>1, GoodItems, GoodTuples
  <2> QED
    BY <1>1, <1>2, <1>9, <2>1, RuleStep
<1> QED
  BY <1>4, <1>5, <1>6, <1>7, <1>8, <1>9 DEF compile_term

LEMMA CallRule ==
  ASSUME IInv, compile_subroutine_call
  PROVE  IInv'
<1>1. todo # <<>> /\ todo[1].do = "call" /\ UNCHANGED labels
  BY NowIs DEF compile_subroutine_call
<1>2. todo[1].do \in CodeItems \ {"this", "put"}
  BY <1>1 DEF CodeItems
<1>3. CASE ~Has(Tok, "(")
  <2> DEFINE pushed == <<PushName(Tok.val), CallOf(Append(This.name, Entry(Tok.val).type), This.parts + 1, This.args + 1)>>
             named  == <<CallOf(Append(This.name, Tok.val), This.parts + 1, This.args)>>
  <2>1. Code(1, pushed) \/ Code(1, named)
    BY <1>3 DEF compile_subroutine_call
  <2>2. GoodAll(pushed) /\ GoodAll(named)
    BY GoodItems, GoodTuples
  <2> HIDE DEF pushed, named
  <2> QED
    BY <1>1, <1>2, <2>1, <2>2, RuleStep
<1>4. CASE Has(Tok, "(")
  <2> DEFINE own  == This.parts = 1
             name == IF own THEN <<class_name, "." >> \o This.name ELSE This.name
             n    == IF own THEN This.args + 1 ELSE This.args
             object == IF own THEN <<Put(0, <<Push("pointer", 0)>>)>> ELSE <<>>
             rest   == IF Has(Peek(1), ")") THEN <<Put(0, <<Call(name, n)>>)>>
                       ELSE <<Item("expression"), Arguments(name, n + 1)>>
             closing == <<Put(1, <<>>)>>
  <2>1. Code(1, object \o rest \o closing)
    BY <1>4 DEF compile_subroutine_call
  <2> HIDE DEF own, name, n
  <2>2. GoodAll(object)
    <3>1. Good(Put(0, <<Push("pointer", 0)>>))
      BY PlainRuns, PlainCmds, GoodItems
    <3> QED
      BY <3>1, GoodTuples
  <2>3. GoodAll(rest)
    <3>1. Good(Put(0, <<Call(name, n)>>))
      BY PlainRuns, PlainCmds, GoodItems
    <3>2. Good(Item("expression")) /\ Good(Arguments(name, n + 1))
      BY GoodItems DEF CodeItems
    <3> QED
      BY <3>1, <3>2, GoodTuples
  <2>4. GoodAll(closing)
    BY PlainRuns, GoodItems, GoodTuples
  <2> HIDE DEF object, rest, closing
  <2>5. GoodAll(object \o rest \o closing)
    BY <2>2, <2>3, <2>4, GoodConcat
  <2> QED
    BY <1>1, <1>2, <2>1, <2>5, RuleStep
<1> QED
  BY <1>3, <1>4

-----------------------------------------------------------------------------
(* Statements                                                               *)
LEMMA StatementNow ==
  ASSUME IInv, Now("statements")
  PROVE  todo # <<>> /\ todo[1].do \in CodeItems \ {"this", "put"} /\ This = todo[1] /\ Good(This)
<1>1. todo # <<>> /\ todo[1].do = "statements" /\ This = todo[1]
  BY NowIs
<1> QED
  BY <1>1 DEF Good, CodeItems

LEMMA LetRule ==
  ASSUME IInv, Now("statements"), compile_let_statement
  PROVE  IInv'
<1>1. todo # <<>> /\ todo[1].do \in CodeItems \ {"this", "put"} /\ Good(This)
  BY StatementNow
<1> DEFINE x == Peek(1).val
           store == <<Pop("temp", 1), Pop("pointer", 1), Push("temp", 1), Pop("that", 0)>>
           element == <<Item("expression"), Put(1, <<>>), PushName(x), Put(1, write_arithmetic("+")),
                        Item("expression"), Put(1, store), This>>
           whole == <<Item("expression"), Put(1, <<>>), PopName(x), This>>
<1>2. (Code(3, element) \/ Code(3, whole)) /\ UNCHANGED labels
  BY DEF compile_let_statement
<1>3. Plain(store)
  BY PlainRuns, PlainCmds
<1> HIDE DEF store, x
<1>4. /\ Good(Item("expression")) /\ Good(Put(1, <<>>)) /\ Good(PushName(x)) /\ Good(PopName(x))
      /\ Good(Put(1, write_arithmetic("+"))) /\ Good(Put(1, store))
  BY <1>3, GoodItems, PlainRuns, PlainArithmetic DEF CodeItems
<1>5. GoodAll(whole)
  BY <1>1, <1>4, GoodTuples
<1>6. GoodAll(element)
  <2> DEFINE a == Item("expression")
             b == Put(1, <<>>)
             c == PushName(x)
             d == Put(1, write_arithmetic("+"))
             f == Put(1, store)
  <2>1. Good(a) /\ Good(b) /\ Good(c) /\ Good(d) /\ Good(f) /\ element = <<a, b, c, d, a, f, This>>
    BY <1>4
  <2> HIDE DEF a, b, c, d, f, element
  <2>2. /\ Sequence(element) /\ Len(element) = 7
        /\ element[1] = a /\ element[2] = b /\ element[3] = c /\ element[4] = d
        /\ element[5] = a /\ element[6] = f /\ element[7] = This
    BY <2>1, Tuple7
  <2>3. \A k \in 1 .. 7 : k = 1 \/ k = 2 \/ k = 3 \/ k = 4 \/ k = 5 \/ k = 6 \/ k = 7
    OBVIOUS
  <2> QED
    BY <1>1, <2>1, <2>2, <2>3 DEF GoodAll
<1> HIDE DEF element, whole
<1> QED
  BY <1>1, <1>2, <1>5, <1>6, RuleStep

LEMMA ReturnDoRules ==
  ASSUME IInv, Now("statements"), compile_return_statement \/ compile_do_statement
  PROVE  IInv'
<1>1. todo # <<>> /\ todo[1].do \in CodeItems \ {"this", "put"} /\ Good(This)
  BY StatementNow
<1>2. CASE compile_return_statement
  <2> DEFINE value == IF Has(Peek(1), ";") THEN Put(0, <<Push("constant", 0)>>) ELSE Item("expression")
             items == <<value, Put(1, <<Return>>), This>>
  <2>1. Code(1, items) /\ UNCHANGED labels
    BY <1>2 DEF compile_return_statement
  <2>2. Good(Put(0, <<Push("constant", 0)>>)) /\ Good(Item("expression")) /\ Good(Put(1, <<Return>>))
    BY GoodItems, PlainRuns, PlainCmds DEF CodeItems
  <2>3. Good(value)
    BY <2>2
  <2> HIDE DEF value
  <2>4. GoodAll(items)
    BY <1>1, <2>2, <2>3, GoodTuples
  <2> HIDE DEF items
  <2> QED
    BY <1>1, <2>1, <2>4, RuleStep
<1>3. CASE compile_do_statement
  <2> DEFINE items == <<CallOf(<<>>, 0, 0), Put(1, <<Pop("temp", 0)>>), This>>
  <2>1. Code(1, items) /\ UNCHANGED labels
    BY <1>3 DEF compile_do_statement
  <2>2. Good(Put(1, <<Pop("temp", 0)>>)) /\ Good(CallOf(<<>>, 0, 0))
    BY GoodItems, PlainRuns, PlainCmds
  <2>3. GoodAll(items)
    BY <1>1, <2>2, GoodTuples
  <2> HIDE DEF items
  <2> QED
    BY <1>1, <2>1, <2>3, RuleStep
<1> QED
  BY <1>2, <1>3

(* Labels and jumps of a while, and of an if.                               *)
LEMMA WhileRule ==
  ASSUME IInv, Now("statements"), compile_while_statement
  PROVE  IInv'
<1> DEFINE f == if_label_index
           w == while_label_index
           start == <<"WIHLE_EXP", w>>
           end   == <<"WHILE_END", w>>
           c1 == <<Label(start)>>
           c3 == write_arithmetic("~") \o <<If(end)>>
           c5 == <<Goto(start), Label(end)>>
           items == <<Put(1, c1), Item("expression"), Put(2, c3), Item("statements"), Put(1, c5), This>>
<1>1. /\ todo # <<>> /\ todo[1].do \in CodeItems \ {"this", "put"} /\ Good(This)
      /\ todo[1].do = "statements" /\ This = todo[1]
  BY StatementNow, NowIs
<1>2. Code(1, items) /\ while_label_index' = w + 1 /\ if_label_index' = f
  BY DEF compile_while_statement
<1>3. f \in Nat /\ w \in Nat
  BY DEF IInv, Typed
<1>4. /\ Sequence(items) /\ Len(items) = 6
      /\ items[1] = Put(1, c1) /\ items[2] = Item("expression") /\ items[3] = Put(2, c3)
      /\ items[4] = Item("statements") /\ items[5] = Put(1, c5) /\ items[6] = This
  <2> HIDE DEF items
  <2>1. items = <<Put(1, c1), Item("expression"), Put(2, c3), Item("statements"), Put(1, c5), This>>
    BY DEF items
  <2> HIDE DEF c1, c3, c5
  <2> QED
    BY <2>1, Tuple6
<1>5. Sequence(c1) /\ Len(c1) = 1 /\ c1[1] = Label(start)
  BY Tuple1
<1>6. Sequence(c5) /\ Len(c5) = 2 /\ c5[1] = Goto(start) /\ c5[2] = Label(end)
  BY Tuple2
<1>7. Sequence(c3) /\ \A m \in 1 .. Len(c3) : PlainCmd(c3[m]) \/ c3[m] = If(end)
  <2> DEFINE s == write_arithmetic("~")
             r == <<If(end)>>
  <2>1. Plain(s) /\ Sequence(r) /\ Len(r) = 1 /\ r[1] = If(end)
    BY PlainArithmetic, Tuple1
  <2> HIDE DEF s, r
  <2>2. c3 = s \o r
    BY DEF s, r
  <2> HIDE DEF c3
  <2>3. /\ Sequence(c3) /\ Len(c3) = Len(s) + 1 /\ Len(s) \in Nat
        /\ \A k \in 1 .. Len(s) : c3[k] = s[k]
        /\ \A k \in Len(s) + 1 .. Len(s) + 1 : c3[k] = r[k - Len(s)]
    <3>1. Sequence(s) /\ Len(s) \in Nat
      BY <2>1, SequenceFacts DEF Plain
    <3>2. /\ Sequence(s \o r) /\ Len(s \o r) = Len(s) + Len(r)
          /\ \A k \in 1 .. Len(s) : (s \o r)[k] = s[k]
          /\ \A k \in Len(s) + 1 .. Len(s) + Len(r) : (s \o r)[k] = r[k - Len(s)]
      BY <2>1, <3>1, ConcatFacts
    <3> QED
      BY <2>1, <2>2, <3>1, <3>2
  <2>4. ASSUME NEW m \in 1 .. Len(c3) PROVE PlainCmd(c3[m]) \/ c3[m] = If(end)
    <3>1. CASE m <= Len(s)
      BY <2>1, <2>3, <3>1 DEF Plain
    <3>2. CASE ~(m <= Len(s))
      <4>1. m \in Len(s) + 1 .. Len(s) + 1 /\ m - Len(s) = 1
        BY <2>3, <3>2
      <4> QED
        BY <2>1, <2>3, <4>1
    <3> QED
      BY <3>1, <3>2
  <2> QED
    BY <2>3, <2>4
<1> HIDE DEF items, c1, c3, c5
<1>8. \A k \in 1 .. 6 : k = 1 \/ k = 2 \/ k = 3 \/ k = 4 \/ k = 5 \/ k = 6
  OBVIOUS
<1>9. ASSUME NEW k \in 1 .. Len(items) PROVE InCode(items[k])
  <2>1. InCode(Put(1, c1)) /\ InCode(Put(1, c5)) /\ InCode(Put(2, c3))
    <3>1. \A l : WaitCmd(Label(l)) /\ WaitCmd(Goto(l)) /\ WaitCmd(If(l))
      BY DEF WaitCmd, WaitOps, Label, Goto, If
    <3>2. \A m \in 1 .. 1 : m = 1
      OBVIOUS
    <3>3. \A m \in 1 .. 2 : m = 1 \/ m = 2
      OBVIOUS
    <3>4. \A c : PlainCmd(c) => WaitCmd(c)
      BY DEF PlainCmd, WaitCmd, WaitOps
    <3>5. /\ \A m \in 1 .. Len(c1) : WaitCmd(c1[m])
          /\ \A m \in 1 .. Len(c5) : WaitCmd(c5[m])
          /\ \A m \in 1 .. Len(c3) : WaitCmd(c3[m])
      BY <1>5, <1>6, <1>7, <3>1, <3>2, <3>3, <3>4
    <3> HIDE DEF start, end
    <3> QED
      BY <1>5, <1>6, <1>7, <3>5 DEF InCode, CodeItems, Put
  <2>2. InCode(Item("expression")) /\ InCode(Item("statements")) /\ InCode(This)
    BY <1>1 DEF InCode, Item, CodeItems
  <2> QED
    BY <1>4, <1>8, <2>1, <2>2
<1>10. ASSUME NEW k \in Nat, NEW m \in Nat, Waits(items, k, m)
       PROVE  \/ k = 1 /\ m = 1 /\ Cmd(items, k, m) = Label(start)
              \/ k = 3 /\ (PlainCmd(Cmd(items, k, m)) \/ Cmd(items, k, m) = If(end))
              \/ k = 5 /\ m = 1 /\ Cmd(items, k, m) = Goto(start)
              \/ k = 5 /\ m = 2 /\ Cmd(items, k, m) = Label(end)
  <2>1. k \in 1 .. 6 /\ items[k].do = "put" /\ m \in 1 .. Len(items[k].cmds) /\ Cmd(items, k, m) = items[k].cmds[m]
    BY <1>4, <1>10 DEF Waits, Cmd
  <2>2. Item("expression").do # "put" /\ Item("statements").do # "put" /\ This.do # "put"
    BY <1>1 DEF Item
  <2>3. k = 1 \/ k = 3 \/ k = 5
    BY <1>4, <1>8, <2>1, <2>2
  <2>4. \A n, c : Put(n, c).cmds = c
    BY DEF Put
  <2>5. CASE k = 1
    BY <1>4, <1>5, <2>1, <2>4, <2>5
  <2>6. CASE k = 3
    BY <1>4, <1>7, <2>1, <2>4, <2>6
  <2>7. CASE k = 5
    BY <1>4, <1>6, <2>1, <2>4, <2>7
  <2> QED
    BY <2>3, <2>5, <2>6, <2>7
<1>11. Waits(items, 1, 1) /\ Cmd(items, 1, 1) = Label(start) /\ Waits(items, 5, 2) /\ Cmd(items, 5, 2) = Label(end)
  <2>1. \A n, c : Put(n, c).do = "put" /\ Put(n, c).cmds = c
    BY DEF Put
  <2> QED
    BY <1>4, <1>5, <1>6, <2>1 DEF Waits, Cmd
<1>12. Waiting(items, start) /\ Waiting(items, end)
  <2>1. 1 \in Nat /\ 2 \in Nat /\ 5 \in Nat
    OBVIOUS
  <2> HIDE DEF start, end
  <2> QED
    BY <1>11, <2>1 DEF Waiting
<1>13. /\ start # end
       /\ Numbered(start, f, w + 1) /\ Numbered(end, f, w + 1)
       /\ ~Numbered(start, f, w) /\ ~Numbered(end, f, w)
  BY <1>3 DEF Numbered
<1> HIDE DEF start, end, f, w
<1>14. ASSUME NEW k \in Nat, NEW m \in Nat, Waits(items, k, m), IsLabel(Cmd(items, k, m))
       PROVE  \/ k = 1 /\ m = 1 /\ Cmd(items, k, m).to = start
              \/ k = 5 /\ m = 2 /\ Cmd(items, k, m).to = end
  <2>1. ~IsLabel(If(end)) /\ ~IsLabel(Goto(start)) /\ ~PlainCmd(Cmd(items, k, m))
        /\ Label(start).to = start /\ Label(end).to = end
    BY <1>14 DEF IsLabel, If, Goto, Label, PlainCmd, PlainOps
  <2> QED
    BY <1>10, <1>14, <2>1
<1>15. ASSUME NEW k \in Nat, NEW m \in Nat, Waits(items, k, m), IsJump(Cmd(items, k, m))
       PROVE  Waiting(items, Cmd(items, k, m).to)
  <2>1. ~IsJump(Label(end)) /\ ~IsJump(Label(start)) /\ ~PlainCmd(Cmd(items, k, m))
        /\ If(end).to = end /\ Goto(start).to = start
    BY <1>15 DEF IsJump, If, Goto, Label, PlainCmd, PlainOps
  <2> QED
    BY <1>10, <1>12, <1>15, <2>1
<1>16. Fresh(items, f, w, f, w + 1)
  BY <1>13, <1>14, <1>15 DEF Fresh
<1>17. /\ if_label_index' \in Nat /\ if_label_index <= if_label_index'
       /\ while_label_index' \in Nat /\ while_label_index <= while_label_index'
       /\ Fresh(items, if_label_index, while_label_index, if_label_index', while_label_index')
  BY <1>2, <1>3, <1>16 DEF f, w
<1>18. AtCode /\ todo[Depth] = Item("members")
  BY <1>1, InBody
<1>19. Continue(items) /\ UNCHANGED <<source, out, failed>> /\ Tabled' /\ index'["var"] = index["var"]
  BY <1>2, SameTables DEF Code
<1> QED
  BY <1>1, <1>4, <1>9, <1>17, <1>18, <1>19, CodeStep

LEMMA IfRule ==
  ASSUME IInv, Now("statements"), compile_if_statement
  PROVE  IInv'
<1> DEFINE f == if_label_index
           w == while_label_index
           yes == <<"IF_TRUE", f>>
           no  == <<"IF_FALSE", f>>
           end == <<"IF_END", f>>
           c2 == <<If(yes), Goto(no), Label(yes)>>
           c4 == <<Goto(end), Label(no)>>
           c6 == <<Label(end)>>
           items == <<Item("expression"), Put(2, c2), Item("statements"), Put(1, c4), Item("else"),
                      Put(0, c6), This>>
<1>1. /\ todo # <<>> /\ todo[1].do \in CodeItems \ {"this", "put"} /\ Good(This)
      /\ todo[1].do = "statements" /\ This = todo[1]
  BY StatementNow, NowIs
<1>2. Code(2, items) /\ if_label_index' = f + 1 /\ while_label_index' = w
  BY DEF compile_if_statement
<1>3. f \in Nat /\ w \in Nat
  BY DEF IInv, Typed
<1>4. /\ Sequence(items) /\ Len(items) = 7
      /\ items[1] = Item("expression") /\ items[2] = Put(2, c2) /\ items[3] = Item("statements")
      /\ items[4] = Put(1, c4) /\ items[5] = Item("else") /\ items[6] = Put(0, c6) /\ items[7] = This
  <2> HIDE DEF items
  <2>1. items = <<Item("expression"), Put(2, c2), Item("statements"), Put(1, c4), Item("else"), Put(0, c6), This>>
    BY DEF items
  <2> HIDE DEF c2, c4, c6
  <2> QED
    BY <2>1, Tuple7
<1>5. Sequence(c2) /\ Len(c2) = 3 /\ c2[1] = If(yes) /\ c2[2] = Goto(no) /\ c2[3] = Label(yes)
  BY Tuple3
<1>6. Sequence(c4) /\ Len(c4) = 2 /\ c4[1] = Goto(end) /\ c4[2] = Label(no)
  BY Tuple2
<1>7. Sequence(c6) /\ Len(c6) = 1 /\ c6[1] = Label(end)
  BY Tuple1
<1> HIDE DEF items, c2, c4, c6
<1>8. \A k \in 1 .. 7 : k = 1 \/ k = 2 \/ k = 3 \/ k = 4 \/ k = 5 \/ k = 6 \/ k = 7
  OBVIOUS
<1>9. ASSUME NEW k \in 1 .. Len(items) PROVE InCode(items[k])
  <2>1. InCode(Put(2, c2)) /\ InCode(Put(1, c4)) /\ InCode(Put(0, c6))
    <3>1. \A l : WaitCmd(Label(l)) /\ WaitCmd(Goto(l)) /\ WaitCmd(If(l))
      BY DEF WaitCmd, WaitOps, Label, Goto, If
    <3>2. \A m \in 1 .. 1 : m = 1
      OBVIOUS
    <3>3. \A m \in 1 .. 2 : m = 1 \/ m = 2
      OBVIOUS
    <3>4. \A m \in 1 .. 3 : m = 1 \/ m = 2 \/ m = 3
      OBVIOUS
    <3>5. /\ \A m \in 1 .. Len(c2) : WaitCmd(c2[m])
          /\ \A m \in 1 .. Len(c4) : WaitCmd(c4[m])
          /\ \A m \in 1 .. Len(c6) : WaitCmd(c6[m])
      BY <1>5, <1>6, <1>7, <3>1, <3>2, <3>3, <3>4
    <3> HIDE DEF yes, no, end
    <3> QED
      BY <1>5, <1>6, <1>7, <3>5 DEF InCode, CodeItems, Put
  <2>2. InCode(Item("expression")) /\ InCode(Item("statements")) /\ InCode(Item("else")) /\ InCode(This)
    BY <1>1 DEF InCode, Item, CodeItems
  <2> QED
    BY <1>4, <1>8, <2>1, <2>2
<1>10. ASSUME NEW k \in Nat, NEW m \in Nat, Waits(items, k, m)
       PROVE  \/ k = 2 /\ m = 1 /\ Cmd(items, k, m) = If(yes)
              \/ k = 2 /\ m = 2 /\ Cmd(items, k, m) = Goto(no)
              \/ k = 2 /\ m = 3 /\ Cmd(items, k, m) = Label(yes)
              \/ k = 4 /\ m = 1 /\ Cmd(items, k, m) = Goto(end)
              \/ k = 4 /\ m = 2 /\ Cmd(items, k, m) = Label(no)
              \/ k = 6 /\ m = 1 /\ Cmd(items, k, m) = Label(end)
  <2>1. k \in 1 .. 7 /\ items[k].do = "put" /\ m \in 1 .. Len(items[k].cmds) /\ Cmd(items, k, m) = items[k].cmds[m]
    BY <1>4, <1>10 DEF Waits, Cmd
  <2>2. Item("expression").do # "put" /\ Item("statements").do # "put" /\ Item("else").do # "put" /\ This.do # "put"
    BY <1>1 DEF Item
  <2>3. k = 2 \/ k = 4 \/ k = 6
    BY <1>4, <1>8, <2>1, <2>2
  <2>4. \A n, c : Put(n, c).cmds = c
    BY DEF Put
  <2>5. CASE k = 2
    <3>1. m \in 1 .. 3 /\ Cmd(items, k, m) = c2[m]
      BY <1>4, <1>5, <2>1, <2>4, <2>5
    <3>2. m = 1 \/ m = 2 \/ m = 3
      BY <3>1
    <3> QED
      BY <1>5, <2>5, <3>1, <3>2
  <2>6. CASE k = 4
    BY <1>4, <1>6, <2>1, <2>4, <2>6
  <2>7. CASE k = 6
    BY <1>4, <1>7, <2>1, <2>4, <2>7
  <2> QED
    BY <2>3, <2>5, <2>6, <2>7
<1>11. /\ Waits(items, 2, 3) /\ Cmd(items, 2, 3) = Label(yes)
       /\ Waits(items, 4, 2) /\ Cmd(items, 4, 2) = Label(no)
       /\ Waits(items, 6, 1) /\ Cmd(items, 6, 1) = Label(end)
  <2>1. \A n, c : Put(n, c).do = "put" /\ Put(n, c).cmds = c
    BY DEF Put
  <2> HIDE DEF yes, no, end
  <2>2. Waits(items, 2, 3) /\ Cmd(items, 2, 3) = Label(yes)
    BY <1>4, <1>5, <2>1 DEF Waits, Cmd
  <2>3. Waits(items, 4, 2) /\ Cmd(items, 4, 2) = Label(no)
    BY <1>4, <1>6, <2>1 DEF Waits, Cmd
  <2>4. Waits(items, 6, 1) /\ Cmd(items, 6, 1) = Label(end)
    BY <1>4, <1>7, <2>1 DEF Waits, Cmd
  <2> QED
    BY <2>2, <2>3, <2>4
<1>12. Waiting(items, yes) /\ Waiting(items, no) /\ Waiting(items, end)
  <2>1. {1, 2, 3, 4, 6} \subseteq Nat
    OBVIOUS
  <2> HIDE DEF yes, no, end
  <2> QED
    BY <1>11, <2>1 DEF Waiting
<1>13. /\ yes # no /\ yes # end /\ no # end
       /\ Numbered(yes, f + 1, w) /\ Numbered(no, f + 1, w) /\ Numbered(end, f + 1, w)
       /\ ~Numbered(yes, f, w) /\ ~Numbered(no, f, w) /\ ~Numbered(end, f, w)
  BY <1>3 DEF Numbered
<1> HIDE DEF yes, no, end, f, w
<1>14. ASSUME NEW k \in Nat, NEW m \in Nat, Waits(items, k, m), IsLabel(Cmd(items, k, m))
       PROVE  \/ k = 2 /\ m = 3 /\ Cmd(items, k, m).to = yes
              \/ k = 4 /\ m = 2 /\ Cmd(items, k, m).to = no
              \/ k = 6 /\ m = 1 /\ Cmd(items, k, m).to = end
  <2>1. ~IsLabel(If(yes)) /\ ~IsLabel(Goto(no)) /\ ~IsLabel(Goto(end))
        /\ Label(yes).to = yes /\ Label(no).to = no /\ Label(end).to = end
    BY DEF IsLabel, If, Goto, Label
  <2> QED
    BY <1>10, <1>14, <2>1
<1>15. ASSUME NEW k \in Nat, NEW m \in Nat, Waits(items, k, m), IsJump(Cmd(items, k, m))
       PROVE  Waiting(items, Cmd(items, k, m).to)
  <2>1. ~IsJump(Label(yes)) /\ ~IsJump(Label(no)) /\ ~IsJump(Label(end))
        /\ If(yes).to = yes /\ Goto(no).to = no /\ Goto(end).to = end
    BY DEF IsJump, If, Goto, Label
  <2> QED
    BY <1>10, <1>12, <1>15, <2>1
<1>16. Fresh(items, f, w, f + 1, w)
  BY <1>13, <1>14, <1>15 DEF Fresh
<1>17. /\ if_label_index' \in Nat /\ if_label_index <= if_label_index'
       /\ while_label_index' \in Nat /\ while_label_index <= while_label_index'
       /\ Fresh(items, if_label_index, while_label_index, if_label_index', while_label_index')
  BY <1>2, <1>3, <1>16 DEF f, w
<1>18. AtCode /\ todo[Depth] = Item("members")
  BY <1>1, InBody
<1>19. Continue(items) /\ UNCHANGED <<source, out, failed>> /\ Tabled' /\ index'["var"] = index["var"]
  BY <1>2, SameTables DEF Code
<1> QED
  BY <1>1, <1>4, <1>9, <1>17, <1>18, <1>19, CodeStep

LEMMA StatementRules ==
  ASSUME IInv, compile_statements
  PROVE  IInv'
<1>1. Now("statements")
  BY DEF compile_statements
<1>2. CASE Code(0, <<>>) /\ UNCHANGED labels
  BY <1>1, <1>2, StatementNow, RuleStep, GoodTuples
<1> QED
  BY <1>1, <1>2, LetRule, ReturnDoRules, IfRule, WhileRule DEF compile_statements

-----------------------------------------------------------------------------
(* What is written in a body                                                *)
AppendIs(s, x, r) ==
  /\ r = s \o <<x>> /\ Sequence(r) /\ Len(r) = Len(s) + 1
  /\ \A i \in 1 .. Len(s) : r[i] = s[i]
  /\ r[Len(s) + 1] = x

LEMMA Appended ==
  ASSUME NEW s, Sequence(s), NEW x, NEW r, r = Append(s, x)
  PROVE  AppendIs(s, x, r)
<1> DEFINE S == Range(s) \cup {x}
<1>1. s \in Seq(S) /\ x \in S
  BY DEF Sequence
<1> HIDE DEF S
<1>2. /\ Append(s, x) \in Seq(S) /\ Len(Append(s, x)) = Len(s) + 1
      /\ \A i \in 1 .. Len(s) : Append(s, x)[i] = s[i]
      /\ Append(s, x)[Len(s) + 1] = x
  BY <1>1, AppendProperties
<1>3. Append(s, x) = s \o <<x>>
  BY <1>1, AppendIsConcat
<1>4. Sequence(Append(s, x))
  BY <1>2, SequenceOf
<1> QED
  BY <1>2, <1>3, <1>4 DEF AppendIs

LEMMA WithNothing ==
  ASSUME NEW s, Sequence(s)
  PROVE  s \o <<>> = s /\ <<>> \o s = s
BY ConcatEmptySeq DEF Sequence

LEMMA EmitStep ==
  ASSUME IInv, AtCode, todo # <<>>, todo[Depth] = Item("members"), Depth >= 2,
         NEW q, Sequence(q), Emits(todo, q),
         \A m \in 1 .. Len(q) : q[m].op # "function" /\ (IsLocal(q[m]) => q[m].idx < index["var"]),
         out' = out \o q, Continue(<<>>), UNCHANGED <<source, tables, labels, failed>>
  PROVE  IInv'
<1> DEFINE t == todo
           u == todo'
           p == out'
<1>1. u = <<>> \o Tail(t) /\ Sequence(t) /\ t # <<>> /\ Sequence(<<>>) /\ Len(<<>>) = 0
  BY NoItems DEF Continue, IInv, Typed
<1>2. p = out \o q /\ Sequence(out) /\ out # <<>> /\ out[1].op = "function" /\ Emits(t, q)
  BY DEF IInv, Typed, AtCode
<1>3. /\ if_label_index' = if_label_index /\ while_label_index' = while_label_index /\ failed = FALSE
      /\ source' = source /\ failed' = failed
      /\ LabelsApart(out, t, if_label_index, while_label_index) /\ JumpsKept(out, t) /\ LocalsHeld(out)
  BY DEF labels, IInv, Typed
<1>4. /\ \A m \in 1 .. Len(q) : q[m].op # "function"
      /\ \A m \in 1 .. Len(q) : IsLocal(q[m]) => q[m].idx < out[StartIn(out, Len(out))].locals
  BY DEF AtCode
<1>5. Tabled' /\ index'["var"] = index["var"]
  BY SameTables
<1>6. \A k \in 1 .. Len(t) - 1 : InCode(t[k])
  BY DEF AtCode, Depth
<1>7. t[Len(t)] = Item("members") /\ Len(t) >= 2 /\ out[StartIn(out, Len(out))].locals = index["var"]
  BY DEF Depth, AtCode
<1> HIDE DEF t, u, p
<1>8. Replaced(t, <<>>, u)
  BY <1>1, Continued
<1>9. /\ Sequence(u) /\ Len(t) \in Nat /\ Len(u) = Len(t) - 1
      /\ \A k \in 1 .. Len(u) : u[k] = t[k + 1]
  <2>1. /\ Sequence(u) /\ Len(t) \in Nat /\ Len(u) = 0 + Len(t) - 1
        /\ \A k \in 0 + 1 .. Len(u) : u[k] = t[k + 1 - 0]
    BY <1>1, <1>8 DEF Replaced
  <2>2. ASSUME NEW k \in 1 .. Len(u) PROVE u[k] = t[k + 1]
    <3>1. k \in 0 + 1 .. Len(u) /\ k + 1 - 0 = k + 1
      OBVIOUS
    <3> QED
      BY <2>1, <3>1
  <2> QED
    BY <2>1, <2>2
<1>10. LabelsApart(p, u, if_label_index, while_label_index)
  BY <1>1, <1>2, <1>3, EmitApart
<1>11. JumpsKept(p, u)
  BY <1>1, <1>2, <1>3, <1>4, EmitKeeps
<1>12. LocalsHeld(p) /\ p[StartIn(p, Len(p))] = out[StartIn(out, Len(out))]
  BY <1>2, <1>3, <1>4, EmitLocals
<1>13. Sequence(p) /\ p # <<>> /\ p[1].op = "function"
  <2>1. Sequence(p) /\ Len(p) >= Len(out) /\ Len(out) \in Nat \ {0} /\ \A i \in 1 .. Len(out) : p[i] = out[i]
    BY <1>2, ConcatFacts, SequenceFacts
  <2>2. 1 \in 1 .. Len(out) /\ Len(p) # 0
    BY <2>1
  <2> QED
    BY <1>2, <2>1, <2>2, SequenceFacts
<1>14. Typed'
  BY <1>3, <1>9, <1>13 DEF IInv, Typed, u, p
<1>15. u[Len(u)] = Item("members") /\ Len(u) >= 1
  <2>1. Len(u) \in 1 .. Len(u) /\ Len(u) + 1 = Len(t)
    BY <1>7, <1>9
  <2> QED
    BY <1>7, <1>9, <2>1, SMTT(40)
<1>16. ASSUME NEW k \in 1 .. Len(u) - 1 PROVE InCode(u[k])
  <2>1. k \in 1 .. Len(u) /\ k + 1 \in 1 .. Len(t) - 1
    BY <1>9
  <2> QED
    BY <1>6, <1>9, <2>1
<1>17. Layout'
  BY <1>5, <1>7, <1>12, <1>13, <1>15, <1>16 DEF Layout, AtCode, Depth, u, p
<1> QED
  BY <1>3, <1>5, <1>10, <1>11, <1>12, <1>14, <1>17 DEF IInv, u, p

LEMMA PutInBody ==
  ASSUME IInv, put, AtCode, todo[Depth] = Item("members")
  PROVE  IInv'
<1>1. todo # <<>> /\ todo[1].do = "put" /\ This = todo[1]
  BY NowIs DEF put
<1>2. Depth \in Nat /\ Depth >= 2
  <2>1. Depth \in Nat \ {0}
    BY <1>1, SequenceFacts DEF IInv, Typed, Depth
  <2>2. Depth # 1
    <3>1. Item("members").do # "put"
      BY DEF Item
    <3> QED
      BY <1>1, <3>1
  <2> QED
    BY <2>1, <2>2
<1>3. InCode(todo[1])
  BY <1>2 DEF AtCode
<1> DEFINE q == todo[1].cmds
<1>4. Sequence(q) /\ \A m \in 1 .. Len(q) : WaitCmd(q[m])
  BY <1>1, <1>3 DEF InCode
<1>5. Emits(todo, q)
  <2>1. 1 \in 1 .. Len(todo)
    BY <1>2 DEF Depth
  <2> QED
    BY <1>1, <2>1 DEF Emits, Waits, Cmd
<1>6. \A m \in 1 .. Len(q) : q[m].op # "function" /\ ~IsLocal(q[m])
  BY <1>4 DEF WaitCmd, WaitOps, PlainOps, IsLocal
<1>7. out' = out \o q /\ Continue(<<>>) /\ UNCHANGED <<source, tables, labels, failed>>
  BY <1>1 DEF put
<1> HIDE DEF q
<1> QED
  BY <1>1, <1>2, <1>4, <1>5, <1>6, <1>7, EmitStep

LEMMA PlaceIn ==
  ASSUME NEW table, Sequence(table), NEW x, Place(table, x) # 0
  PROVE  Place(table, x) \in 1 .. Len(table)
<1> DEFINE I == {i \in 1 .. Len(table) : table[i].name = x}
<1>1. Place(table, x) = IF I # {} THEN Min(I) ELSE 0
  BY DEF Place, SelectInSeq
<1>2. I \in SUBSET Nat /\ I # {}
  BY <1>1
<1>3. \E m \in I : \A k \in I : m <= k
  BY <1>2, LeastOf
<1>4. Min(I) \in I
  <2> HIDE DEF I
  <2> QED
    BY <1>3 DEF Min
<1> QED
  BY <1>1, <1>2, <1>4

(* An entry that is a local variable has an index that was given out.       *)
LEMMA EntryIs ==
  ASSUME IInv, NEW x, exist_table(x)
  PROVE  Entry(x).kind \in Kinds /\ (Entry(x).kind = "var" => Entry(x).index < index["var"])
<1>1. Sequence(subroutineTable) /\ Sequence(classTable)
  BY DEF IInv, Tabled
<1>2. CASE Place(subroutineTable, x) # 0
  <2>1. Place(subroutineTable, x) \in 1 .. Len(subroutineTable)
    BY <1>1, <1>2, PlaceIn
  <2>2. Entry(x) = subroutineTable[Place(subroutineTable, x)]
    BY <1>2 DEF Entry
  <2> QED
    BY <2>1, <2>2 DEF IInv, Tabled, Kinds
<1>3. CASE Place(subroutineTable, x) = 0
  <2>1. Place(classTable, x) # 0
    BY <1>3 DEF exist_table
  <2>2. Place(classTable, x) \in 1 .. Len(classTable)
    BY <1>1, <2>1, PlaceIn
  <2>3. Entry(x) = classTable[Place(classTable, x)]
    BY <1>3 DEF Entry
  <2>4. Entry(x).kind \in {"static", "field"}
    BY <2>2, <2>3 DEF IInv, Tabled
  <2> QED
    BY <2>4 DEF Kinds
<1> QED
  BY <1>2, <1>3

LEMMA NameRule ==
  ASSUME IInv, write_name
  PROVE  IInv'
<1>1. todo # <<>> /\ todo[1].do = "name" /\ This = todo[1]
  BY NowIs DEF write_name
<1>2. AtCode /\ todo[Depth] = Item("members") /\ Depth >= 2
  BY <1>1, InBody DEF CodeItems
<1>3. Depth \in Nat
  BY SequenceFacts DEF IInv, Typed, Depth
<1>4. This.op \in {"push", "pop"}
  <2>1. InCode(todo[1])
    BY <1>2, <1>3 DEF AtCode
  <2> QED
    BY <1>1, <2>1 DEF InCode
<1>5. CASE exist_table(This.name)
  <2> DEFINE e == Entry(This.name)
             c == [op |-> This.op, seg |-> SegmentOf(e.kind), idx |-> e.index]
             q == <<c>>
  <2>1. out' = Append(out, c) /\ Continue(<<>>) /\ UNCHANGED <<source, tables, labels, failed>>
    BY <1>5 DEF write_name
  <2>2. e.kind \in Kinds /\ (e.kind = "var" => e.index < index["var"])
    BY <1>5, EntryIs
  <2> HIDE DEF e
  <2>3. c.op \in {"push", "pop"} /\ (c.seg = "local" => c.idx < index["var"])
    <3>1. SegmentOf(e.kind) = "local" => e.kind = "var"
      BY <2>2 DEF SegmentOf, Kinds
    <3> QED
      BY <1>4, <2>2, <3>1
  <2>4. Sequence(q) /\ Len(q) = 1 /\ q[1] = c
    BY Tuple1
  <2>5. out' = out \o q
    <3>1. Sequence(out)
      BY DEF IInv, Typed
    <3>2. AppendIs(out, c, out')
      BY <2>1, <3>1, Appended
    <3> QED
      BY <3>2 DEF AppendIs
  <2> HIDE DEF c, q
  <2>6. \A m \in 1 .. 1 : m = 1
    OBVIOUS
  <2>7. \A m \in 1 .. Len(q) : q[m].op # "function" /\ (IsLocal(q[m]) => q[m].idx < index["var"])
    BY <2>3, <2>4, <2>6 DEF IsLocal
  <2>8. Emits(todo, q)
    BY <1>1, <2>3, <2>4, <2>6 DEF Emits, Waits, IsLabel, IsJump
  <2> QED
    BY <1>1, <1>2, <2>1, <2>4, <2>5, <2>7, <2>8, EmitStep
<1>6. CASE ~exist_table(This.name)
  <2>1. /\ todo' = <<>> /\ failed' = TRUE /\ out' = out /\ source' = source
        /\ if_label_index' = if_label_index /\ while_label_index' = while_label_index
    BY <1>6 DEF write_name, labels
  <2>2. Tabled'
    BY SameTables DEF write_name
  <2>3. Typed'
    BY <2>1, NoItems DEF IInv, Typed
  <2>4. Layout'
    BY <2>1 DEF Layout
  <2>5. \A k, m : ~Waits(<<>>, k, m)
    BY NoItems DEF Waits
  <2>6. LabelsApart(out, <<>>, if_label_index, while_label_index)
    <3>1. LabelsApart(out, todo, if_label_index, while_label_index)
      BY DEF IInv
    <3> QED
      BY <2>5, <3>1 DEF LabelsApart
  <2> QED
    BY <2>1, <2>2, <2>3, <2>4, <2>6 DEF IInv
<1> QED
  BY <1>5, <1>6

-----------------------------------------------------------------------------
(* Declarations                                                             *)
LEMMA Defined ==
  ASSUME Tabled, NEW x, NEW type, NEW kind \in Kinds, define(x, type, kind)
  PROVE  Tabled' /\ index'["var"] = (IF kind = "var" THEN index["var"] + 1 ELSE index["var"])
<1> DEFINE entry == [name |-> x, type |-> type, kind |-> kind, index |-> index[kind]]
<1>1. entry.kind = kind /\ entry.index = index[kind]
  OBVIOUS
<1>2. /\ index' = [index EXCEPT ![kind] = @ + 1]
      /\ IF kind \in {"static", "field"}
         THEN classTable' = Append(classTable, entry) /\ subroutineTable' = subroutineTable
         ELSE subroutineTable' = Append(subroutineTable, entry) /\ classTable' = classTable
  BY DEF define
<1> HIDE DEF entry
<1>3. /\ index' \in [Kinds -> Nat] /\ \A k \in Kinds : index'[k] = IF k = kind THEN index[k] + 1 ELSE index[k]
      /\ index["var"] \in Nat
  BY <1>2, SMTT(40) DEF Tabled, Kinds
<1>4. /\ Sequence(classTable) /\ Sequence(subroutineTable) /\ Len(classTable) \in Nat /\ Len(subroutineTable) \in Nat
      /\ index["static"] + index["field"] = Len(classTable)
      /\ index["argument"] + index["var"] = Len(subroutineTable)
      /\ \A i \in 1 .. Len(classTable) : classTable[i].kind \in {"static", "field"}
      /\ \A i \in 1 .. Len(subroutineTable) :
           /\ subroutineTable[i].kind \in {"argument", "var"}
           /\ subroutineTable[i].index \in Nat
           /\ subroutineTable[i].kind = "var" => subroutineTable[i].index < index["var"]
  BY SequenceFacts DEF Tabled
<1>5. /\ index["static"] \in Nat /\ index["field"] \in Nat /\ index["argument"] \in Nat /\ index["var"] \in Nat
      /\ index'["static"] = (IF kind = "static" THEN index["static"] + 1 ELSE index["static"])
      /\ index'["field"] = (IF kind = "field" THEN index["field"] + 1 ELSE index["field"])
      /\ index'["argument"] = (IF kind = "argument" THEN index["argument"] + 1 ELSE index["argument"])
      /\ index'["var"] = (IF kind = "var" THEN index["var"] + 1 ELSE index["var"])
  BY <1>3 DEF Kinds, Tabled
<1>6. CASE kind \in {"static", "field"}
  <2> DEFINE s == classTable'
  <2>1. s = Append(classTable, entry) /\ subroutineTable' = subroutineTable
    BY <1>2, <1>6
  <2> HIDE DEF s
  <2>2. /\ Sequence(s) /\ Len(s) = Len(classTable) + 1
        /\ \A i \in 1 .. Len(classTable) : s[i] = classTable[i]
        /\ s[Len(classTable) + 1] = entry
    <3>1. AppendIs(classTable, entry, s)
      BY <1>4, <2>1, Appended
    <3> QED
      BY <3>1 DEF AppendIs
  <2>3. ASSUME NEW i \in 1 .. Len(s) PROVE s[i].kind \in {"static", "field"}
    <3>1. i \in 1 .. Len(classTable) \/ i = Len(classTable) + 1
      BY <1>4, <2>2
    <3> QED
      BY <1>1, <1>4, <1>6, <2>2, <3>1
  <2>4. index'["static"] + index'["field"] = Len(s) /\ index'["argument"] + index'["var"] = Len(subroutineTable')
        /\ index'["var"] = index["var"]
    BY <1>4, <1>5, <1>6, <2>1, <2>2
  <2> QED
    BY <1>3, <1>4, <1>5, <2>1, <2>2, <2>3, <2>4 DEF Tabled, s
<1>7. CASE ~(kind \in {"static", "field"})
  <2> DEFINE s == subroutineTable'
  <2>1. s = Append(subroutineTable, entry) /\ classTable' = classTable /\ kind \in {"argument", "var"}
    BY <1>2, <1>7 DEF Kinds
  <2> HIDE DEF s
  <2>2. /\ Sequence(s) /\ Len(s) = Len(subroutineTable) + 1
        /\ \A i \in 1 .. Len(subroutineTable) : s[i] = subroutineTable[i]
        /\ s[Len(subroutineTable) + 1] = entry
    <3>1. AppendIs(subroutineTable, entry, s)
      BY <1>4, <2>1, Appended
    <3> QED
      BY <3>1 DEF AppendIs
  <2>3. ASSUME NEW i \in 1 .. Len(s)
        PROVE  /\ s[i].kind \in {"argument", "var"} /\ s[i].index \in Nat
               /\ (s[i].kind = "var" => s[i].index < index'["var"])
    <3>1. CASE i \in 1 .. Len(subroutineTable)
      <4>1. s[i] = subroutineTable[i]
        BY <2>2, <3>1
      <4>2. /\ subroutineTable[i].kind \in {"argument", "var"} /\ subroutineTable[i].index \in Nat
            /\ subroutineTable[i].kind = "var" => subroutineTable[i].index < index["var"]
        BY <1>4, <3>1
      <4>3. index["var"] \in Nat /\ index'["var"] \in Nat /\ index["var"] <= index'["var"]
        BY <1>5
      <4> HIDE DEF s
      <4> QED
        BY <4>1, <4>2, <4>3
    <3>2. CASE i = Len(subroutineTable) + 1
      <4>1. s[i].kind = kind /\ s[i].index = index[kind]
        BY <1>1, <2>2, <3>2
      <4> QED
        BY <1>5, <2>1, <4>1
    <3> QED
      BY <1>4, <2>2, <3>1, <3>2
  <2>4. index'["static"] + index'["field"] = Len(classTable') /\ index'["argument"] + index'["var"] = Len(s)
    <3>1. index'["static"] = index["static"] /\ index'["field"] = index["field"]
      BY <1>5, <2>1
    <3>2. index'["argument"] + index'["var"] = index["argument"] + index["var"] + 1
      <4>1. CASE kind = "argument"
        BY <1>5, <4>1
      <4>2. CASE kind = "var"
        BY <1>5, <4>2
      <4> QED
        BY <2>1, <4>1, <4>2
    <3> QED
      BY <1>4, <2>1, <2>2, <3>1, <3>2
  <2> QED
    BY <1>3, <1>4, <1>5, <2>1, <2>2, <2>3, <2>4 DEF Tabled, s
<1> QED
  BY <1>6, <1>7

-----------------------------------------------------------------------------
(* Where the compiler is, by what it does next                              *)
LastMembers(t) == Len(t) >= 1 /\ t[Len(t)] = Item("members")

LEMMA Depths ==
  /\ \A n \in Nat \ {0} : n # 1 => n >= 2 /\ 1 \in 1 .. n - 1
  /\ \A n \in Nat \ {0} : n >= 2 /\ n # 2 => n >= 3 /\ 1 \in 1 .. n - 2
OBVIOUS

LEMMA Where ==
  ASSUME IInv, todo # <<>>
  PROVE  /\ Len(todo) \in Nat \ {0}
         /\ \/ todo = <<Item("class")>> /\ todo[1].do = "class"
            \/ LastMembers(todo) /\ Len(todo) = 1 /\ todo[1].do = "members"
            \/ LastMembers(todo) /\ Len(todo) = 2 /\ todo[1].do \in {"names", "subroutine"}
            \/ LastMembers(todo) /\ AtHead /\ Len(todo) = 2 /\ todo[1].do = "body"
            \/ LastMembers(todo) /\ AtHead /\ Len(todo) >= 3 /\ InHead(todo[1])
            \/ LastMembers(todo) /\ AtCode /\ Len(todo) >= 2 /\ InCode(todo[1])
<1>1. Len(todo) \in Nat \ {0}
  BY SequenceFacts DEF IInv, Typed
<1>2. Item("members").do = "members" /\ Item("class").do = "class"
  BY DEF Item
<1>3. CASE todo = <<Item("class")>>
  BY <1>1, <1>2, <1>3, Tuple1
<1>4. CASE todo # <<Item("class")>>
  <2>1. LastMembers(todo) /\ (AtMembers \/ AtHead \/ AtCode)
    BY <1>4 DEF IInv, Layout, LastMembers, Depth
  <2>2. CASE Len(todo) = 1
    BY <1>1, <1>2, <2>1, <2>2 DEF LastMembers
  <2>3. CASE Len(todo) # 1 /\ AtMembers
    BY <1>1, <2>1, <2>3 DEF AtMembers, MembersOf
  <2>4. CASE AtHead
    <3>1. CASE Len(todo) = 2
      <4>1. todo[1].do = "body"
        BY <2>4, <3>1 DEF AtHead, HeadOf
      <4> QED
        BY <1>1, <2>1, <2>4, <3>1, <4>1
    <3>2. CASE Len(todo) # 2
      <4>1. Len(todo) >= 3 /\ 1 \in 1 .. Len(todo) - 2
        <5>1. Len(todo) >= 2
          BY <2>4 DEF AtHead, HeadOf
        <5> QED
          BY <1>1, <3>2, <5>1, Depths, Zenon
      <4>2. InHead(todo[1])
        BY <2>4, <4>1 DEF AtHead, HeadOf
      <4> QED
        BY <1>1, <2>1, <2>4, <4>1, <4>2
    <3> QED
      BY <3>1, <3>2
  <2>5. CASE Len(todo) # 1 /\ AtCode
    <3>1. Len(todo) >= 2 /\ 1 \in 1 .. Len(todo) - 1
      <4>1. Len(todo) # 1
        BY <2>5
      <4> QED
        BY <1>1, <4>1, Depths, Zenon
    <3>2. InCode(todo[1])
      BY <2>5, <3>1 DEF AtCode, Depth
    <3> QED
      BY <1>1, <2>1, <2>5, <3>1, <3>2
  <2> QED
    BY <2>1, <2>2, <2>3, <2>4, <2>5
<1> QED
  BY <1>3, <1>4

LEMMA QuietThere ==
  ASSUME NEW t, Sequence(t), LastMembers(t), NEW v, MembersOf(t) \/ HeadOf(t, v)
  PROVE  Quiet(t)
<1>1. Len(t) \in Nat
  BY SequenceFacts
<1>2. t[Len(t)].do # "put"
  BY DEF LastMembers, Item
<1>3. ASSUME NEW k \in 1 .. Len(t), NEW m \in Nat, t[k].do = "put", m \in 1 .. Len(t[k].cmds) PROVE FALSE
  <2>1. k # Len(t)
    BY <1>2, <1>3
  <2>2. CASE MembersOf(t)
    <3>1. CASE Len(t) = 1
      BY <1>3, <2>1, <3>1
    <3>2. CASE Len(t) = 2 /\ t[1].do \in {"names", "subroutine"}
      <4>1. k = 1
        BY <1>3, <2>1, <3>2
      <4> QED
        BY <1>3, <3>2, <4>1
    <3> QED
      BY <2>2, <3>1, <3>2 DEF MembersOf
  <2>3. CASE HeadOf(t, v)
    <3>1. k # Len(t) - 1
      BY <1>3, <2>3 DEF HeadOf
    <3>2. k \in 1 .. Len(t) - 2
      BY <1>1, <2>1, <3>1
    <3>3. t[k].cmds = <<>>
      BY <1>3, <2>3, <3>2 DEF HeadOf, InHead
    <3> QED
      BY <1>3, <3>3, NoItems
  <2> QED
    BY <2>2, <2>3
<1> QED
  BY <1>3 DEF Quiet, Waits

LEMMA QuietNone == Quiet(<<>>) /\ Quiet(<<Item("class")>>)
<1>1. Quiet(<<>>)
  BY NoItems DEF Quiet, Waits
<1>2. <<Item("class")>>[1].do # "put" /\ Len(<<Item("class")>>) = 1
  BY Tuple1 DEF Item
<1>3. \A k \in 1 .. 1 : k = 1
  OBVIOUS
<1>4. Quiet(<<Item("class")>>)
  BY <1>2, <1>3 DEF Quiet, Waits
<1> QED
  BY <1>1, <1>4

(* A declaration writes nothing, and nothing waits before or after.         *)
LEMMA DeclStep ==
  ASSUME IInv, todo # <<>>, Quiet(todo), Sequence(todo'),
         \/ todo' = <<>>
         \/ LastMembers(todo') /\ (MembersOf(todo') \/ HeadOf(todo', index'["var"])),
         Tabled', UNCHANGED <<source, out, labels, failed>>
  PROVE  IInv'
<1> DEFINE u == todo'
           v == index'["var"]
<1>1. Sequence(u) /\ (u = <<>> \/ (LastMembers(u) /\ (MembersOf(u) \/ HeadOf(u, v))))
  OBVIOUS
<1>2. Layout'
  BY DEF Layout, AtMembers, AtHead, LastMembers, Depth
<1> HIDE DEF u, v
<1>3. Quiet(u)
  BY <1>1, QuietThere, QuietNone
<1>4. /\ if_label_index' = if_label_index /\ while_label_index' = while_label_index
      /\ source' = source /\ out' = out /\ failed' = failed /\ failed = FALSE
  BY DEF labels, IInv, Typed
<1>5. Typed'
  BY <1>1, <1>4 DEF u, IInv, Typed
<1>6. /\ Sequence(out) /\ (out # <<>> => out[1].op = "function") /\ Sequence(<<>>) /\ out = out \o <<>>
      /\ LabelsApart(out, todo, if_label_index, while_label_index) /\ JumpsKept(out, todo) /\ LocalsHeld(out)
  BY <1>4, NoItems, WithNothing DEF IInv, Typed
<1>7. \A m \in 1 .. Len(<<>>) : FALSE
  BY NoItems
<1>8. LabelsApart(out, u, if_label_index, while_label_index) /\ JumpsKept(out, u)
  <2> DEFINE q == <<>>
  <2>1. Sequence(q) /\ out = out \o q /\ \A m \in 1 .. Len(q) : ~IsLabel(q[m]) /\ ~IsJump(q[m]) /\ ~IsLocal(q[m])
    BY <1>6, <1>7
  <2> HIDE DEF q
  <2> QED
    BY <1>3, <1>6, <2>1, QuietApart
<1> QED
  BY <1>2, <1>4, <1>5, <1>6, <1>8 DEF IInv, u

(* One item less in front of a body.                                        *)
LEMMA HeadShift ==
  ASSUME NEW t, Sequence(t), t # <<>>, Len(t) >= 3, NEW v, HeadOf(t, v), LastMembers(t),
         NEW u, u = <<>> \o Tail(t)
  PROVE  Sequence(u) /\ LastMembers(u) /\ HeadOf(u, v)
<1>1. /\ Sequence(u) /\ Len(t) \in Nat /\ Len(u) = Len(t) - 1
      /\ \A k \in 1 .. Len(u) : u[k] = t[k + 1]
  <2>1. Replaced(t, <<>>, u) /\ Len(<<>>) = 0
    BY Continued, NoItems
  <2>2. /\ Sequence(u) /\ Len(t) \in Nat /\ Len(u) = 0 + Len(t) - 1
        /\ \A k \in 0 + 1 .. Len(u) : u[k] = t[k + 1 - 0]
    BY <2>1 DEF Replaced
  <2>3. ASSUME NEW k \in 1 .. Len(u) PROVE u[k] = t[k + 1]
    <3>1. k \in 0 + 1 .. Len(u) /\ k + 1 - 0 = k + 1
      OBVIOUS
    <3> QED
      BY <2>2, <3>1
  <2> QED
    BY <2>2, <2>3
<1>2. Len(u) >= 2 /\ u[Len(u)] = t[Len(t)] /\ u[Len(u) - 1] = t[Len(t) - 1]
  <2>1. Len(u) \in 1 .. Len(u) /\ Len(u) + 1 = Len(t) /\ Len(u) - 1 \in 1 .. Len(u) /\ Len(u) - 1 + 1 = Len(t) - 1
    BY <1>1
  <2> QED
    BY <1>1, <2>1
<1>3. ASSUME NEW k \in 1 .. Len(u) - 2
      PROVE  InHead(u[k]) /\ ~(u[k].do = "names" /\ u[k].kind = "var")
  <2>1. k \in 1 .. Len(u) /\ k + 1 \in 1 .. Len(t) - 2 /\ Len(t) # 3
    BY <1>1
  <2>2. u[k] = t[k + 1]
    BY <1>1, <2>1
  <2> QED
    BY <2>1, <2>2 DEF HeadOf
<1>4. LastMembers(u)
  BY <1>1, <1>2 DEF LastMembers
<1>5. HeadOf(u, v)
  BY <1>2, <1>3 DEF HeadOf
<1> QED
  BY <1>1, <1>4, <1>5

-----------------------------------------------------------------------------
(* Classes and their members                                                *)
LEMMA ContinueIs ==
  ASSUME IInv, todo # <<>>, NEW items, Sequence(items), Continue(items)
  PROVE  Replaced(todo, items, todo')
BY Continued DEF Continue, IInv, Typed

LEMMA ClassRule ==
  ASSUME IInv, compile_class
  PROVE  IInv'
<1>1. todo # <<>> /\ todo[1].do = "class"
  BY NowIs DEF compile_class
<1>2. todo = <<Item("class")>>
  BY <1>1, Where DEF InHead, InCode, CodeItems
<1> DEFINE items == <<Item("members")>>
           u == todo'
<1>3. Sequence(items) /\ Len(items) = 1 /\ items[1] = Item("members") /\ Len(todo) = 1
  BY <1>2, Tuple1
<1>4. Continue(items) /\ UNCHANGED <<source, out, tables, labels, failed>>
  BY DEF compile_class
<1> HIDE DEF items
<1>5. Replaced(todo, items, u)
  BY <1>1, <1>3, <1>4, ContinueIs
<1> HIDE DEF u
<1>6. Sequence(u) /\ LastMembers(u) /\ MembersOf(u)
  <2>1. Sequence(u) /\ Len(u) = 1 /\ u[1] = items[1]
    BY <1>3, <1>5 DEF Replaced
  <2> QED
    BY <1>3, <2>1 DEF LastMembers, MembersOf
<1>7. Quiet(todo)
  BY <1>2, QuietNone
<1> QED
  BY <1>1, <1>4, <1>6, <1>7, SameTables, DeclStep DEF u

LEMMA MembersRule ==
  ASSUME IInv, members
  PROVE  IInv'
<1>1. todo # <<>> /\ todo[1].do = "members" /\ This = todo[1] /\ Sequence(todo)
  BY NowIs DEF members, IInv, Typed
<1>2. LastMembers(todo) /\ Len(todo) = 1
  BY <1>1, Where DEF InHead, InCode, CodeItems
<1>3. Quiet(todo) /\ This = Item("members")
  BY <1>1, <1>2, QuietThere DEF LastMembers, MembersOf
<1>4. UNCHANGED <<source, out, tables, labels, failed>>
  BY DEF members
<1> DEFINE u == todo'
<1>5. Sequence(u) /\ (u = <<>> \/ (LastMembers(u) /\ MembersOf(u)))
  <2>1. ASSUME NEW x, x.do \in {"names", "subroutine"}, Continue(<<x, This>>)
        PROVE  Sequence(u) /\ LastMembers(u) /\ MembersOf(u)
    <3> DEFINE items == <<x, This>>
    <3>1. Sequence(items) /\ Len(items) = 2 /\ items[1] = x /\ items[2] = This /\ Continue(items)
      BY <2>1, Tuple2
    <3> HIDE DEF items
    <3>2. Replaced(todo, items, u)
      BY <1>1, <3>1, ContinueIs
    <3> HIDE DEF u
    <3>3. Sequence(u) /\ Len(u) = 2 /\ u[1] = items[1] /\ u[2] = items[2]
      BY <1>2, <3>1, <3>2 DEF Replaced
    <3> QED
      BY <1>3, <2>1, <3>1, <3>3 DEF LastMembers, MembersOf
  <2>2. ASSUME Continue(<<>>) PROVE Sequence(u) /\ u = <<>>
    <3>1. Replaced(todo, <<>>, u)
      BY <1>1, <2>2, ContinueIs, NoItems
    <3> HIDE DEF u
    <3>2. Sequence(u) /\ Len(u) = 0
      BY <1>2, <3>1, NoItems DEF Replaced
    <3> QED
      BY <3>2, SequenceFacts
  <2>3. Names(Tok.val, Peek(1).val).do = "names" /\ Item("subroutine").do = "subroutine"
    BY DEF Names, Item
  <2>4. \/ Continue(<<Names(Tok.val, Peek(1).val), This>>)
        \/ Continue(<<Item("subroutine"), This>>)
        \/ Continue(<<>>)
    BY DEF members
  <2> QED
    BY <2>1, <2>2, <2>3, <2>4
<1> HIDE DEF u
<1> QED
  BY <1>1, <1>3, <1>4, <1>5, SameTables, DeclStep DEF u

(* A declaration of names goes on, or is done.                              *)
LEMMA NamesNow ==
  ASSUME IInv, Now("names")
  PROVE  /\ todo # <<>> /\ This = todo[1] /\ todo[1].do = "names" /\ Sequence(todo) /\ Quiet(todo)
         /\ LastMembers(todo) /\ Len(todo) \in Nat
         /\ \/ Len(todo) = 2 /\ MembersOf(todo)
            \/ Len(todo) >= 3 /\ AtHead /\ This.kind \in {"argument", "var"} /\ (This.kind = "var" => Len(todo) = 3)
<1>1. todo # <<>> /\ This = todo[1] /\ todo[1].do = "names" /\ Sequence(todo)
  BY NowIs DEF IInv, Typed
<1>2. /\ Len(todo) \in Nat \ {0}
      /\ \/ LastMembers(todo) /\ Len(todo) = 2
         \/ LastMembers(todo) /\ AtHead /\ Len(todo) >= 3 /\ InHead(todo[1])
  BY <1>1, Where DEF InCode, CodeItems
<1>3. CASE LastMembers(todo) /\ Len(todo) = 2
  <2>1. MembersOf(todo)
    BY <1>1, <1>3 DEF MembersOf
  <2> QED
    BY <1>1, <1>2, <1>3, <2>1, QuietThere
<1>4. CASE LastMembers(todo) /\ AtHead /\ Len(todo) >= 3 /\ InHead(todo[1])
  <2>1. HeadOf(todo, index["var"])
    BY <1>4 DEF AtHead
  <2>2. todo[1].kind \in {"argument", "var"}
    BY <1>1, <1>4 DEF InHead
  <2>3. todo[1].kind = "var" => Len(todo) = 3
    <3>1. 1 \in 1 .. Len(todo) - 2
      BY <1>2, <1>4
    <3> QED
      BY <1>1, <2>1, <3>1 DEF HeadOf
  <2> QED
    BY <1>1, <1>2, <1>4, <2>1, <2>2, <2>3, QuietThere
<1> QED
  BY <1>2, <1>3, <1>4

LEMMA NamesLeft ==
  ASSUME IInv, Now("names"), todo' = todo \/ Continue(<<>>), Tabled', index'["var"] = index["var"],
         UNCHANGED <<source, out, labels, failed>>
  PROVE  IInv'
<1>1. /\ todo # <<>> /\ Sequence(todo) /\ Quiet(todo) /\ LastMembers(todo) /\ Len(todo) \in Nat
      /\ \/ Len(todo) = 2 /\ MembersOf(todo)
         \/ Len(todo) >= 3 /\ AtHead
  BY NamesNow
<1> DEFINE u == todo'
           v == index'["var"]
<1>2. v = index["var"] /\ (u = todo \/ u = <<>> \o Tail(todo))
  BY DEF Continue
<1> HIDE DEF u, v
<1>3. Sequence(u) /\ LastMembers(u) /\ (MembersOf(u) \/ HeadOf(u, v))
  <2>1. CASE u = todo
    BY <1>1, <1>2, <2>1 DEF AtHead
  <2>2. CASE u = <<>> \o Tail(todo) /\ Len(todo) = 2
    <3>1. Replaced(todo, <<>>, u) /\ Len(<<>>) = 0
      BY <1>1, <2>2, Continued, NoItems
    <3>2. Sequence(u) /\ Len(u) = 1 /\ u[1] = todo[2]
      <4>1. /\ Sequence(u) /\ Len(u) = 0 + 2 - 1
            /\ \A k \in 0 + 1 .. Len(u) : u[k] = todo[k + 1 - 0]
        BY <2>2, <3>1 DEF Replaced
      <4>2. 1 \in 0 + 1 .. Len(u) /\ 1 + 1 - 0 = 2
        BY <4>1
      <4> QED
        BY <4>1, <4>2
    <3>3. todo[2] = Item("members")
      BY <1>1, <2>2 DEF LastMembers
    <3>4. Len(u) >= 1 /\ u[Len(u)] = Item("members")
      BY <3>2, <3>3
    <3> QED
      BY <3>2, <3>4 DEF LastMembers, MembersOf
  <2>3. CASE u = <<>> \o Tail(todo) /\ Len(todo) >= 3 /\ AtHead
    BY <1>1, <1>2, <2>3, HeadShift DEF AtHead
  <2> QED
    BY <1>1, <1>2, <2>1, <2>2, <2>3
<1> QED
  BY <1>1, <1>3, DeclStep DEF u, v

LEMMA ClassVarRule ==
  ASSUME IInv, compile_class_var_dec
  PROVE  IInv'
<1>1. Now("names") /\ This.kind \in {"static", "field"}
  BY DEF compile_class_var_dec
<1>2. todo # <<>> /\ This = Head(todo) /\ Sequence(todo)
  BY <1>1, NamesNow DEF This
<1>3. Tabled' /\ index'["var"] = index["var"]
  BY <1>1, Defined DEF compile_class_var_dec, IInv, Kinds
<1>4. todo' = todo \/ Continue(<<>>)
  <2>1. CASE Continue(<<This>>)
    <3>1. todo = <<Head(todo)>> \o Tail(todo)
      BY <1>2, HeadTailProperties DEF Sequence
    <3> QED
      BY <1>2, <2>1, <3>1 DEF Continue
  <2>2. Continue(<<This>>) \/ Continue(<<>>)
    BY DEF compile_class_var_dec
  <2> QED
    BY <2>1, <2>2
<1>5. UNCHANGED <<source, out, labels, failed>>
  BY DEF compile_class_var_dec
<1> QED
  BY <1>1, <1>3, <1>4, <1>5, NamesLeft

LEMMA ParameterRule ==
  ASSUME IInv, compile_parameter_list
  PROVE  IInv'
<1>1. Now("names")
  BY DEF compile_parameter_list
<1>2. Tabled' /\ index'["var"] = index["var"]
  BY Defined DEF compile_parameter_list, IInv, Kinds
<1>3. todo' = todo \/ Continue(<<>>)
  BY DEF compile_parameter_list
<1>4. UNCHANGED <<source, out, labels, failed>>
  BY DEF compile_parameter_list
<1> QED
  BY <1>1, <1>2, <1>3, <1>4, NamesLeft

(* A local variable is counted by the table, and by the body.               *)
LEMMA VarRule ==
  ASSUME IInv, compile_var_dec
  PROVE  IInv'
<1>1. Now("names") /\ This.kind = "var" /\ UNCHANGED <<source, out, labels, failed>>
  BY DEF compile_var_dec
<1>2. CASE (todo' = todo \/ Continue(<<>>)) /\ UNCHANGED tables
  BY <1>1, <1>2, NamesLeft, SameTables
<1>3. CASE define(Tok.val, This.type, "var") /\ todo' = [todo EXCEPT ![2].count = @ + 1]
  <2>1. Tabled' /\ index'["var"] = index["var"] + 1
    BY <1>3, Defined DEF IInv, Kinds
  <2>2. /\ todo # <<>> /\ Sequence(todo) /\ Quiet(todo) /\ LastMembers(todo) /\ todo[1].do = "names"
        /\ \/ Len(todo) = 2 /\ MembersOf(todo)
           \/ Len(todo) = 3 /\ AtHead
    BY <1>1, NamesNow
  <2> DEFINE r == [todo[2] EXCEPT !.count = @ + 1]
             u == todo'
             v == index'["var"]
  <2>3. u = [todo EXCEPT ![2] = r]
    BY <1>3
  <2> HIDE DEF r, u, v
  <2>4. /\ Sequence(u) /\ Len(u) = Len(todo)
        /\ \A j \in 1 .. Len(todo) : u[j] = IF j = 2 THEN r ELSE todo[j]
    <3> DEFINE S == Range(todo) \cup {r}
    <3>1. todo \in Seq(S) /\ r \in S /\ 2 \in 1 .. Len(todo)
      BY <2>2 DEF Sequence
    <3> HIDE DEF S
    <3>2. /\ u \in Seq(S) /\ Len(u) = Len(todo)
          /\ \A j \in 1 .. Len(todo) : u[j] = IF j = 2 THEN r ELSE todo[j]
      BY <2>3, <3>1, ExceptSeq
    <3> QED
      BY <3>2, SequenceOf
  <2>5. CASE Len(todo) = 2 /\ MembersOf(todo)
    <3>1. todo[2] = Item("members")
      BY <2>2, <2>5 DEF LastMembers
    <3>2. r = Item("members")
      BY <3>1 DEF r, Item
    <3>3. Len(u) = 2 /\ u[1] = todo[1] /\ u[2] = Item("members")
      BY <2>4, <2>5, <3>2
    <3>4. LastMembers(u) /\ MembersOf(u)
      BY <2>2, <3>3 DEF LastMembers, MembersOf
    <3> QED
      BY <1>1, <2>1, <2>2, <2>4, <3>4, DeclStep DEF u
  <2>6. CASE Len(todo) = 3 /\ AtHead
    <3>1. todo[2].do = "body" /\ todo[2] = Body(todo[2].name, todo[2].prefix, index["var"])
          /\ \A k \in 1 .. 1 : InHead(todo[k])
      BY <2>6 DEF AtHead, HeadOf
    <3>2. r = Body(todo[2].name, todo[2].prefix, v)
      <4> DEFINE a == todo[2].name
                 b == todo[2].prefix
      <4>1. todo[2] = Body(a, b, index["var"]) /\ v = index["var"] + 1
        BY <2>1, <3>1 DEF v
      <4> HIDE DEF a, b
      <4>2. r = [Body(a, b, index["var"]) EXCEPT !.count = @ + 1]
        BY <4>1 DEF r
      <4>3. r = Body(a, b, v)
        BY <4>1, <4>2 DEF Body
      <4> QED
        BY <4>3 DEF a, b
    <3>3. Len(u) = 3 /\ u[1] = todo[1] /\ u[2] = r /\ u[3] = todo[3]
      BY <2>4, <2>6
    <3>4. LastMembers(u)
      BY <2>2, <2>6, <3>3 DEF LastMembers
    <3>5. r.do = "body" /\ r = Body(r.name, r.prefix, v)
      BY <3>2 DEF Body
    <3>6. InHead(u[1])
      BY <3>1, <3>3
    <3>7. \A k \in 1 .. Len(u) - 2 : k = 1
      BY <3>3
    <3>8. Len(u) - 1 = 2
      BY <3>3
    <3>9. HeadOf(u, v)
      BY <3>3, <3>5, <3>6, <3>7, <3>8 DEF HeadOf
    <3> QED
      BY <1>1, <2>1, <2>2, <2>4, <3>4, <3>9, DeclStep DEF u, v
  <2> QED
    BY <2>2, <2>5, <2>6
<1> QED
  BY <1>2, <1>3 DEF compile_var_dec

LEMMA ThisRule ==
  ASSUME IInv, define_this
  PROVE  IInv'
<1>1. todo # <<>> /\ todo[1].do = "this" /\ Sequence(todo)
  BY NowIs DEF define_this, IInv, Typed
<1>2. Tabled' /\ index'["var"] = index["var"]
  BY Defined DEF define_this, IInv, Kinds
<1>3. Continue(<<>>) /\ UNCHANGED <<source, out, labels, failed>>
  BY DEF define_this
<1>4. \/ LastMembers(todo) /\ AtHead /\ Len(todo) >= 3
      \/ LastMembers(todo) /\ AtCode /\ Len(todo) >= 2
  BY <1>1, Where
<1>5. CASE LastMembers(todo) /\ AtHead /\ Len(todo) >= 3
  <2> DEFINE u == todo'
             v == index'["var"]
  <2>1. u = <<>> \o Tail(todo) /\ HeadOf(todo, v)
    BY <1>2, <1>3, <1>5 DEF Continue, AtHead
  <2> HIDE DEF u, v
  <2>2. Sequence(u) /\ LastMembers(u) /\ HeadOf(u, v) /\ Quiet(todo)
    BY <1>1, <1>5, <2>1, HeadShift, QuietThere
  <2> QED
    BY <1>1, <1>2, <1>3, <2>2, DeclStep DEF u, v
<1>6. CASE LastMembers(todo) /\ AtCode
  <2>1. /\ if_label_index' = if_label_index /\ while_label_index' = while_label_index
        /\ if_label_index \in Nat /\ while_label_index \in Nat
    BY <1>3 DEF labels, IInv, Typed
  <2>2. GoodAll(<<>>)
    BY GoodTuples
  <2> DEFINE items == <<>>
  <2>3. /\ Sequence(items) /\ \A k \in 1 .. Len(items) : InCode(items[k])
        /\ Fresh(items, if_label_index, while_label_index, if_label_index, while_label_index)
    BY <2>2, GoodIs DEF GoodAll
  <2>4. Continue(items)
    BY <1>3
  <2> HIDE DEF items
  <2>5. todo[Depth] = Item("members") /\ todo[1].do \in CodeItems \ {"put"}
    BY <1>1, <1>6 DEF LastMembers, Depth, CodeItems
  <2> QED
    BY <1>1, <1>2, <1>3, <1>6, <2>1, <2>3, <2>4, <2>5, CodeStep
<1> QED
  BY <1>4, <1>5, <1>6

LEMMA PutRule ==
  ASSUME IInv, put
  PROVE  IInv'
<1>1. todo # <<>> /\ todo[1].do = "put" /\ Sequence(todo) /\ This = todo[1]
  BY NowIs DEF put, IInv, Typed
<1>2. \/ LastMembers(todo) /\ AtHead /\ Len(todo) >= 3 /\ InHead(todo[1])
      \/ LastMembers(todo) /\ AtCode
  BY <1>1, Where
<1>3. CASE LastMembers(todo) /\ AtCode
  BY <1>3, PutInBody DEF LastMembers, Depth
<1>4. CASE LastMembers(todo) /\ AtHead /\ Len(todo) >= 3 /\ InHead(todo[1])
  <2>1. Tabled' /\ index'["var"] = index["var"]
    BY SameTables DEF put
  <2>2. todo[1].cmds = <<>> /\ out \o <<>> = out
    BY <1>1, <1>4, WithNothing DEF InHead, IInv, Typed
  <2>3. Continue(<<>>) /\ UNCHANGED <<source, out, labels, failed>>
    BY <1>1, <2>2 DEF put
  <2> DEFINE u == todo'
             v == index'["var"]
  <2>4. u = <<>> \o Tail(todo) /\ HeadOf(todo, v)
    BY <1>4, <2>1, <2>3 DEF Continue, AtHead
  <2> HIDE DEF u, v
  <2>5. Sequence(u) /\ LastMembers(u) /\ HeadOf(u, v) /\ Quiet(todo)
    BY <1>1, <1>4, <2>4, HeadShift, QuietThere
  <2> QED
    BY <1>1, <2>1, <2>3, <2>5, DeclStep DEF u, v
<1> QED
  BY <1>2, <1>3, <1>4

-----------------------------------------------------------------------------
(* What a subroutine puts in front of its body declares no local variable.  *)
Fore(x)      == InHead(x) /\ ~(x.do = "names" /\ x.kind = "var")
ForeAll(s) == Sequence(s) /\ \A k \in 1 .. Len(s) : Fore(s[k])

LEMMA ForeConcat ==
  ASSUME NEW s, NEW t, ForeAll(s), ForeAll(t)
  PROVE  ForeAll(s \o t)
<1> DEFINE p == s \o t
<1>1. /\ Sequence(p) /\ Len(p) = Len(s) + Len(t) /\ Len(s) \in Nat /\ Len(t) \in Nat
      /\ \A k \in 1 .. Len(s) : p[k] = s[k]
      /\ \A k \in Len(s) + 1 .. Len(s) + Len(t) : p[k] = t[k - Len(s)]
  BY ConcatFacts, SequenceFacts DEF ForeAll
<1> HIDE DEF p
<1>2. ASSUME NEW m \in 1 .. Len(p) PROVE Fore(p[m])
  <2>1. CASE m <= Len(s)
    BY <1>1, <2>1 DEF ForeAll
  <2>2. CASE ~(m <= Len(s))
    <3>1. m \in Len(s) + 1 .. Len(s) + Len(t) /\ m - Len(s) \in 1 .. Len(t)
      BY <1>1, <2>2
    <3> QED
      BY <1>1, <3>1 DEF ForeAll
  <2> QED
    BY <2>1, <2>2
<1>3. ForeAll(p)
  BY <1>1, <1>2 DEF ForeAll
<1> QED
  BY <1>3 DEF p

LEMMA ForeTuple ==
  ASSUME NEW x, Fore(x)
  PROVE  ForeAll(<<x>>)
<1>1. \A m \in 1 .. 1 : m = 1
  OBVIOUS
<1> QED
  BY <1>1, Tuple1 DEF ForeAll

LEMMA SubroutineRule ==
  ASSUME IInv, compile_subroutine_dec
  PROVE  IInv'
<1>1. todo # <<>> /\ todo[1].do = "subroutine" /\ Sequence(todo)
  BY NowIs DEF compile_subroutine_dec, IInv, Typed
<1>2. LastMembers(todo) /\ Len(todo) = 2
  BY <1>1, Where DEF InHead, InCode, CodeItems
<1>3. MembersOf(todo) /\ Quiet(todo)
  <2>1. MembersOf(todo)
    BY <1>1, <1>2 DEF MembersOf
  <2> QED
    BY <1>1, <1>2, <2>1, QuietThere
<1> DEFINE prefix == Tok.val
           name   == Peek(2).val
           object == IF prefix = "method" THEN <<Item("this")>> ELSE <<>>
           params == IF Has(Peek(4), ")") THEN <<>> ELSE <<Names("argument", "")>>
           body   == Body(name, prefix, 0)
           last   == <<Put(2, <<>>), body>>
           fore   == object \o params \o <<Put(2, <<>>)>>
           items  == object \o params \o last
           u == todo'
           v == index'["var"]
<1>4. Continue(items) /\ UNCHANGED <<source, out, labels, failed>>
  BY DEF compile_subroutine_dec
<1>5. Tabled' /\ v = 0
  <2>1. index' = [index EXCEPT !["var"] = 0, !["argument"] = 0] /\ subroutineTable' = <<>> /\ classTable' = classTable
    BY DEF compile_subroutine_dec, startSubroutine
  <2>2. /\ Sequence(classTable) /\ index \in [Kinds -> Nat]
        /\ index["static"] + index["field"] = Len(classTable)
        /\ \A i \in 1 .. Len(classTable) : classTable[i].kind \in {"static", "field"}
    BY DEF IInv, Tabled
  <2>3. /\ index' \in [Kinds -> Nat] /\ index'["var"] = 0 /\ index'["argument"] = 0
        /\ index'["static"] = index["static"] /\ index'["field"] = index["field"]
    BY <2>1, <2>2 DEF Kinds
  <2> QED
    BY <2>1, <2>2, <2>3, NoItems DEF Tabled
<1>6. ForeAll(object) /\ ForeAll(params) /\ ForeAll(<<Put(2, <<>>)>>)
  <2>1. Fore(Item("this")) /\ Fore(Names("argument", "")) /\ Fore(Put(2, <<>>))
    BY DEF Fore, InHead, Item, Names, Put
  <2>2. ForeAll(<<>>)
    BY NoItems DEF ForeAll
  <2> QED
    BY <2>1, <2>2, ForeTuple
<1>7. body.do = "body" /\ body = Body(body.name, body.prefix, 0)
  BY DEF Body
<1> HIDE DEF prefix, name, object, params, body, u, v
<1>8. ForeAll(object \o params) /\ Sequence(last) /\ Len(last) = 2 /\ last[1] = Put(2, <<>>) /\ last[2] = body
  BY <1>6, ForeConcat, Tuple2
<1> DEFINE front == object \o params
<1>9. items = front \o last
  OBVIOUS
<1>10. ForeAll(front) /\ Sequence(front)
  BY <1>8 DEF ForeAll
<1> HIDE DEF last, front, items
<1>11. /\ Sequence(items) /\ Len(front) \in Nat /\ Len(items) = Len(front) + 2
       /\ \A k \in 1 .. Len(front) : items[k] = front[k]
       /\ items[Len(front) + 1] = Put(2, <<>>) /\ items[Len(front) + 2] = body
  <2>1. /\ Sequence(items) /\ Len(front) \in Nat /\ Len(items) = Len(front) + Len(last)
        /\ \A k \in 1 .. Len(front) : items[k] = front[k]
        /\ \A k \in Len(front) + 1 .. Len(front) + Len(last) : items[k] = last[k - Len(front)]
    BY <1>8, <1>9, <1>10, ConcatFacts, SequenceFacts
  <2>2. /\ Len(front) + 1 \in Len(front) + 1 .. Len(front) + Len(last) /\ Len(front) + 1 - Len(front) = 1
        /\ Len(front) + 2 \in Len(front) + 1 .. Len(front) + Len(last) /\ Len(front) + 2 - Len(front) = 2
    BY <1>8, <2>1
  <2> QED
    BY <1>8, <2>1, <2>2
<1>12. Replaced(todo, items, u)
  BY <1>1, <1>4, <1>11, ContinueIs DEF u
<1>13. /\ Sequence(u) /\ Len(u) = Len(items) + 1 /\ Len(items) \in Nat
       /\ \A k \in 1 .. Len(items) : u[k] = items[k]
       /\ u[Len(u)] = Item("members")
  <2>1. /\ Sequence(u) /\ Len(u) = Len(items) + 1 /\ Len(items) \in Nat
        /\ \A k \in 1 .. Len(items) : u[k] = items[k]
        /\ \A k \in Len(items) + 1 .. Len(u) : u[k] = todo[k + 1 - Len(items)]
    BY <1>2, <1>12 DEF Replaced
  <2>2. Len(u) \in Len(items) + 1 .. Len(u) /\ Len(u) + 1 - Len(items) = 2
    BY <2>1
  <2> QED
    BY <1>2, <2>1, <2>2 DEF LastMembers
<1>14. LastMembers(u)
  BY <1>13 DEF LastMembers
<1>15. HeadOf(u, v)
  <2>1. Len(u) - 1 = Len(front) + 2 /\ Len(front) + 2 \in 1 .. Len(items)
    BY <1>11, <1>13
  <2>2. u[Len(u) - 1] = body
    BY <1>11, <1>13, <2>1
  <2>3. ASSUME NEW k \in 1 .. Len(u) - 2 PROVE Fore(u[k])
    <3>1. k \in 1 .. Len(items) /\ (k \in 1 .. Len(front) \/ k = Len(front) + 1)
      BY <1>11, <1>13
    <3>2. Fore(Put(2, <<>>))
      BY DEF Fore, InHead, Put
    <3> QED
      BY <1>10, <1>11, <1>13, <3>1, <3>2 DEF ForeAll
  <2>4. Len(u) >= 2
    BY <1>11, <1>13
  <2> QED
    BY <1>5, <1>7, <2>2, <2>3, <2>4 DEF HeadOf, Fore
<1> QED
  BY <1>1, <1>3, <1>4, <1>5, <1>13, <1>14, <1>15, DeclStep DEF u, v

-----------------------------------------------------------------------------
(* The body: declarations of local variables, then the code.                *)
LEMMA BodyNow ==
  ASSUME IInv, Now("body")
  PROVE  /\ todo # <<>> /\ Sequence(todo) /\ This = todo[1] /\ Quiet(todo) /\ LastMembers(todo) /\ Len(todo) = 2
         /\ This.do = "body" /\ This = Body(This.name, This.prefix, index["var"])
         /\ todo[2] = Item("members")
<1>1. todo # <<>> /\ todo[1].do = "body" /\ Sequence(todo) /\ This = todo[1]
  BY NowIs DEF IInv, Typed
<1>2. LastMembers(todo) /\ AtHead /\ Len(todo) = 2
  BY <1>1, Where DEF InHead, InCode, CodeItems
<1>3. HeadOf(todo, index["var"]) /\ Len(todo) - 1 = 1
  BY <1>2 DEF AtHead
<1>4. todo[1] = Body(todo[1].name, todo[1].prefix, index["var"])
  BY <1>3 DEF HeadOf
<1>5. Quiet(todo)
  BY <1>1, <1>2, <1>3, QuietThere
<1> QED
  BY <1>1, <1>2, <1>4, <1>5 DEF LastMembers

LEMMA BodyVars ==
  ASSUME IInv, Now("body"), NEW type, Continue(<<Names("var", type), This>>),
         UNCHANGED <<source, out, tables, labels, failed>>
  PROVE  IInv'
<1>1. /\ todo # <<>> /\ Sequence(todo) /\ Quiet(todo) /\ Len(todo) = 2 /\ todo[2] = Item("members")
      /\ This.do = "body" /\ This = Body(This.name, This.prefix, index["var"])
  BY BodyNow
<1>2. Tabled' /\ index'["var"] = index["var"]
  BY SameTables
<1> DEFINE items == <<Names("var", type), This>>
           u == todo'
           v == index'["var"]
<1>3. Sequence(items) /\ Len(items) = 2 /\ items[1] = Names("var", type) /\ items[2] = This /\ Continue(items)
  BY Tuple2
<1> HIDE DEF items, u, v
<1>4. Replaced(todo, items, u)
  BY <1>1, <1>3, ContinueIs DEF u
<1>5. Sequence(u) /\ Len(u) = 3 /\ u[1] = items[1] /\ u[2] = items[2] /\ u[3] = todo[2]
  <2>1. /\ Sequence(u) /\ Len(u) = 2 + 2 - 1
        /\ \A k \in 1 .. 2 : u[k] = items[k]
        /\ \A k \in 2 + 1 .. Len(u) : u[k] = todo[k + 1 - 2]
    BY <1>1, <1>3, <1>4 DEF Replaced
  <2>2. 3 \in 2 + 1 .. Len(u) /\ 3 + 1 - 2 = 2
    BY <2>1
  <2> QED
    BY <2>1, <2>2
<1>6. LastMembers(u)
  BY <1>1, <1>5 DEF LastMembers
<1>7. Len(u) >= 2 /\ Len(u) - 1 = 2 /\ \A k \in 1 .. Len(u) - 2 : k = 1
  BY <1>5
<1>8. InHead(u[1])
  BY <1>3, <1>5 DEF InHead, Names
<1>9. u[2].do = "body" /\ u[2] = Body(u[2].name, u[2].prefix, v)
  BY <1>1, <1>2, <1>3, <1>5 DEF v
<1>10. HeadOf(u, v)
  BY <1>5, <1>7, <1>8, <1>9 DEF HeadOf
<1> QED
  BY <1>1, <1>2, <1>5, <1>6, <1>10, DeclStep DEF u, v

(* The function is written when its locals are counted.                     *)
LEMMA BodyCode ==
  ASSUME IInv, Now("body"), NEW more, Plain(more), NEW n, n = This.count, NEW name,
         out' = out \o <<Function(name, n)>> \o more,
         NEW items, GoodAll(items), Quiet(items), Continue(items),
         UNCHANGED <<source, tables, labels, failed>>
  PROVE  IInv'
<1>1. /\ todo # <<>> /\ Sequence(todo) /\ Quiet(todo) /\ Len(todo) = 2 /\ todo[2] = Item("members")
      /\ This = Body(This.name, This.prefix, index["var"])
  BY BodyNow
<1>2. Tabled' /\ index'["var"] = index["var"]
  BY SameTables
<1>3. n = index["var"]
  <2>1. \A a, b, c : Body(a, b, c).count = c
    BY DEF Body
  <2> QED
    BY <1>1, <2>1
<1> DEFINE u == todo'
           v == index'["var"]
           p == out'
           fn == Function(name, n)
           o == out \o <<fn>>
<1>4. /\ if_label_index' = if_label_index /\ while_label_index' = while_label_index
      /\ source' = source /\ failed' = failed /\ failed = FALSE
      /\ LabelsApart(out, todo, if_label_index, while_label_index) /\ JumpsKept(out, todo) /\ LocalsHeld(out)
      /\ Sequence(out) /\ (out # <<>> => out[1].op = "function")
  BY <1>1 DEF labels, IInv, Typed
<1>5. /\ fn.op = "function" /\ fn.locals = n /\ ~IsLabel(fn) /\ ~IsJump(fn) /\ ~IsLocal(fn)
  BY DEF Function, IsLabel, IsJump, IsLocal
<1>6. p = o \o more
  OBVIOUS
<1>7. Replaced(todo, items, u)
  BY <1>1, ContinueIs DEF GoodAll
<1> HIDE DEF u, v, p, fn
<1>8. Sequence(<<fn>>) /\ Len(<<fn>>) = 1 /\ <<fn>>[1] = fn
  BY Tuple1
<1>9. /\ Sequence(o) /\ Len(o) = Len(out) + 1 /\ Len(out) \in Nat
      /\ \A i \in 1 .. Len(out) : o[i] = out[i]
      /\ o[Len(o)] = fn
  <2> DEFINE q == <<fn>>
  <2>1. Sequence(q) /\ Len(q) = 1 /\ q[1] = fn /\ o = out \o q
    BY <1>8
  <2> HIDE DEF q, o
  <2>2. /\ Sequence(o) /\ Len(o) = Len(out) + 1 /\ Len(out) \in Nat
        /\ \A i \in 1 .. Len(out) : o[i] = out[i]
        /\ \A k \in Len(out) + 1 .. Len(out) + 1 : o[k] = q[k - Len(out)]
    <3>1. Longer(out, q, o)
      BY <1>4, <2>1, Extended
    <3> QED
      BY <2>1, <3>1 DEF Longer
  <2>3. Len(o) \in Len(out) + 1 .. Len(out) + 1 /\ Len(o) - Len(out) = 1
    BY <2>2
  <2> QED
    BY <2>1, <2>2, <2>3
<1>10. o # <<>> /\ o[1].op = "function"
  <2>1. CASE out = <<>>
    <3>1. Len(o) = 1
      BY <1>9, <2>1, NoItems
    <3> QED
      BY <1>5, <1>9, <3>1, SequenceFacts
  <2>2. CASE out # <<>>
    <3>1. 1 \in 1 .. Len(out) /\ Len(o) # 0
      BY <1>4, <1>9, <2>2, SequenceFacts
    <3> QED
      BY <1>4, <1>9, <2>2, <3>1, SequenceFacts
  <2> QED
    BY <2>1, <2>2
<1>11. \A m \in 1 .. 1 : m = 1
  OBVIOUS
<1>12. /\ LabelsApart(o, todo, if_label_index, while_label_index) /\ JumpsKept(o, todo) /\ LocalsHeld(o)
  <2> DEFINE q == <<fn>>
  <2>1. /\ Sequence(q) /\ o = out \o q
        /\ \A m \in 1 .. Len(q) : ~IsLabel(q[m]) /\ ~IsJump(q[m]) /\ ~IsLocal(q[m])
    BY <1>5, <1>8, <1>11
  <2> HIDE DEF q, o
  <2> QED
    BY <1>1, <1>4, <2>1, QuietApart
<1>13. StartIn(o, Len(o)) = Len(o)
  <2>1. LastFunction(o, Len(o), Len(o))
    <3>1. Len(o) \in 1 .. Len(o) /\ \A j \in Len(o) + 1 .. Len(o) : FALSE
      BY <1>9
    <3> HIDE DEF o
    <3> QED
      BY <1>5, <1>9, <3>1 DEF LastFunction
  <2>2. Len(o) \in Nat
    BY <1>9
  <2> HIDE DEF o
  <2> QED
    BY <2>1, <2>2, StartIs
<1>14. Sequence(more) /\ \A m \in 1 .. Len(more) :
         more[m].op # "function" /\ ~IsLabel(more[m]) /\ ~IsJump(more[m]) /\ ~IsLocal(more[m])
  BY DEF Plain, PlainCmd, PlainOps, IsLabel, IsJump, IsLocal
<1> HIDE DEF o
<1>15. /\ Len(items) \in Nat /\ Sequence(u) /\ Len(u) = Len(items) + 1
       /\ \A k \in 1 .. Len(items) : u[k] = items[k]
       /\ u[Len(items) + 1] = Item("members")
  <2>1. /\ Len(items) \in Nat /\ Sequence(u) /\ Len(u) = Len(items) + 1
        /\ \A k \in 1 .. Len(items) : u[k] = items[k]
        /\ \A k \in Len(items) + 1 .. Len(u) : u[k] = todo[k + 1 - Len(items)]
    BY <1>1, <1>7 DEF Replaced
  <2>2. Len(items) + 1 \in Len(items) + 1 .. Len(u) /\ Len(items) + 1 + 1 - Len(items) = 2
    BY <2>1
  <2> QED
    BY <1>1, <2>1, <2>2
<1>16. Quiet(u)
  <2>1. SUFFICES ASSUME NEW k \in Nat, NEW m \in Nat, Waits(u, k, m) PROVE FALSE
    BY DEF Quiet
  <2>2. k \in 1 .. Len(items) \/ k = Len(items) + 1
    BY <1>15, <2>1 DEF Waits
  <2>3. CASE k \in 1 .. Len(items)
    BY <1>15, <2>1, <2>3 DEF Quiet, Waits
  <2>4. CASE k = Len(items) + 1
    BY <1>15, <2>1, <2>4 DEF Waits, Item
  <2> QED
    BY <2>2, <2>3, <2>4
<1>17. LabelsApart(p, u, if_label_index, while_label_index) /\ JumpsKept(p, u) /\ LocalsHeld(p)
  <2>1. Sequence(o) /\ p = o \o more
    BY <1>6, <1>9
  <2>2. Sequence(more) /\ \A m \in 1 .. Len(more) : ~IsLabel(more[m]) /\ ~IsJump(more[m]) /\ ~IsLocal(more[m])
    BY <1>14
  <2>3. Quiet(todo) /\ Quiet(u) /\ (o # <<>> => o[1].op = "function")
    BY <1>1, <1>10, <1>16
  <2> QED
    BY <1>12, <2>1, <2>2, <2>3, QuietApart, ZenonT(40)
<1>18. p[StartIn(p, Len(p))] = fn
  <2>1. p[StartIn(p, Len(p))] = o[StartIn(o, Len(o))]
    BY <1>6, <1>9, <1>10, <1>12, <1>14, EmitLocals, ZenonT(60)
  <2> QED
    BY <1>9, <1>13, <2>1
<1>19. Sequence(p) /\ p # <<>> /\ p[1].op = "function"
  <2>1. Sequence(p) /\ Len(p) >= Len(o) /\ Len(o) \in Nat \ {0} /\ \A i \in 1 .. Len(o) : p[i] = o[i]
    BY <1>6, <1>9, <1>14, ConcatFacts, SequenceFacts
  <2>2. 1 \in 1 .. Len(o) /\ Len(p) # 0
    BY <2>1
  <2> QED
    BY <1>10, <2>1, <2>2, SequenceFacts
<1>20. Typed'
  BY <1>4, <1>15, <1>19 DEF IInv, Typed, u, p
<1>21. \A k \in 1 .. Len(items) : InCode(items[k])
  BY GoodIs DEF GoodAll
<1>22. Len(u) >= 1 /\ u[Len(u)] = Item("members") /\ \A k \in 1 .. Len(u) - 1 : InCode(u[k])
  <2>1. Len(u) >= 1 /\ Len(u) - 1 = Len(items)
    BY <1>15
  <2> QED
    BY <1>15, <1>21, <2>1
<1>23. Layout'
  BY <1>2, <1>3, <1>5, <1>18, <1>19, <1>22 DEF Layout, AtCode, Depth, u, v, p
<1> QED
  BY <1>2, <1>4, <1>17, <1>20, <1>23 DEF IInv, u, p

LEMMA BodyRule ==
  ASSUME IInv, compile_subroutine_body
  PROVE  IInv'
<1>1. Now("body") /\ UNCHANGED <<source, tables, labels, failed>>
  BY DEF compile_subroutine_body
<1>2. CASE Continue(<<Names("var", Peek(1).val), This>>) /\ UNCHANGED out
  BY <1>1, <1>2, BodyVars
<1>3. CASE ~Has(Tok, "var")
  <2> DEFINE more == CASE This.prefix = "constructor" -> write_constructor
                       [] This.prefix = "method" -> <<Push("argument", 0), Pop("pointer", 0)>>
                       [] OTHER -> <<>>
             object == IF This.prefix = "method" THEN <<Item("this")>> ELSE <<>>
             code   == <<Item("statements"), Put(1, <<>>)>>
             items  == object \o code
  <2>1. /\ out' = out \o <<Function(<<class_name, ".", This.name>>, This.count)>> \o more
        /\ Continue(items)
    BY <1>3 DEF compile_subroutine_body
  <2>2. Plain(more)
    <3>1. more = write_constructor \/ more = <<Push("argument", 0), Pop("pointer", 0)>> \/ more = <<>>
      OBVIOUS
    <3>2. Plain(write_constructor)
      BY PlainRuns, PlainCmds DEF write_constructor
    <3>3. Plain(<<Push("argument", 0), Pop("pointer", 0)>>)
      BY PlainRuns, PlainCmds
    <3> HIDE DEF more
    <3> QED
      BY <3>1, <3>2, <3>3, PlainRuns
  <2>3. GoodAll(object) /\ (\A k \in 1 .. Len(object) : object[k].do # "put")
    <3>1. GoodAll(<<>>) /\ GoodAll(<<Item("this")>>)
      BY GoodItems, GoodTuples DEF CodeItems
    <3>2. \A k \in 1 .. Len(<<Item("this")>>) : <<Item("this")>>[k].do # "put"
      <4>1. \A m \in 1 .. 1 : m = 1
        OBVIOUS
      <4> QED
        BY <4>1, Tuple1 DEF Item
    <3>3. \A k \in 1 .. Len(<<>>) : FALSE
      BY NoItems
    <3> QED
      BY <3>1, <3>2, <3>3
  <2>4. GoodAll(code) /\ Sequence(code) /\ Len(code) = 2 /\ code[1] = Item("statements") /\ code[2] = Put(1, <<>>)
    BY GoodItems, GoodTuples, PlainRuns, Tuple2 DEF CodeItems
  <2> HIDE DEF more, object, code
  <2>5. GoodAll(items)
    BY <2>3, <2>4, GoodConcat
  <2>6. Quiet(items)
    <3>1. SUFFICES ASSUME NEW k \in Nat, NEW m \in Nat, Waits(items, k, m) PROVE FALSE
      BY DEF Quiet
    <3>2. /\ Len(object) \in Nat /\ Len(items) = Len(object) + 2
          /\ \A i \in 1 .. Len(object) : items[i] = object[i]
          /\ \A i \in Len(object) + 1 .. Len(object) + 2 : items[i] = code[i - Len(object)]
      <4>1. Sequence(object) /\ Len(object) \in Nat
        BY <2>3, SequenceFacts DEF GoodAll
      <4>2. /\ Len(object \o code) = Len(object) + Len(code)
            /\ \A i \in 1 .. Len(object) : (object \o code)[i] = object[i]
            /\ \A i \in Len(object) + 1 .. Len(object) + Len(code) : (object \o code)[i] = code[i - Len(object)]
        BY <2>4, <4>1, ConcatFacts
      <4> QED
        BY <2>4, <4>1, <4>2
    <3> HIDE DEF items
    <3>3. k \in 1 .. Len(items) /\ items[k].do = "put" /\ m \in 1 .. Len(items[k].cmds)
      BY <3>1 DEF Waits
    <3>4. ~(k \in 1 .. Len(object))
      BY <2>3, <3>2, <3>3
    <3>5. k \in Len(object) + 1 .. Len(object) + 2 /\ (k - Len(object) = 1 \/ k - Len(object) = 2)
      BY <3>2, <3>3, <3>4
    <3>6. items[k] = Item("statements") \/ items[k] = Put(1, <<>>)
      BY <2>4, <3>2, <3>5
    <3> QED
      BY <3>3, <3>6, NoItems DEF Item, Put
  <2> HIDE DEF items
  <2> QED
    BY <1>1, <2>1, <2>2, <2>5, <2>6, BodyCode
<1> QED
  BY <1>2, <1>3 DEF compile_subroutine_body

-----------------------------------------------------------------------------
LEMMA InitHolds == Init => IInv
<1> SUFFICES ASSUME Init PROVE IInv
  OBVIOUS
<1>1. /\ source \in Sources /\ out = <<>> /\ failed = FALSE /\ todo = <<Item("class")>>
      /\ classTable = <<>> /\ subroutineTable = <<>> /\ index = [kind \in Kinds |-> 0]
      /\ if_label_index = 0 /\ while_label_index = 0
  BY DEF Init, Kinds
<1>2. Sequence(todo) /\ Quiet(todo)
  BY <1>1, Tuple1, QuietNone
<1>3. Sequence(<<>>) /\ \A i \in 1 .. Len(<<>>) : FALSE
  BY NoItems
<1>4. Typed
  BY <1>1, <1>2, <1>3 DEF Typed
<1>5. Tabled
  <2>1. /\ index \in [Kinds -> Nat] /\ index["static"] = 0 /\ index["field"] = 0
        /\ index["argument"] = 0 /\ index["var"] = 0
    BY <1>1 DEF Kinds
  <2> QED
    BY <1>1, <1>3, <2>1, NoItems DEF Tabled
<1>6. Layout
  BY <1>1 DEF Layout
<1>7. LocalsHeld(out) /\ LabelsApart(out, todo, if_label_index, while_label_index) /\ JumpsKept(out, todo)
  BY <1>1, <1>2, <1>3 DEF LocalsHeld, LabelsApart, JumpsKept, Quiet
<1> QED
  BY <1>4, <1>5, <1>6, <1>7 DEF IInv

LEMMA StepKeeps ==
  ASSUME IInv, [Next]_vars
  PROVE  IInv'
<1>1. CASE UNCHANGED vars
  BY <1>1 DEF vars, tables, labels, IInv, Typed, Tabled, Layout, Depth, AtMembers, AtHead, AtCode
<1> QED
  BY <1>1, PutRule, NameRule, ClassRule, MembersRule, ClassVarRule, SubroutineRule, ThisRule,
     ParameterRule, VarRule, BodyRule, StatementRules, ExpressionRules, TermRule, CallRule
     DEF Next, Finished

(* What the invariant says of the code written so far.                      *)
LEMMA InvariantMeans ==
  ASSUME IInv
  PROVE  JumpsLand /\ LocalsCounted
<1>1. DOMAIN out = 1 .. Len(out)
  BY SequenceFacts DEF IInv, Typed
<1>2. \A i : Start(i) = StartIn(out, i)
  BY DEF Start, StartIn
<1>3. JumpsLand
  <2>1. \A i, j \in DOMAIN out :
          out[i].op = "label" /\ out[j].op = "label" /\ out[i].to = out[j].to => i = j
    BY <1>1 DEF IInv, LabelsApart, IsLabel
  <2>2. ASSUME Done, NEW i \in DOMAIN out, out[i].op \in {"goto", "if-goto"}
        PROVE  \E j \in DOMAIN out : out[j] = Label(out[i].to) /\ SameFunction(i, j)
    <3>1. JumpsKept(out, <<>>)
      BY <2>2 DEF Done, IInv
    <3>2. ~Waiting(<<>>, out[i].to)
      BY QuietNone DEF Waiting, Quiet
    <3>3. Written(out, out[i].to, i)
      BY <1>1, <2>2, <3>1, <3>2 DEF JumpsKept, IsJump
    <3>4. PICK j \in 1 .. Len(out) : out[j] = Label(out[i].to) /\ StartIn(out, j) = StartIn(out, i)
      BY <3>3 DEF Written
    <3> QED
      BY <1>1, <1>2, <3>4 DEF SameFunction
  <2> QED
    BY <2>1, <2>2 DEF JumpsLand
<1>4. TypeOK
  BY DEF IInv, Typed, Tabled, TypeOK, Kinds
<1>5. \A i \in DOMAIN out :
        out[i].op \in {"push", "pop"} /\ out[i].seg = "local" => out[i].idx < out[Start(i)].locals
  BY <1>1, <1>2 DEF IInv, LocalsHeld, IsLocal
<1> QED
  BY <1>3, <1>4, <1>5 DEF LocalsCounted

(* The invariant holds whatever the tokens are.                             *)
LEMMA Invariance == Spec => []IInv
<1>1. Init => IInv
  BY InitHolds
<1>2. IInv /\ [Next]_vars => IInv'
  BY StepKeeps
<1> QED
  BY <1>1, <1>2, PTL DEF Spec

(* No label is written twice in the code of a class, and every jump of the  *)
(* finished code lands in its own function (get_if_label, get_while_label   *)
(* and the order of the writes in compile_if_statement and                  *)
(* compile_while_statement), for tokens in any order.                       *)
THEOREM JumpsAlwaysLand == Spec => []JumpsLand
<1>1. IInv => JumpsLand
  BY InvariantMeans
<1> QED
  BY <1>1, Invariance, PTL

(* No command names a local variable past those its function asks for: the  *)
(* count compile_subroutine_body adds up is the one the symbol table keeps. *)
THEOREM LocalsAlwaysCounted == Spec => []LocalsCounted
<1>1. IInv => LocalsCounted
  BY InvariantMeans
<1> QED
  BY <1>1, Invariance, PTL
=============================================================================
