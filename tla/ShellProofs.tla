----------------------------- MODULE ShellProofs ------------------------------
(***************************************************************************)
(* What Shell promises, for every session and every bound: the line buffer *)
(* and its pointer stay in range, a line is cut into its words, a command  *)
(* runs exactly as long as there are descriptors for it, and the walk      *)
(* keeps its paths and counts once whatever is there all the time.         *)
(***************************************************************************)
EXTENDS Shell, SequenceTheorems, FiniteSetTheorems, WellFoundedInduction, TLAPS

(***************************************************************************)
(* The path buffer of DirectoryWalk: what a call of dopath writes behind    *)
(* its ptr leaves alone what the calls around it have in front of theirs.  *)
(***************************************************************************)
Symbol == STRING \cup {"/", ".", ".."}

(* A text begins with that of d and a slash; it is the text of q.           *)
Begins(text, d) ==
  /\ 2 * Len(d) <= Len(text)
  /\ \A k \in 1 .. Len(d) : text[2 * k - 1] = d[k] /\ text[2 * k] = "/"
Spells(text, q) ==
  /\ Len(text) = 2 * Len(q) - 1
  /\ \A k \in 1 .. Len(q) : text[2 * k - 1] = q[k]
  /\ \A k \in 1 .. Len(q) - 1 : text[2 * k] = "/"

(* An entry of the innermost directory, or the root.                        *)
Placed(q) ==
  /\ Len(q) = Len(stack) + 1
  /\ stack # <<>> => Front(q) = stack[1].dir

Call == [dir : Seq(Symbol), ptr : Nat, left : SUBSET Symbol]

WalkTyped ==
  /\ \A q \in DOMAIN disk : q \in Seq(STRING)
  /\ fullpath \in Seq(Symbol)
  /\ stack \in Seq(Call)
  /\ walk \in {"none", "lstat", "opendir", "readdir", "ended", "failed", "killed"}

Nested ==
  \A i \in 1 .. Len(stack) :
    /\ Len(stack[i].dir) = Len(stack) + 1 - i
    /\ stack[i].ptr = 2 * Len(stack[i].dir) + 1
    /\ Begins(fullpath, stack[i].dir)

Looking ==
  /\ walk = "lstat" => Spells(fullpath, Here) /\ Placed(Here)
  /\ walk = "opendir" => Begins(fullpath, Here) /\ Len(fullpath) = 2 * Len(Here) /\ Placed(Here)
  /\ walk = "readdir" => stack # <<>>
  /\ walk = "ended" => Len(fullpath) = 1

WalkInv == WalkTyped /\ Nested /\ Looking

-----------------------------------------------------------------------------
(* Texts                                                                   *)
LEMMA PathTyped ==
  ASSUME NEW t \in Seq(Symbol)
  PROVE  PathOf(t) \in Seq(Symbol) /\ Len(PathOf(t)) = (Len(t) + 1) \div 2
<1> DEFINE n == (Len(t) + 1) \div 2
<1>1. Len(t) \in Nat /\ n \in Nat
  BY LenProperties
<1>2. \A i \in 1 .. n : t[2 * i - 1] \in Symbol
  <2> SUFFICES ASSUME NEW i \in 1 .. n PROVE t[2 * i - 1] \in Symbol
    OBVIOUS
  <2>1. 2 * i - 1 \in 1 .. Len(t)
    BY <1>1
  <2> QED
    BY <2>1, ElementOfSeq
<1> HIDE DEF n
<1>3. [i \in 1 .. n |-> t[2 * i - 1]] \in [1 .. n -> Symbol]
  BY <1>2
<1>4. PathOf(t) = [i \in 1 .. n |-> t[2 * i - 1]]
  BY DEF PathOf, n
<1>5. [1 .. n -> Symbol] \subseteq Seq(Symbol)
  BY <1>1
<1>6. PathOf(t) \in Seq(Symbol) /\ Len(PathOf(t)) = n
  BY <1>1, <1>3, <1>4, <1>5
<1> QED
  BY <1>6 DEF n

LEMMA PathSpelt ==
  ASSUME NEW t \in Seq(Symbol), NEW q \in Seq(Symbol), Spells(t, q)
  PROVE  PathOf(t) = q
<1>1. Len(q) \in Nat /\ Len(t) = 2 * Len(q) - 1
  BY LenProperties DEF Spells
<1>2. (Len(t) + 1) \div 2 = Len(q)
  BY <1>1
<1>3. \A i \in 1 .. Len(q) : PathOf(t)[i] = q[i]
  BY <1>2 DEF PathOf, Spells
<1> QED
  BY <1>2, <1>3, PathTyped, SeqEqual

LEMMA PathBegun ==
  ASSUME NEW t \in Seq(Symbol), NEW q \in Seq(Symbol), Begins(t, q), Len(t) = 2 * Len(q)
  PROVE  PathOf(t) = q
<1>1. Len(q) \in Nat
  BY LenProperties
<1>2. (Len(t) + 1) \div 2 = Len(q)
  BY <1>1
<1>3. \A i \in 1 .. Len(q) : PathOf(t)[i] = q[i]
  BY <1>2 DEF PathOf, Begins
<1> QED
  BY <1>2, <1>3, PathTyped, SeqEqual

LEMMA TextTyped ==
  ASSUME NEW q \in Seq(Symbol), q # <<>>
  PROVE  /\ Text(q) \in Seq(Symbol) /\ Len(Text(q)) = 2 * Len(q) - 1
         /\ \A k \in 1 .. Len(q) : Text(q)[2 * k - 1] = q[k]
         /\ \A k \in 1 .. Len(q) - 1 : Text(q)[2 * k] = "/"
<1> DEFINE n == 2 * Len(q) - 1
           e(i) == IF i % 2 = 1 THEN q[(i + 1) \div 2] ELSE "/"
<1>1. Len(q) \in Nat \ {0} /\ n \in Nat
  <2>1. Len(q) \in Nat \ {0}
    BY EmptySeq
  <2> QED
    BY <2>1
<1>2. \A i \in 1 .. n : e(i) \in Symbol
  <2> SUFFICES ASSUME NEW i \in 1 .. n PROVE e(i) \in Symbol
    OBVIOUS
  <2>1. CASE i % 2 = 1
    <3>1. (i + 1) \div 2 \in 1 .. Len(q)
      BY <1>1, <2>1
    <3> QED
      BY <2>1, <3>1, ElementOfSeq
  <2>2. CASE i % 2 # 1
    BY <2>2 DEF Symbol
  <2> QED
    BY <2>1, <2>2
<1> DEFINE f == [i \in 1 .. n |-> e(i)]
<1>3. Text(q) = f
  BY DEF Text
<1>4. \A k \in 1 .. Len(q) : f[2 * k - 1] = q[k]
  <2> SUFFICES ASSUME NEW k \in 1 .. Len(q) PROVE f[2 * k - 1] = q[k]
    OBVIOUS
  <2>1. 2 * k - 1 \in 1 .. n /\ (2 * k - 1) % 2 = 1 /\ ((2 * k - 1) + 1) \div 2 = k
    BY <1>1
  <2> QED
    BY <2>1
<1>5. \A k \in 1 .. Len(q) - 1 : f[2 * k] = "/"
  <2> SUFFICES ASSUME NEW k \in 1 .. Len(q) - 1 PROVE f[2 * k] = "/"
    OBVIOUS
  <2>1. 2 * k \in 1 .. n /\ (2 * k) % 2 # 1
    BY <1>1
  <2> QED
    BY <2>1
<1>6. f \in [1 .. n -> Symbol]
  BY <1>2
<1> HIDE DEF n, f
<1>7. f \in Seq(Symbol) /\ Len(f) = n
  <2>1. [1 .. n -> Symbol] \subseteq Seq(Symbol)
    BY <1>1
  <2> QED
    BY <1>1, <1>6, <2>1
<1> QED
  BY <1>3, <1>4, <1>5, <1>7 DEF n

LEMMA SpeltIsText ==
  ASSUME NEW t \in Seq(Symbol), NEW q \in Seq(Symbol), q # <<>>, Spells(t, q)
  PROVE  t = Text(q)
<1> DEFINE u == Text(q)
<1>1. /\ u \in Seq(Symbol) /\ Len(u) = 2 * Len(q) - 1 /\ Len(q) \in Nat
      /\ \A k \in 1 .. Len(q) : u[2 * k - 1] = q[k]
      /\ \A k \in 1 .. Len(q) - 1 : u[2 * k] = "/"
  BY TextTyped, LenProperties
<1> HIDE DEF u
<1>2. \A i \in 1 .. Len(t) : t[i] = u[i]
  <2> SUFFICES ASSUME NEW i \in 1 .. Len(t) PROVE t[i] = u[i]
    OBVIOUS
  <2>1. Len(t) = 2 * Len(q) - 1
    BY DEF Spells
  <2>2. CASE \E k \in 1 .. Len(q) : i = 2 * k - 1
    BY <1>1, <2>2 DEF Spells
  <2>3. CASE \E k \in 1 .. Len(q) - 1 : i = 2 * k
    BY <1>1, <2>3 DEF Spells
  <2>4. i = 2 * ((i + 1) \div 2) - 1 \/ i = 2 * (i \div 2)
    BY <1>1, <2>1
  <2>5. /\ i = 2 * ((i + 1) \div 2) - 1 => (i + 1) \div 2 \in 1 .. Len(q)
        /\ i = 2 * (i \div 2) => i \div 2 \in 1 .. Len(q) - 1
    BY <1>1, <2>1
  <2> QED
    BY <2>2, <2>3, <2>4, <2>5
<1>3. t = u
  BY <1>1, <1>2, SeqEqual DEF Spells
<1> QED
  BY <1>3 DEF u

LEMMA BegunIsText ==
  ASSUME NEW t \in Seq(Symbol), NEW d \in Seq(Symbol), d # <<>>, Begins(t, d)
  PROVE  SubSeq(t, 1, 2 * Len(d)) = Append(Text(d), "/")
<1> DEFINE s == SubSeq(t, 1, 2 * Len(d) - 1)
<1>1. Len(d) \in Nat \ {0} /\ Len(t) \in Nat /\ 2 * Len(d) <= Len(t)
  BY EmptySeq, LenProperties DEF Begins
<1>2. \A i \in 1 .. 2 * Len(d) - 1 : t[i] \in Symbol
  BY <1>1, ElementOfSeq
<1>3. /\ s \in Seq(Symbol) /\ Len(s) = 2 * Len(d) - 1
      /\ \A i \in 1 .. 2 * Len(d) - 1 : s[i] = t[i]
  BY <1>1, <1>2, SubSeqProperties
<1> HIDE DEF s
<1>4. Spells(s, d)
  <2>1. \A k \in 1 .. Len(d) : 2 * k - 1 \in 1 .. 2 * Len(d) - 1
    BY <1>1
  <2>2. \A k \in 1 .. Len(d) - 1 : 2 * k \in 1 .. 2 * Len(d) - 1 /\ k \in 1 .. Len(d)
    BY <1>1
  <2> QED
    BY <1>3, <2>1, <2>2 DEF Spells, Begins
<1>5. s = Text(d)
  BY <1>3, <1>4, SpeltIsText
<1>6. SubSeq(t, 1, 2 * Len(d)) = Append(s, "/")
  <2>1. 1 \in 1 .. Len(t) /\ 2 * Len(d) \in 1 .. Len(t)
    BY <1>1
  <2>2. SubSeq(t, 1, 2 * Len(d)) = SubSeq(t, 1, 2 * Len(d) - 1) \o <<t[2 * Len(d)]>>
    BY <2>1, SubSeqRecursiveSecond
  <2>3. t[2 * Len(d)] = "/" /\ "/" \in Symbol
    BY <1>1 DEF Begins, Symbol
  <2> QED
    BY <1>3, <2>2, <2>3, AppendIsConcat DEF s
<1> QED
  BY <1>5, <1>6

-----------------------------------------------------------------------------
(* The steps of the walk.                                                  *)
LEMMA WalkInvInit ==
  ASSUME WalkInit, \A q \in DOMAIN disk : q \in Seq(STRING)
  PROVE  WalkInv
BY EmptySeq DEF WalkInit, WalkInv, WalkTyped, Nested, Looking

(* The files change; the buffer does not.                                  *)
LEMMA WalkStays ==
  ASSUME WalkInv, UNCHANGED walking, \A q \in DOMAIN disk' : q \in Seq(STRING)
  PROVE  WalkInv'
BY DEF WalkInv, WalkTyped, Nested, Looking, Placed, Here, walking

LEMMA ChangeKeepsDisk ==
  ASSUME \A q \in DOMAIN disk : q \in Seq(STRING), Change
  PROVE  \A q \in DOMAIN disk' : q \in Seq(STRING)
<1>1. PICK q \in Paths : disk' = Gone(q) \/ \E k \in ChangedKinds : disk' = Put(q, k)
  BY DEF Change
<1>2. q \in Seq(STRING)
  BY WalkAssumption
<1>3. DOMAIN Gone(q) \subseteq DOMAIN disk
  BY DEF Gone
<1>4. ASSUME NEW k PROVE DOMAIN Put(q, k) = {q} \cup DOMAIN Gone(q)
  BY DEF Put
<1> QED
  BY <1>1, <1>2, <1>3, <1>4

LEMMA StackFacts ==
  ASSUME WalkInv
  PROVE  /\ Len(stack) \in Nat /\ fullpath \in Seq(Symbol) /\ Len(fullpath) \in Nat
         /\ Here \in Seq(Symbol) /\ Len(Here) \in Nat
         /\ \A i \in 1 .. Len(stack) : stack[i] \in Call /\ stack[i].dir \in Seq(Symbol)
                                       /\ stack[i].ptr \in Nat /\ stack[i].left \in SUBSET Symbol
         /\ stack # <<>> => Len(stack) \in Nat \ {0} /\ Head(stack) = stack[1]
<1>1. fullpath \in Seq(Symbol) /\ stack \in Seq(Call)
  BY DEF WalkInv, WalkTyped
<1>2. \A i \in 1 .. Len(stack) : stack[i] \in Call
  BY <1>1, ElementOfSeq
<1>3. Here \in Seq(Symbol)
  BY <1>1, PathTyped DEF Here
<1>4. stack # <<>> => Len(stack) \in Nat \ {0} /\ Head(stack) = stack[1]
  BY <1>1, EmptySeq
<1> QED
  BY <1>1, <1>2, <1>3, <1>4, LenProperties DEF Call

(* A change may give an open directory a name more to return.               *)
LEMMA ListedStack ==
  ASSUME WalkInv, NEW q \in Seq(Symbol), q # <<>>, stack' = Listed(q)
  PROVE  /\ stack' \in Seq(Call) /\ Len(stack') = Len(stack)
         /\ \A i \in 1 .. Len(stack) :
              /\ stack'[i].dir = stack[i].dir /\ stack'[i].ptr = stack[i].ptr
              /\ \/ stack'[i].left = stack[i].left
                 \/ stack[i].dir = Front(q) /\ stack'[i].left = stack[i].left \cup {Last(q)}
<1> DEFINE n == Len(stack)
           c(i) == IF stack[i].dir = Front(q) THEN [stack[i] EXCEPT !.left = @ \cup {Last(q)}] ELSE stack[i]
<1>1. n \in Nat /\ DOMAIN stack = 1 .. n /\ \A i \in 1 .. n : stack[i] \in Call
  BY StackFacts, LenProperties DEF WalkInv, WalkTyped
<1>2. Last(q) \in Symbol
  <2>1. Len(q) \in 1 .. Len(q)
    BY EmptySeq, LenProperties
  <2> QED
    BY <2>1, ElementOfSeq DEF Last
<1>3. ASSUME NEW i \in 1 .. n
      PROVE  /\ c(i) \in Call /\ c(i).dir = stack[i].dir /\ c(i).ptr = stack[i].ptr
             /\ \/ c(i).left = stack[i].left
                \/ stack[i].dir = Front(q) /\ c(i).left = stack[i].left \cup {Last(q)}
  <2> DEFINE s == stack[i]
             t == [s EXCEPT !.left = @ \cup {Last(q)}]
  <2>1. s \in Call
    BY <1>1
  <2>2. t \in Call /\ t.dir = s.dir /\ t.ptr = s.ptr /\ t.left = s.left \cup {Last(q)}
    <3> HIDE DEF s
    <3> QED
      BY <1>2, <2>1 DEF Call
  <2>3. c(i) = IF s.dir = Front(q) THEN t ELSE s
    OBVIOUS
  <2> HIDE DEF c, s, t
  <2>4. /\ c(i) \in Call /\ c(i).dir = s.dir /\ c(i).ptr = s.ptr
        /\ c(i).left = s.left \/ (s.dir = Front(q) /\ c(i).left = s.left \cup {Last(q)})
    BY <2>1, <2>2, <2>3
  <2> QED
    BY <2>4 DEF s
<1>4. stack' = [i \in 1 .. n |-> c(i)]
  BY <1>1 DEF Listed
<1> HIDE DEF c
<1>5. stack' \in Seq(Call) /\ Len(stack') = n /\ \A i \in 1 .. n : stack'[i] = c(i)
  BY <1>1, <1>3, <1>4
<1> QED
  BY <1>3, <1>5

LEMMA ChangeStack ==
  ASSUME WalkInv, Change
  PROVE  \E q \in Paths :
           /\ disk' = Gone(q) \/ (Possible(q) /\ \E k \in ChangedKinds : disk' = Put(q, k))
           /\ steady' = {r \in steady : ~IsPrefix(q, r)}
           /\ q \in Seq(Symbol) /\ Proper(q)
           /\ stack' \in Seq(Call) /\ Len(stack') = Len(stack)
           /\ \A i \in 1 .. Len(stack) :
                /\ stack'[i].dir = stack[i].dir /\ stack'[i].ptr = stack[i].ptr
                /\ \/ stack'[i].left = stack[i].left
                   \/ stack[i].dir = Front(q) /\ stack'[i].left = stack[i].left \cup {Last(q)}
<1>1. PICK q \in Paths :
        /\ \/ disk' = Gone(q) /\ stack' = stack
           \/ Possible(q) /\ (\E k \in ChangedKinds : disk' = Put(q, k)) /\ stack' = Listed(q)
        /\ steady' = {r \in steady : ~IsPrefix(q, r)}
  BY DEF Change
<1>2. q \in Seq(Symbol) /\ Proper(q) /\ q # <<>>
  BY WalkAssumption DEF Symbol, Proper
<1>3. CASE stack' = stack
  BY <1>1, <1>2, <1>3 DEF WalkInv, WalkTyped
<1>4. CASE stack' = Listed(q)
  BY <1>1, <1>2, <1>4, ListedStack
<1> QED
  BY <1>1, <1>3, <1>4

LEMMA WalkChange == ASSUME WalkInv, Change PROVE WalkInv'
<1>1. \A q \in DOMAIN disk' : q \in Seq(STRING)
  BY ChangeKeepsDisk DEF WalkInv, WalkTyped
<1>2. fullpath' = fullpath /\ walk' = walk /\ Here' = Here
  BY DEF Change, Here
<1>3. /\ stack' \in Seq(Call) /\ Len(stack') = Len(stack)
      /\ \A i \in 1 .. Len(stack) : stack'[i].dir = stack[i].dir /\ stack'[i].ptr = stack[i].ptr
  BY ChangeStack
<1>4. stack' = <<>> <=> stack = <<>>
  BY <1>3, EmptySeq DEF WalkInv, WalkTyped
<1>5. WalkTyped'
  BY <1>1, <1>2, <1>3 DEF WalkInv, WalkTyped
<1>6. Nested'
  BY <1>2, <1>3 DEF WalkInv, Nested
<1>7. ASSUME NEW q, Placed(q) PROVE Placed(q)'
  <2>1. stack # <<>> => 1 \in 1 .. Len(stack)
    BY StackFacts
  <2> QED
    BY <1>3, <1>4, <1>7, <2>1 DEF Placed
<1>8. Looking'
  <2>1. Placed(Here) => Placed(Here)'
    BY <1>2, <1>7 DEF Placed
  <2> QED
    BY <1>2, <1>4, <2>1 DEF WalkInv, Looking
<1> QED
  BY <1>5, <1>6, <1>8 DEF WalkInv

(* The output of the walk finds no reader any more.                         *)
LEMMA KilledKeeps == ASSUME WalkInv, sigpipe PROVE WalkInv'
BY DEF sigpipe, files, WalkInv, WalkTyped, Nested, Looking

(* A walk begins at a root that is a name.                                  *)
LEMMA WalkBegins == ASSUME WalkInv, NEW root \in STRING, myftw(root) PROVE WalkInv'
<1> DEFINE t == <<root>>
<1>1. /\ t \in Seq(Symbol) /\ Len(t) = 1 /\ t[1] = root
      /\ fullpath' = t /\ stack' = <<>> /\ walk' = "lstat" /\ disk' = disk
  BY DEF Symbol, myftw, files
<1> HIDE DEF t
<1>2. Spells(t, t)
  BY <1>1 DEF Spells
<1>3. Here' = t
  BY <1>1, <1>2, PathSpelt DEF Here
<1>4. Len(stack') = 0 /\ stack' \in Seq(Call)
  BY <1>1, EmptySeq
<1>5. WalkTyped'
  BY <1>1, <1>4 DEF WalkInv, WalkTyped
<1>6. Nested'
  BY <1>4 DEF Nested
<1>7. Looking'
  BY <1>1, <1>2, <1>3, <1>4 DEF Looking, Placed
<1> QED
  BY <1>5, <1>6, <1>7 DEF WalkInv

LEMMA FailKeeps == ASSUME WalkInv, Fail, UNCHANGED disk PROVE WalkInv'
BY DEF Fail, WalkInv, WalkTyped, Nested, Looking, Placed, Here

LEMMA FileKeeps == ASSUME WalkInv, file, UNCHANGED disk PROVE WalkInv'
<1>1. /\ walk = "lstat" /\ walk' = Back /\ fullpath' = fullpath /\ stack' = stack
      /\ Spells(fullpath, Here) /\ Placed(Here)
  BY DEF file, WalkInv, Looking
<1>2. stack = <<>> => Len(fullpath) = 1
  <2>1. stack = <<>> => Len(stack) = 0
    BY EmptySeq
  <2>2. Len(fullpath) = 2 * Len(Here) - 1 /\ Len(Here) = Len(stack) + 1
    BY <1>1 DEF Placed, Spells
  <2> QED
    BY <2>1, <2>2
<1>3. (walk' = "ended" /\ stack = <<>>) \/ (walk' = "readdir" /\ stack # <<>>)
  BY <1>1 DEF Back
<1>4. WalkTyped'
  BY <1>1, <1>3 DEF WalkInv, WalkTyped
<1>5. Nested'
  BY <1>1 DEF WalkInv, Nested
<1>6. Looking'
  BY <1>1, <1>2, <1>3 DEF Looking
<1> QED
  BY <1>4, <1>5, <1>6 DEF WalkInv

(* What is written behind 2 * n places leaves a shorter beginning alone.    *)
LEMMA BeginsKept ==
  ASSUME NEW t \in Seq(Symbol), NEW u \in Seq(Symbol), NEW d \in Seq(Symbol), NEW n \in Nat,
         Begins(t, d), 2 * Len(d) <= n, n <= Len(u), \A j \in 1 .. n : u[j] = t[j]
  PROVE  Begins(u, d)
<1>1. Len(d) \in Nat /\ Len(t) \in Nat /\ Len(u) \in Nat
  BY LenProperties
<1>2. \A k \in 1 .. Len(d) : 2 * k - 1 \in 1 .. n /\ 2 * k \in 1 .. n
  BY <1>1
<1> QED
  BY <1>1, <1>2 DEF Begins

LEMMA DirectoryKeeps == ASSUME WalkInv, directory, UNCHANGED disk PROVE WalkInv'
<1> DEFINE q == Here
           u == Append(fullpath, "/")
<1>1. /\ walk = "lstat" /\ walk' = "opendir" /\ fullpath' = u /\ stack' = stack
      /\ Spells(fullpath, q) /\ Placed(q)
  BY DEF directory, WalkInv, Looking
<1>2. /\ q \in Seq(Symbol) /\ Len(q) \in Nat /\ fullpath \in Seq(Symbol) /\ Len(stack) \in Nat
      /\ Len(fullpath) = 2 * Len(q) - 1 /\ Len(fullpath) \in Nat
      /\ Len(q) = Len(stack) + 1
  BY <1>1, StackFacts DEF Spells, Placed
<1>3. /\ u \in Seq(Symbol) /\ Len(u) = Len(fullpath) + 1
      /\ \A i \in 1 .. Len(fullpath) : u[i] = fullpath[i]
      /\ u[Len(fullpath) + 1] = "/"
  <2>1. fullpath \in Seq(Symbol) /\ "/" \in Symbol
    BY <1>2 DEF Symbol
  <2> QED
    BY <2>1, AppendProperties
<1> HIDE DEF u, q
<1>4. Begins(u, q) /\ Len(u) = 2 * Len(q)
  <2>1. Len(u) = 2 * Len(q)
    <3>1. Len(fullpath) + 1 = 2 * Len(q)
      BY <1>2
    <3>2. Len(u) = Len(fullpath) + 1
      BY <1>3
    <3> QED
      BY <3>1, <3>2
  <2>2. ASSUME NEW k \in 1 .. Len(q) PROVE u[2 * k - 1] = q[k]
    <3>1. 2 * k - 1 \in 1 .. Len(fullpath)
      BY <1>2
    <3> QED
      BY <1>1, <1>3, <3>1 DEF Spells
  <2>3. ASSUME NEW k \in 1 .. Len(q) PROVE u[2 * k] = "/"
    <3>1. CASE k = Len(q)
      <4>1. 2 * k = Len(fullpath) + 1
        BY <1>2, <3>1
      <4> QED
        BY <1>3, <4>1
    <3>2. CASE k # Len(q)
      <4>1. k \in 1 .. Len(q) - 1 /\ 2 * k \in 1 .. Len(fullpath)
        BY <1>2, <3>2
      <4> QED
        BY <1>1, <1>3, <4>1 DEF Spells
    <3> QED
      BY <3>1, <3>2
  <2> QED
    BY <1>2, <2>1, <2>2, <2>3 DEF Begins
<1>5. Here' = q
  BY <1>1, <1>2, <1>3, <1>4, PathBegun DEF Here
<1>6. WalkTyped'
  BY <1>1, <1>3 DEF WalkInv, WalkTyped
<1>7. Nested'
  <2> SUFFICES ASSUME NEW i \in 1 .. Len(stack)
               PROVE  /\ Len(stack[i].dir) = Len(stack) + 1 - i
                      /\ stack[i].ptr = 2 * Len(stack[i].dir) + 1
                      /\ Begins(u, stack[i].dir)
    BY <1>1 DEF Nested
  <2>1. /\ Len(stack[i].dir) = Len(stack) + 1 - i
        /\ stack[i].ptr = 2 * Len(stack[i].dir) + 1
        /\ Begins(fullpath, stack[i].dir) /\ stack[i].dir \in Seq(Symbol)
    BY StackFacts DEF WalkInv, Nested
  <2>2. 2 * Len(stack[i].dir) <= Len(fullpath) /\ Len(fullpath) <= Len(u)
    BY <1>2, <1>3, <2>1
  <2>3. Begins(u, stack[i].dir)
    BY <1>2, <1>3, <2>1, <2>2, BeginsKept
  <2> QED
    BY <2>1, <2>3
<1>8. Looking'
  BY <1>1, <1>4, <1>5 DEF Looking, Placed
<1> QED
  BY <1>6, <1>7, <1>8 DEF WalkInv

LEMMA OpendirKeeps == ASSUME WalkInv, opendir, UNCHANGED disk PROVE WalkInv'
<1> DEFINE q == Here
           call == [dir |-> q, ptr |-> Len(fullpath) + 1, left |-> Dots \cup Names(q)]
           one == <<call>>
           st == one \o stack
<1>1. /\ walk = "opendir" /\ walk' = "readdir" /\ fullpath' = fullpath /\ stack' = st
      /\ Begins(fullpath, q) /\ Len(fullpath) = 2 * Len(q) /\ Placed(q)
  BY DEF opendir, WalkInv, Looking
<1>2. /\ q \in Seq(Symbol) /\ Len(q) \in Nat /\ fullpath \in Seq(Symbol) /\ Len(stack) \in Nat
      /\ Len(fullpath) \in Nat /\ Len(q) = Len(stack) + 1 /\ stack \in Seq(Call)
  BY <1>1, StackFacts DEF Placed, WalkInv, WalkTyped
<1>3. Names(q) \subseteq Symbol
  <2> SUFFICES ASSUME NEW r \in DOMAIN disk, Len(r) = Len(q) + 1 PROVE r[Len(r)] \in STRING
    BY DEF Names, Symbol
  <2>1. r \in Seq(STRING) /\ Len(r) \in 1 .. Len(r)
    BY <1>2 DEF WalkInv, WalkTyped
  <2> QED
    BY <2>1, ElementOfSeq
<1>4. call \in Call
  <2>1. Dots \cup Names(q) \in SUBSET Symbol
    BY <1>3 DEF Dots, Symbol
  <2>2. Len(fullpath) + 1 \in Nat
    BY <1>2
  <2> QED
    BY <1>2, <2>1, <2>2 DEF Call
<1>5. call.dir = q /\ call.ptr = 2 * Len(q) + 1
  BY <1>1
<1> HIDE DEF q, call
<1>6. one \in Seq(Call) /\ Len(one) = 1 /\ one[1] = call
  BY <1>4
<1> HIDE DEF one
<1>7. /\ st \in Seq(Call) /\ Len(st) = Len(one) + Len(stack)
      /\ \A i \in 1 .. Len(one) + Len(stack) : st[i] = IF i <= Len(one) THEN one[i] ELSE stack[i - Len(one)]
  BY <1>2, <1>6, ConcatProperties, Zenon
<1> HIDE DEF st
<1>8. /\ Len(st) = Len(stack) + 1 /\ st[1] = call
      /\ \A i \in 2 .. Len(stack) + 1 : i - 1 \in 1 .. Len(stack) /\ st[i] = stack[i - 1]
  BY <1>2, <1>6, <1>7
<1>9. WalkTyped'
  BY <1>1, <1>7 DEF WalkInv, WalkTyped
<1>10. Nested'
  <2> SUFFICES ASSUME NEW i \in 1 .. Len(stack) + 1
               PROVE  /\ Len(st[i].dir) = Len(stack) + 1 + 1 - i
                      /\ st[i].ptr = 2 * Len(st[i].dir) + 1
                      /\ Begins(fullpath, st[i].dir)
    BY <1>1, <1>8 DEF Nested
  <2>1. CASE i = 1
    <3>1. st[i] = call /\ Len(call.dir) = Len(q) /\ call.ptr = 2 * Len(call.dir) + 1
          /\ Begins(fullpath, call.dir)
      BY <1>1, <1>5, <1>8, <2>1
    <3>2. Len(q) = Len(stack) + 1 + 1 - i
      BY <1>2, <2>1
    <3> QED
      BY <3>1, <3>2
  <2>2. CASE i # 1
    <3>1. i \in 2 .. Len(stack) + 1 /\ i - 1 \in 1 .. Len(stack)
      BY <1>2, <2>2
    <3>2. /\ Len(stack[i - 1].dir) = Len(stack) + 1 - (i - 1)
          /\ stack[i - 1].ptr = 2 * Len(stack[i - 1].dir) + 1
          /\ Begins(fullpath, stack[i - 1].dir)
      BY <3>1 DEF WalkInv, Nested
    <3>3. Len(stack) + 1 - (i - 1) = Len(stack) + 1 + 1 - i
      BY <1>2
    <3> QED
      BY <1>8, <3>1, <3>2, <3>3
  <2> QED
    BY <2>1, <2>2
<1>11. Looking'
  <2>1. st # <<>>
    BY <1>2, <1>8, EmptySeq
  <2> QED
    BY <1>1, <2>1 DEF Looking
<1> QED
  BY <1>9, <1>10, <1>11 DEF WalkInv

LEMMA ReaddirKeeps == ASSUME WalkInv, readdir, UNCHANGED disk PROVE WalkInv'
<1>1. walk = "readdir" /\ stack # <<>>
  BY DEF readdir, WalkInv, Looking
<1>2. PICK e \in Head(stack).left :
        /\ stack' = [stack EXCEPT ![1].left = Rest(@, e)]
        /\ IF e \in Dots
           THEN UNCHANGED <<fullpath, walk>>
           ELSE /\ fullpath' = Append(SubSeq(fullpath, 1, Head(stack).ptr - 1), e)
                /\ walk' = "lstat"
  BY DEF readdir
<1> DEFINE c == stack[1]
           m == Len(c.dir)
<1>3. /\ Len(stack) \in Nat \ {0} /\ Head(stack) = c /\ c \in Call /\ e \in Symbol /\ stack \in Seq(Call)
      /\ c.dir \in Seq(Symbol) /\ c.left \in SUBSET Symbol /\ m \in Nat
      /\ m = Len(stack) /\ c.ptr = 2 * m + 1 /\ Begins(fullpath, c.dir) /\ m # 0
      /\ fullpath \in Seq(Symbol) /\ Len(fullpath) \in Nat
  <2>1. Len(stack) \in Nat \ {0} /\ 1 \in 1 .. Len(stack) /\ Head(stack) = c
    BY <1>1, StackFacts
  <2>2. c \in Call /\ c.dir \in Seq(Symbol) /\ c.left \in SUBSET Symbol
    BY <2>1, StackFacts
  <2>3. Len(c.dir) = Len(stack) + 1 - 1 /\ c.ptr = 2 * m + 1 /\ Begins(fullpath, c.dir)
    BY <2>1 DEF WalkInv, Nested
  <2> QED
    BY <1>2, <2>1, <2>2, <2>3, StackFacts DEF WalkInv, WalkTyped
<1>4. /\ stack' \in Seq(Call) /\ Len(stack') = Len(stack)
      /\ \A i \in 1 .. Len(stack) : stack'[i].dir = stack[i].dir /\ stack'[i].ptr = stack[i].ptr
  <2> DEFINE d == [c EXCEPT !.left = Rest(@, e)]
  <2>1. /\ d \in Call /\ d.dir = c.dir /\ d.ptr = c.ptr
    BY <1>3 DEF Call, Rest
  <2>2. stack' = [stack EXCEPT ![1] = d]
    BY <1>2
  <2>3. 1 \in 1 .. Len(stack)
    BY <1>3
  <2> HIDE DEF d
  <2>4. /\ stack' \in Seq(Call) /\ Len(stack') = Len(stack)
        /\ \A i \in 1 .. Len(stack) : stack'[i] = IF i = 1 THEN d ELSE stack[i]
    BY <1>3, <2>1, <2>2, <2>3, ExceptSeq
  <2> QED
    BY <2>1, <2>4
<1>5. stack' # <<>> /\ stack'[1].dir = c.dir
  <2>1. 1 \in 1 .. Len(stack)
    BY <1>3
  <2> QED
    BY <1>3, <1>4, <2>1, EmptySeq
<1>6. CASE e \in Dots
  <2>1. fullpath' = fullpath /\ walk' = walk
    BY <1>2, <1>6
  <2>2. WalkTyped'
    BY <1>4, <2>1 DEF WalkInv, WalkTyped
  <2>3. Nested'
    BY <1>4, <2>1 DEF WalkInv, Nested
  <2>4. Looking'
    BY <1>1, <1>5, <2>1 DEF Looking
  <2> QED
    BY <2>2, <2>3, <2>4 DEF WalkInv
<1>7. CASE e \notin Dots
  <2> DEFINE s == SubSeq(fullpath, 1, 2 * m)
             u == Append(s, e)
             q == Append(c.dir, e)
  <2>1. fullpath' = u /\ walk' = "lstat"
    <3>1. c.ptr - 1 = 2 * m
      BY <1>3
    <3> QED
      BY <1>2, <1>3, <1>7, <3>1
  <2>2. /\ s \in Seq(Symbol) /\ Len(s) = 2 * m /\ \A j \in 1 .. 2 * m : s[j] = fullpath[j]
    <3>1. 2 * m <= Len(fullpath)
      BY <1>3 DEF Begins
    <3>2. \A j \in 1 .. 2 * m : fullpath[j] \in Symbol
      BY <1>3, <3>1, ElementOfSeq
    <3> QED
      BY <1>3, <3>2, SubSeqProperties
  <2> HIDE DEF s
  <2>3. /\ u \in Seq(Symbol) /\ Len(u) = 2 * m + 1 /\ u[2 * m + 1] = e
        /\ \A j \in 1 .. 2 * m : u[j] = s[j]
    <3>1. /\ u \in Seq(Symbol) /\ Len(u) = Len(s) + 1 /\ u[Len(s) + 1] = e
          /\ \A j \in 1 .. Len(s) : u[j] = s[j]
      <4>1. s \in Seq(Symbol) /\ e \in Symbol
        BY <1>3, <2>2
      <4> QED
        BY <4>1, AppendProperties
    <3> HIDE DEF u
    <3> QED
      BY <2>2, <3>1
  <2>4. /\ q \in Seq(Symbol) /\ Len(q) = m + 1 /\ q[m + 1] = e
        /\ \A k \in 1 .. m : q[k] = c.dir[k]
    BY <1>3, AppendProperties
  <2>5. Front(q) = c.dir
    <3> DEFINE f == SubSeq(q, 1, m)
    <3>1. \A k \in 1 .. m : q[k] \in Symbol
      BY <1>3, <2>4, ElementOfSeq
    <3>2. f \in Seq(Symbol) /\ Len(f) = m /\ \A k \in 1 .. m : f[k] = q[k]
      BY <1>3, <3>1, SubSeqProperties
    <3> HIDE DEF f
    <3>3. f = c.dir
      BY <1>3, <2>4, <3>2, SeqEqual, SMTT(40)
    <3>4. Front(q) = f
      <4>1. Len(q) - 1 = m
        BY <1>3, <2>4
      <4> QED
        BY <4>1 DEF Front, f
    <3> QED
      BY <3>3, <3>4
  <2> HIDE DEF u, q
  <2>6. Spells(u, q)
    <3>1. Len(u) = 2 * Len(q) - 1
      BY <1>3, <2>3, <2>4
    <3>2. ASSUME NEW k \in 1 .. m PROVE u[2 * k - 1] = q[k] /\ u[2 * k] = "/"
      <4>1. 2 * k - 1 \in 1 .. 2 * m /\ 2 * k \in 1 .. 2 * m
        BY <1>3
      <4> QED
        BY <1>3, <2>2, <2>3, <2>4, <4>1 DEF Begins
    <3>3. u[2 * (m + 1) - 1] = q[m + 1]
      <4>1. 2 * (m + 1) - 1 = 2 * m + 1
        BY <1>3
      <4> QED
        BY <2>3, <2>4, <4>1
    <3>4. ASSUME NEW k \in 1 .. Len(q) PROVE u[2 * k - 1] = q[k]
      <4>1. k \in 1 .. m \/ k = m + 1
        BY <1>3, <2>4
      <4> QED
        BY <3>2, <3>3, <4>1
    <3>5. ASSUME NEW k \in 1 .. Len(q) - 1 PROVE u[2 * k] = "/"
      <4>1. k \in 1 .. m
        BY <1>3, <2>4
      <4> QED
        BY <3>2, <4>1
    <3> QED
      BY <3>1, <3>4, <3>5 DEF Spells
  <2>7. Here' = q
    BY <2>1, <2>3, <2>4, <2>6, PathSpelt DEF Here
  <2>8. WalkTyped'
    BY <1>4, <2>1, <2>3 DEF WalkInv, WalkTyped
  <2>9. Nested'
    <3> SUFFICES ASSUME NEW i \in 1 .. Len(stack)
                 PROVE  /\ Len(stack[i].dir) = Len(stack) + 1 - i
                        /\ stack[i].ptr = 2 * Len(stack[i].dir) + 1
                        /\ Begins(u, stack[i].dir)
      BY <1>4, <2>1 DEF Nested
    <3>1. /\ Len(stack[i].dir) = Len(stack) + 1 - i
          /\ stack[i].ptr = 2 * Len(stack[i].dir) + 1
          /\ Begins(fullpath, stack[i].dir) /\ stack[i].dir \in Seq(Symbol)
      BY StackFacts DEF WalkInv, Nested
    <3>2. 2 * Len(stack[i].dir) <= 2 * m /\ 2 * m \in Nat /\ 2 * m <= Len(u)
      BY <1>3, <2>3, <3>1
    <3>3. \A j \in 1 .. 2 * m : u[j] = fullpath[j]
      BY <2>2, <2>3
    <3>4. Begins(u, stack[i].dir)
      BY <1>3, <2>3, <3>1, <3>2, <3>3, BeginsKept
    <3> QED
      BY <3>1, <3>4
  <2>10. Looking'
    <3>1. Len(q) = Len(stack') + 1
      BY <1>3, <1>4, <2>4
    <3> QED
      BY <1>5, <2>1, <2>5, <2>6, <2>7, <3>1 DEF Looking, Placed
  <2> QED
    BY <2>8, <2>9, <2>10 DEF WalkInv
<1> QED
  BY <1>6, <1>7

LEMMA ClosedirKeeps == ASSUME WalkInv, closedir, UNCHANGED disk PROVE WalkInv'
<1> DEFINE n == Len(stack)
           u == SubSeq(fullpath, 1, 2 * n - 1)
           st == Tail(stack)
<1>1. /\ walk = "readdir" /\ stack # <<>> /\ stack' = st
      /\ walk' = IF n = 1 THEN "ended" ELSE "readdir"
      /\ fullpath' = SubSeq(fullpath, 1, Head(stack).ptr - 2)
  BY DEF closedir, WalkInv, Looking
<1>2. /\ n \in Nat \ {0} /\ stack \in Seq(Call) /\ Head(stack) = stack[1]
      /\ fullpath \in Seq(Symbol) /\ Len(fullpath) \in Nat
  BY <1>1, StackFacts DEF WalkInv, WalkTyped
<1>3. stack[1].ptr - 2 = 2 * n - 1 /\ 2 * n <= Len(fullpath)
  <2>1. /\ Len(stack[1].dir) = n + 1 - 1 /\ stack[1].ptr = 2 * Len(stack[1].dir) + 1
        /\ Begins(fullpath, stack[1].dir)
    BY <1>2 DEF WalkInv, Nested
  <2> QED
    BY <1>2, <2>1 DEF Begins
<1>4. fullpath' = u
  BY <1>1, <1>2, <1>3
<1>5. /\ u \in Seq(Symbol) /\ Len(u) = 2 * n - 1 /\ \A j \in 1 .. 2 * n - 1 : u[j] = fullpath[j]
  <2>1. \A j \in 1 .. 2 * n - 1 : fullpath[j] \in Symbol
    BY <1>2, <1>3, ElementOfSeq
  <2> QED
    BY <1>2, <2>1, SubSeqProperties
<1>6. /\ st \in Seq(Call) /\ Len(st) = n - 1 /\ \A i \in 1 .. n - 1 : st[i] = stack[i + 1]
  BY <1>1, <1>2, HeadTailProperties
<1> HIDE DEF u, st, n
<1>7. WalkTyped'
  BY <1>1, <1>4, <1>5, <1>6 DEF WalkInv, WalkTyped
<1>8. Nested'
  <2> SUFFICES ASSUME NEW i \in 1 .. n - 1
               PROVE  /\ Len(st[i].dir) = (n - 1) + 1 - i
                      /\ st[i].ptr = 2 * Len(st[i].dir) + 1
                      /\ Begins(u, st[i].dir)
    BY <1>1, <1>4, <1>6 DEF Nested
  <2>1. i + 1 \in 1 .. n /\ n + 1 - (i + 1) = (n - 1) + 1 - i
    BY <1>2
  <2>2. /\ Len(stack[i + 1].dir) = n + 1 - (i + 1)
        /\ stack[i + 1].ptr = 2 * Len(stack[i + 1].dir) + 1
        /\ Begins(fullpath, stack[i + 1].dir) /\ stack[i + 1].dir \in Seq(Symbol)
    BY <2>1, StackFacts DEF WalkInv, Nested, n
  <2>3. 2 * Len(stack[i + 1].dir) <= 2 * n - 1 /\ 2 * n - 1 \in Nat /\ 2 * n - 1 <= Len(u)
    <3> DEFINE l == Len(stack[i + 1].dir)
    <3>1. l = n - i /\ n \in Nat /\ n # 0 /\ i \in 1 .. n - 1 /\ Len(u) = 2 * n - 1
      BY <1>2, <1>5, <2>2
    <3> HIDE DEF l
    <3>2. 2 * l <= 2 * n - 1 /\ 2 * n - 1 \in Nat
      BY <3>1
    <3> QED
      BY <3>1, <3>2 DEF l
  <2>4. Begins(u, stack[i + 1].dir)
    BY <1>2, <1>5, <2>2, <2>3, BeginsKept
  <2> QED
    BY <1>6, <2>1, <2>2, <2>4
<1>9. Looking'
  <2>1. CASE n = 1
    <3>1. Len(u) = 1 /\ walk' = "ended"
      BY <1>1, <1>5, <2>1
    <3> QED
      BY <1>4, <3>1 DEF Looking
  <2>2. CASE n # 1
    <3>1. Len(st) # 0
      BY <1>2, <1>6, <2>2
    <3>2. st # <<>>
      BY <3>1, EmptySeq
    <3> QED
      BY <1>1, <2>2, <3>2 DEF Looking
  <2> QED
    BY <2>1, <2>2
<1> QED
  BY <1>7, <1>8, <1>9 DEF WalkInv

(* No step of the walk disturbs the buffer of the calls around it.          *)
LEMMA WalkStep == ASSUME WalkInv, dopath PROVE WalkInv'
<1>1. UNCHANGED disk
  BY DEF dopath, files
<1> QED
  BY <1>1, FailKeeps, FileKeeps, DirectoryKeeps, OpendirKeeps, ReaddirKeeps, ClosedirKeeps
     DEF dopath, lstat_fails, opendir_fails

(* What the invariant says in the words of the property.                    *)
LEMMA WalkKeepsPaths == ASSUME WalkInv PROVE PathKept
<1>1. ASSUME NEW i \in DOMAIN stack
      PROVE  SubSeq(fullpath, 1, stack[i].ptr - 1) = Append(Text(stack[i].dir), "/")
  <2>1. i \in 1 .. Len(stack)
    BY LenProperties DEF WalkInv, WalkTyped
  <2>2. /\ stack[i].dir \in Seq(Symbol) /\ Len(stack[i].dir) = Len(stack) + 1 - i
        /\ stack[i].ptr = 2 * Len(stack[i].dir) + 1 /\ Begins(fullpath, stack[i].dir)
        /\ fullpath \in Seq(Symbol) /\ Len(stack) \in Nat
    BY <2>1, StackFacts DEF WalkInv, Nested
  <2>3. stack[i].ptr - 1 = 2 * Len(stack[i].dir) /\ Len(stack[i].dir) # 0
    BY <2>1, <2>2
  <2>4. stack[i].dir # <<>>
    BY <2>3, EmptySeq
  <2> QED
    BY <2>2, <2>3, <2>4, BegunIsText
<1>2. ASSUME walk = "lstat"
      PROVE  fullpath = Text(Here) /\ (stack # <<>> => Front(Here) = Head(stack).dir)
  <2>1. /\ Spells(fullpath, Here) /\ Placed(Here) /\ fullpath \in Seq(Symbol) /\ Here \in Seq(Symbol)
        /\ Len(stack) \in Nat
    BY <1>2, StackFacts DEF WalkInv, Looking
  <2>2. Len(Here) # 0
    BY <2>1 DEF Placed
  <2>3. Here # <<>>
    BY <2>2, EmptySeq
  <2>4. fullpath = Text(Here)
    BY <2>1, <2>3, SpeltIsText
  <2> QED
    BY <2>1, <2>4, StackFacts DEF Placed
<1>3. ASSUME walk = "ended" PROVE fullpath = <<Root>>
  <2> DEFINE t == <<fullpath[1]>>
  <2>1. fullpath \in Seq(Symbol) /\ Len(fullpath) = 1
    BY <1>3 DEF WalkInv, WalkTyped, Looking
  <2>2. fullpath[1] \in Symbol
    BY <2>1, ElementOfSeq
  <2>3. t \in Seq(Symbol) /\ Len(t) = 1 /\ t[1] = fullpath[1]
    BY <2>2
  <2> HIDE DEF t
  <2>4. fullpath = t
    BY <2>1, <2>3, SeqEqual
  <2> QED
    BY <2>4 DEF t, Root
<1> QED
  BY <1>1, <1>2, <1>3 DEF PathKept

(***************************************************************************)
(* The shell itself.                                                        *)
(***************************************************************************)
Char == STRING \cup {NUL}

(* The line: its end is marked, the place in it is in it, and the words of  *)
(* the command begin in front of it.                                       *)
LineInv ==
  /\ input \in Seq(STRING) /\ buf \in Seq(Char)
  /\ shell \in {"prompt", "commands", "words", "invoke", "wait", "exited", "overrun"}
  /\ buf # <<>> => p \in 1 .. Len(buf) /\ Len(buf) \in 2 .. LINE_BUF_SIZE /\ buf[Len(buf)] = NUL
  /\ shell \in {"commands", "words"} => buf # <<>>
  /\ shell = "words" =>
       /\ cmd = [argv |-> cmd.argv, capa |-> cmd.capa, block |-> cmd.block]
       /\ cmd.argv \in Seq(Nat) /\ \A i \in 1 .. Len(cmd.argv) : cmd.argv[i] < p

(* The descriptors, by the commands that were started: two each, up to the  *)
(* last that there is room for.                                            *)
Room    == (MaxFds - 5) \div 2
Started == Len(ran.runs) + ran.lost
RoomInv ==
  /\ ran = [runs |-> ran.runs, lost |-> ran.lost] /\ ran.lost \in Nat
  /\ Len(ran.runs) \in Nat /\ \E S : ran.runs \in Seq(S)
  /\ Len(ran.runs) = IF Started <= Room THEN Started ELSE Room
  /\ fds \in 3 .. MaxFds
  /\ shell # "exited" => fds = 3 + 2 * (IF Started <= Room THEN Started ELSE Room + 1)

IInv == LineInv /\ RoomInv /\ WalkInv /\ (~Over => shell = "wait")

-----------------------------------------------------------------------------
(* A nonempty set of numbers has a least member.                            *)
LEMMA LeastOf ==
  ASSUME NEW S \in SUBSET Nat, S # {}
  PROVE  \E m \in S : \A k \in S : m <= k
<1> DEFINE Under == OpToRel(<, Nat)
<1>1. IsWellFoundedOn(Under, Nat)
  BY NatLessThanWellFounded
<1>2. ASSUME NEW k \in Nat, NEW m \in Nat, k < m PROVE <<k, m>> \in Under
  <2> DEFINE pair == <<k, m>>
  <2>1. pair \in Nat \X Nat /\ pair[1] < pair[2]
    BY <1>2
  <2> QED
    BY <2>1 DEF OpToRel
<1> HIDE DEF Under
<1>3. PICK m \in S : \A k \in S : ~(<<k, m>> \in Under)
  BY <1>1, WFMin
<1>4. ASSUME NEW k \in S PROVE m <= k
  <2>1. k \in Nat /\ m \in Nat
    BY <1>3
  <2>2. ~(<<k, m>> \in Under)
    BY <1>3
  <2> QED
    BY <1>2, <2>1, <2>2
<1> QED
  BY <1>4

(* The marked end stops the search of the line.                             *)
LEMMA NextFound ==
  ASSUME NEW n \in Nat, n = Len(buf), buf[n] = NUL, NEW i \in 1 .. n, NEW S, NUL \in S
  PROVE  /\ Next_(i, S) \in i .. n /\ buf[Next_(i, S)] \in S
         /\ \A k \in i .. Next_(i, S) - 1 : buf[k] \notin S
<1> DEFINE found == {j \in i .. n : buf[j] \in S}
<1>1. found \in SUBSET Nat /\ n \in found
  OBVIOUS
<1>2. PICK j \in found : \A k \in found : j <= k
  BY <1>1, LeastOf
<1>3. j \in i .. n /\ buf[j] \in S /\ \A k \in i .. j - 1 : buf[k] \notin S
  <2>1. ASSUME NEW k \in i .. j - 1, buf[k] \in S PROVE FALSE
    <3>1. k \in i .. n /\ k \in Int /\ j \in Int /\ ~(j <= k)
      BY <1>2
    <3> QED
      BY <1>2, <2>1, <3>1
  <2> QED
    BY <1>2, <2>1
<1> QED
  BY <1>3 DEF Next_

(* A line that is read has a character and fits, its end mark too.          *)
LEMMA LengthFits ==
  ASSUME input \in Seq(STRING), input # <<>>
  PROVE  LineLength \in 1 .. LINE_BUF_SIZE - 1 /\ LineLength <= Len(input)
<1> DEFINE ends == {i \in DOMAIN input : input[i] = "\n"} \cup {Len(input), LINE_BUF_SIZE - 1}
<1>1. Len(input) \in Nat \ {0} /\ DOMAIN input = 1 .. Len(input)
  BY EmptySeq
<1>2. LINE_BUF_SIZE \in Nat \ {0, 1}
  BY ShellAssumption
<1>3. ends \in SUBSET Nat /\ Len(input) \in ends /\ LINE_BUF_SIZE - 1 \in ends /\ \A k \in ends : k >= 1
  BY <1>1, <1>2
<1>4. \E m \in ends : \A k \in ends : m <= k
  BY <1>3, LeastOf
<1>5. LineLength = CHOOSE m \in ends : \A k \in ends : m <= k
  BY DEF LineLength
<1> HIDE DEF ends
<1>6. LineLength \in ends /\ \A k \in ends : LineLength <= k
  BY <1>4, <1>5
<1> QED
  BY <1>2, <1>3, <1>6

-----------------------------------------------------------------------------
(* What an action of the shell that starts nothing leaves to show.          *)
LEMMA RoomStays ==
  ASSUME RoomInv, UNCHANGED <<fds, ran>>, shell # "exited"
  PROVE  RoomInv'
BY DEF RoomInv, Started

LEMMA ChildStays ==
  ASSUME WalkInv, ~Over => shell = "wait", UNCHANGED <<disk, walking>>,
         shell = "wait" => Over \/ shell' = "wait"
  PROVE  WalkInv' /\ (~Over => shell = "wait")'
<1>1. WalkInv'
  BY WalkStays DEF WalkInv, WalkTyped
<1>2. Over' = Over
  BY DEF Over, walking
<1> QED
  BY <1>1, <1>2

LEMMA InitHolds == Init => IInv
<1> SUFFICES ASSUME Init PROVE IInv
  OBVIOUS
<1>1. PICK s \in Sessions : disk = s.disk /\ input = s.input
  BY DEF Init
<1>2. input \in Seq(STRING) /\ \A q \in DOMAIN disk : q \in Seq(STRING)
  BY <1>1, ShellAssumption
<1>3. WalkInv /\ Over
  BY <1>2, WalkInvInit DEF Init, WalkInit, Over
<1>4. LineInv
  BY <1>2, EmptySeq DEF Init, LineInv, Char
<1>5. RoomInv
  <2>1. MaxFds \in Nat /\ MaxFds >= 5
    BY ShellAssumption
  <2>2. Room \in Nat
    BY <2>1 DEF Room
  <2>3. ran = [runs |-> <<>>, lost |-> 0] /\ fds = 3
    BY DEF Init
  <2>4. Len(ran.runs) = 0 /\ ran.lost = 0 /\ Started = 0 /\ ran.runs \in Seq({})
    BY <2>3, EmptySeq DEF Started
  <2> QED
    BY <2>1, <2>2, <2>3, <2>4 DEF RoomInv
<1> QED
  BY <1>3, <1>4, <1>5 DEF IInv

LEMMA ReadKeeps == ASSUME LineInv, read_cmd PROVE LineInv'
<1> DEFINE n == LineLength
           t == SubSeq(input, 1, n)
           r == SubSeq(input, n + 1, Len(input))
<1>1. input \in Seq(STRING) /\ Len(input) \in Nat /\ input # <<>>
  BY DEF LineInv, read_cmd
<1>2. n \in 1 .. LINE_BUF_SIZE - 1 /\ n <= Len(input) /\ LINE_BUF_SIZE \in Nat
  BY <1>1, LengthFits, ShellAssumption
<1> HIDE DEF n
<1>3. t \in Seq(STRING) /\ Len(t) = n
  BY <1>1, <1>2, SubSeqProperties
<1>4. r \in Seq(STRING)
  BY <1>1, <1>2, SubSeqProperties
<1> DEFINE b == Append(t, NUL)
<1>5. b \in Seq(Char) /\ Len(b) = n + 1 /\ b[n + 1] = NUL
  <2>1. t \in Seq(Char) /\ NUL \in Char
    BY <1>3 DEF Char
  <2> QED
    BY <1>3, <2>1, AppendProperties
<1>6. /\ buf' = b /\ input' = r /\ p' = 1 /\ shell' = "commands"
  BY DEF read_cmd, n
<1> HIDE DEF b, r, t
<1>7. 1 \in 1 .. Len(b) /\ Len(b) \in 2 .. LINE_BUF_SIZE /\ b[Len(b)] = NUL
  BY <1>2, <1>5
<1>8. b # <<>>
  BY <1>5, <1>2, EmptySeq
<1> QED
  BY <1>4, <1>5, <1>6, <1>7, <1>8 DEF LineInv

LEMMA ParseKeeps == ASSUME LineInv, parse_cmd PROVE LineInv'
<1>1. CASE buf[p] = NUL
  BY <1>1 DEF LineInv, parse_cmd
<1>2. CASE buf[p] # NUL
  <2>1. cmd' = [argv |-> <<>>, capa |-> INIT_CAPA, block |-> INIT_CAPA] /\ shell' = "words"
        /\ UNCHANGED <<input, buf, p>> /\ shell = "commands"
    BY <1>2 DEF parse_cmd
  <2>2. cmd'.argv \in Seq(Nat) /\ Len(cmd'.argv) = 0
    BY <2>1, EmptySeq
  <2> QED
    BY <2>1, <2>2 DEF LineInv
<1> QED
  BY <1>1, <1>2

LEMMA WordKeeps == ASSUME LineInv, word PROVE LineInv'
<1> DEFINE n == Len(buf)
           q == Next_(p, Others(Blanks))
           e == Next_(q, Blanks \cup {NUL})
           c == IF buf[q] = NUL THEN cmd ELSE [Grown(cmd) EXCEPT !.argv = Append(@, q)]
           b == Ended(q, e)
<1>1. /\ shell = "words" /\ cmd' = c /\ buf' = b /\ p' = e /\ input' = input
      /\ shell' \in {"overrun", "words"}
  BY DEF word
<1>2. /\ buf \in Seq(Char) /\ n \in Nat /\ p \in 1 .. n /\ n \in 2 .. LINE_BUF_SIZE /\ buf[n] = NUL
      /\ DOMAIN buf = 1 .. n
  BY <1>1 DEF LineInv
<1>3. NUL \in Others(Blanks)
  BY <1>2 DEF Others, Blanks, NUL, ToSet
<1>4. q \in p .. n /\ buf[q] \in Others(Blanks)
  BY <1>2, <1>3, NextFound
<1>5. e \in q .. n /\ buf[e] \in Blanks \cup {NUL}
  <2>1. q \in 1 .. n /\ NUL \in Blanks \cup {NUL}
    BY <1>2, <1>4
  <2> QED
    BY <1>2, <2>1, NextFound
<1>6. buf[q] # NUL => q < e
  BY <1>2, <1>4, <1>5 DEF Others
<1>7. /\ cmd = [argv |-> cmd.argv, capa |-> cmd.capa, block |-> cmd.block]
      /\ cmd.argv \in Seq(Nat) /\ \A i \in 1 .. Len(cmd.argv) : cmd.argv[i] < p
  BY <1>1 DEF LineInv
<1> HIDE DEF q, e
<1>8. /\ c = [argv |-> c.argv, capa |-> c.capa, block |-> c.block]
      /\ c.argv = IF buf[q] = NUL THEN cmd.argv ELSE Append(cmd.argv, q)
  <2> DEFINE g == Grown(cmd)
  <2>1. g = [argv |-> g.argv, capa |-> g.capa, block |-> g.block] /\ g.argv = cmd.argv
    BY <1>7 DEF Grown
  <2> QED
    BY <1>7, <2>1
<1>9. c.argv \in Seq(Nat) /\ \A i \in 1 .. Len(c.argv) : c.argv[i] < e
  <2>1. \A i \in 1 .. Len(cmd.argv) : cmd.argv[i] \in Nat /\ cmd.argv[i] < e
    <3> SUFFICES ASSUME NEW i \in 1 .. Len(cmd.argv) PROVE cmd.argv[i] \in Nat /\ cmd.argv[i] < e
      OBVIOUS
    <3>1. cmd.argv[i] \in Nat /\ cmd.argv[i] < p
      BY <1>7, ElementOfSeq
    <3> QED
      BY <1>2, <1>4, <1>5, <3>1
  <2>2. CASE buf[q] = NUL
    BY <1>7, <1>8, <2>1, <2>2
  <2>3. CASE buf[q] # NUL
    <3> DEFINE a == Append(cmd.argv, q)
    <3>1. q \in Nat /\ q < e
      BY <1>2, <1>4, <1>6, <2>3
    <3>2. /\ a \in Seq(Nat) /\ Len(cmd.argv) \in Nat /\ Len(a) = Len(cmd.argv) + 1
          /\ \A i \in 1 .. Len(cmd.argv) : a[i] = cmd.argv[i]
          /\ a[Len(cmd.argv) + 1] = q
      BY <1>7, <3>1, AppendProperties, LenProperties
    <3>3. c.argv = a
      BY <1>8, <2>3
    <3> HIDE DEF a, c
    <3>4. \A i \in 1 .. Len(a) : a[i] < e
      <4> SUFFICES ASSUME NEW i \in 1 .. Len(a) PROVE a[i] < e
        OBVIOUS
      <4>1. i \in 1 .. Len(cmd.argv) \/ i = Len(cmd.argv) + 1
        BY <3>2
      <4>2. CASE i \in 1 .. Len(cmd.argv)
        <5>1. a[i] = cmd.argv[i] /\ cmd.argv[i] < e
          BY <2>1, <3>2, <4>2
        <5> QED
          BY <5>1
      <4>3. CASE i = Len(cmd.argv) + 1
        BY <3>1, <3>2, <4>3
      <4> QED
        BY <4>1, <4>2, <4>3
    <3> QED
      BY <3>2, <3>3, <3>4
  <2> QED
    BY <2>2, <2>3
<1>10. b \in Seq(Char) /\ Len(b) = n /\ b[n] = NUL
  <2>1. b = [i \in 1 .. n |-> IF i \in p .. q - 1 THEN NUL ELSE buf[i]]
    BY <1>2 DEF Ended
  <2>2. \A i \in 1 .. n : buf[i] \in Char
    BY <1>2, ElementOfSeq
  <2>3. b \in [1 .. n -> Char]
    BY <2>1, <2>2 DEF Char
  <2>4. [1 .. n -> Char] \subseteq Seq(Char)
    BY <1>2
  <2>5. b \in Seq(Char) /\ Len(b) = n
    BY <1>2, <2>1, <2>3, <2>4
  <2>6. b[n] = NUL
    BY <1>2, <2>1
  <2> QED
    BY <2>5, <2>6
<1>11. e \in 1 .. n
  BY <1>2, <1>4, <1>5
<1>12. b # <<>> /\ input \in Seq(STRING)
  BY <1>2, <1>10, EmptySeq DEF LineInv
<1> HIDE DEF b, c, n
<1>13. e \in 1 .. Len(b) /\ Len(b) \in 2 .. LINE_BUF_SIZE /\ b[Len(b)] = NUL
  BY <1>2, <1>10, <1>11
<1> QED
  BY <1>1, <1>8, <1>9, <1>10, <1>12, <1>13 DEF LineInv

LEMMA CommandKeeps == ASSUME LineInv, end_of_command PROVE LineInv'
<1>1. /\ shell = "words" /\ shell' \in {"overrun", "commands"} /\ UNCHANGED <<input, buf, p>>
  BY DEF end_of_command
<1> QED
  BY <1>1 DEF LineInv

(* The line outside its parser.                                            *)
LEMMA LineStays ==
  ASSUME LineInv, UNCHANGED line, shell' = shell \/ shell' \in {"exited", "wait", "prompt"}
  PROVE  LineInv'
BY DEF LineInv, line

-----------------------------------------------------------------------------
(* A child runs exactly as long as the descriptors before it left room.     *)
LEMMA OpenedCounts ==
  ASSUME RoomInv, shell = "invoke"
  PROVE  /\ Started \in Nat /\ Room \in Nat
         /\ CanPopen <=> Started + 1 <= Room
         /\ Opened \in 3 .. MaxFds
         /\ Opened = 3 + 2 * (IF Started + 1 <= Room THEN Started + 1 ELSE Room + 1)
<1>1. MaxFds \in Nat /\ MaxFds >= 5
  BY ShellAssumption
<1>2. Room \in Nat /\ 2 * Room + 5 <= MaxFds /\ MaxFds <= 2 * Room + 6
  BY <1>1 DEF Room
<1>3. Started \in Nat
  BY DEF RoomInv, Started
<1>4. fds = 3 + 2 * (IF Started <= Room THEN Started ELSE Room + 1)
  BY DEF RoomInv
<1>5. CASE Started <= Room
  <2>1. fds + 2 <= MaxFds /\ Opened = fds + 2 /\ fds + 2 = 5 + 2 * Started
    BY <1>1, <1>2, <1>3, <1>4, <1>5 DEF Opened
  <2>2. CanPopen <=> 7 + 2 * Started <= MaxFds
    BY <1>2, <1>3, <2>1 DEF CanPopen
  <2>3. Started + 1 <= Room \/ Started = Room
    BY <1>2, <1>3, <1>5
  <2> QED
    BY <1>1, <1>2, <1>3, <2>1, <2>2, <2>3
<1>6. CASE ~(Started <= Room)
  <2>1. fds = 5 + 2 * Room /\ fds <= MaxFds /\ ~(fds + 2 <= MaxFds)
    BY <1>1, <1>2, <1>3, <1>4, <1>6
  <2>2. Opened = fds /\ ~CanPopen
    BY <2>1 DEF Opened, CanPopen
  <2> QED
    BY <1>1, <1>2, <1>3, <1>6, <2>1, <2>2
<1> QED
  BY <1>5, <1>6

LEMMA InvokeCounts == ASSUME RoomInv, invoke_output PROVE RoomInv'
<1>1. shell = "invoke" /\ fds' = Opened /\ shell' = "wait"
  BY DEF invoke_output
<1>2. /\ Started \in Nat /\ Room \in Nat /\ (CanPopen <=> Started + 1 <= Room)
      /\ fds' \in 3 .. MaxFds
      /\ fds' = 3 + 2 * (IF Started + 1 <= Room THEN Started + 1 ELSE Room + 1)
  BY <1>1, OpenedCounts
<1>3. PICK S : ran.runs \in Seq(S)
  BY DEF RoomInv
<1>4. /\ ran = [runs |-> ran.runs, lost |-> ran.lost] /\ ran.lost \in Nat /\ Len(ran.runs) \in Nat
      /\ Len(ran.runs) = IF Started <= Room THEN Started ELSE Room
      /\ Started = Len(ran.runs) + ran.lost
  BY DEF RoomInv, Started
<1>5. CASE CanPopen
  <2> DEFINE x == concat_command
             T == S \cup {x}
             r == Append(ran.runs, x)
  <2>1. ran' = [ran EXCEPT !.runs = r]
    BY <1>5 DEF invoke_output
  <2> HIDE DEF x
  <2>2. ran.runs \in Seq(T) /\ x \in T
    BY <1>3
  <2>3. r \in Seq(T) /\ Len(r) = Len(ran.runs) + 1
    BY <2>2, AppendProperties
  <2> HIDE DEF r, T
  <2>4. ran' = [runs |-> r, lost |-> ran.lost]
    BY <1>4, <2>1
  <2>5. ran'.runs = r /\ ran'.lost = ran.lost /\ Started' = Started + 1
    BY <1>4, <2>3, <2>4 DEF Started
  <2>6. Len(r) = IF Started + 1 <= Room THEN Started + 1 ELSE Room
    <3>1. Started + 1 <= Room /\ Started <= Room
      BY <1>2, <1>5
    <3>2. Len(ran.runs) = Started
      BY <1>4, <3>1
    <3> QED
      BY <2>3, <3>1, <3>2
  <2>7. Room' = Room
    BY DEF Room
  <2>8. \E U : ran'.runs \in Seq(U)
    BY <2>3, <2>5
  <2> QED
    BY <1>1, <1>2, <1>4, <2>3, <2>4, <2>5, <2>6, <2>7, <2>8, SMTT(40) DEF RoomInv
<1>6. CASE ~CanPopen
  <2>1. ran' = [ran EXCEPT !.lost = @ + 1]
    BY <1>6 DEF invoke_output
  <2>2. ran' = [runs |-> ran.runs, lost |-> ran.lost + 1]
    BY <1>4, <2>1
  <2>3. ran'.runs = ran.runs /\ ran'.lost = ran.lost + 1 /\ Started' = Started + 1
    BY <1>4, <2>2 DEF Started
  <2>4. Len(ran.runs) = IF Started + 1 <= Room THEN Started + 1 ELSE Room
    <3>1. ~(Started + 1 <= Room) /\ (Started <= Room => Started = Room)
      BY <1>2, <1>6
    <3>2. Len(ran.runs) = Room
      BY <1>4, <3>1
    <3> QED
      BY <3>1, <3>2
  <2>5. Room' = Room
    BY DEF Room
  <2>6. \E U : ran'.runs \in Seq(U)
    BY <1>3, <2>3
  <2>7. ran' = [runs |-> ran'.runs, lost |-> ran'.lost] /\ ran'.lost \in Nat /\ Len(ran'.runs) \in Nat
    BY <1>4, <2>2, <2>3
  <2>8. Len(ran'.runs) = IF Started' <= Room' THEN Started' ELSE Room'
    BY <2>3, <2>4, <2>5
  <2>9. fds' \in 3 .. MaxFds /\ fds' = 3 + 2 * (IF Started' <= Room' THEN Started' ELSE Room' + 1)
    BY <1>2, <2>3, <2>5
  <2> QED
    BY <2>6, <2>7, <2>8, <2>9 DEF RoomInv
<1> QED
  BY <1>5, <1>6

(* The walk a command is begins at a root.                                  *)
LEMMA InvokeWalks == ASSUME WalkInv, invoke_output, UNCHANGED files PROVE WalkInv'
<1>1. CASE UNCHANGED walking
  BY <1>1, WalkStays DEF files, WalkInv, WalkTyped
<1>2. CASE IsWalk(concat_command) /\ myftw(concat_command[2][1])
  <2>1. PICK r \in Roots : concat_command = <<<<Program>>, <<r>>>>
    BY <1>2 DEF IsWalk
  <2>2. concat_command[2][1] = r /\ r \in STRING
    BY <2>1, ShellAssumption
  <2> QED
    BY <1>2, <2>2, WalkBegins
<1> QED
  BY <1>1, <1>2 DEF invoke_output

-----------------------------------------------------------------------------
LEMMA ShStep == ASSUME IInv, Sh, UNCHANGED files PROVE IInv'
<1>1. LineInv /\ RoomInv /\ WalkInv /\ (~Over => shell = "wait")
  BY DEF IInv
<1>2. disk' = disk
  BY DEF files
<1>3. CASE end_of_input /\ UNCHANGED walking
  <2>1. shell = "prompt" /\ shell' = "exited" /\ UNCHANGED <<line, fds, ran>>
    BY <1>3 DEF end_of_input
  <2>2. RoomInv'
    BY <1>1, <2>1 DEF RoomInv, Started
  <2> QED
    BY <1>1, <1>2, <1>3, <2>1, <2>2, LineStays, ChildStays DEF IInv
<1>4. CASE read_cmd /\ UNCHANGED walking
  <2>1. shell = "prompt" /\ UNCHANGED <<fds, ran>>
    BY <1>4 DEF read_cmd
  <2> QED
    BY <1>1, <1>2, <1>4, <2>1, ReadKeeps, RoomStays, ChildStays DEF IInv
<1>5. CASE parse_cmd /\ UNCHANGED walking
  <2>1. shell = "commands" /\ UNCHANGED <<fds, ran>>
    BY <1>5 DEF parse_cmd
  <2> QED
    BY <1>1, <1>2, <1>5, <2>1, ParseKeeps, RoomStays, ChildStays DEF IInv
<1>6. CASE word /\ UNCHANGED walking
  <2>1. shell = "words" /\ UNCHANGED <<fds, ran>>
    BY <1>6 DEF word
  <2> QED
    BY <1>1, <1>2, <1>6, <2>1, WordKeeps, RoomStays, ChildStays DEF IInv
<1>7. CASE end_of_command /\ UNCHANGED walking
  <2>1. shell = "words" /\ UNCHANGED <<fds, ran>>
    BY <1>7 DEF end_of_command
  <2> QED
    BY <1>1, <1>2, <1>7, <2>1, CommandKeeps, RoomStays, ChildStays DEF IInv
<1>8. CASE waitpid /\ UNCHANGED walking
  <2>1. shell = "wait" /\ Over /\ shell' = "prompt" /\ UNCHANGED <<line, fds, ran>>
    BY <1>8 DEF waitpid, ChildOver
  <2> QED
    BY <1>1, <1>2, <1>8, <2>1, LineStays, RoomStays, ChildStays DEF IInv
<1>9. CASE fork_fails
  <2>1. shell = "invoke" /\ fds' = Opened /\ shell' = "exited" /\ UNCHANGED <<line, ran, walking>>
    BY <1>9 DEF fork_fails
  <2>2. fds' \in 3 .. MaxFds
    BY <1>1, <2>1, OpenedCounts
  <2>3. RoomInv'
    BY <1>1, <2>1, <2>2 DEF RoomInv, Started
  <2> QED
    BY <1>1, <1>2, <2>1, <2>3, LineStays, ChildStays DEF IInv
<1>10. CASE invoke_output
  <2>1. shell' = "wait" /\ UNCHANGED line
    BY <1>10 DEF invoke_output
  <2> QED
    BY <1>1, <1>10, <2>1, LineStays, InvokeCounts, InvokeWalks DEF IInv
<1> QED
  BY <1>3, <1>4, <1>5, <1>6, <1>7, <1>8, <1>9, <1>10 DEF Sh

LEMMA FilesStep == ASSUME IInv, dopath \/ sigpipe \/ Change, UNCHANGED <<line, fds, shell, ran>> PROVE IInv'
<1>1. LineInv /\ RoomInv /\ WalkInv /\ (~Over => shell = "wait")
  BY DEF IInv
<1>2. ~Over
  BY DEF dopath, lstat_fails, file, directory, opendir_fails, opendir, readdir, closedir, sigpipe, Change, Over
<1>3. shell' = "wait"
  BY <1>1, <1>2
<1>4. LineInv'
  BY <1>1, LineStays
<1>5. RoomInv'
  BY <1>1, <1>2, RoomStays
<1>6. WalkInv'
  BY <1>1, WalkStep, KilledKeeps, WalkChange
<1> QED
  BY <1>3, <1>4, <1>5, <1>6 DEF IInv

LEMMA Stutters == ASSUME IInv, UNCHANGED vars PROVE IInv'
<1>1. UNCHANGED <<files, walking, line, fds, shell, ran>>
  BY DEF vars
<1>2. LineInv' /\ RoomInv'
  BY <1>1 DEF IInv, LineInv, RoomInv, Started, line
<1>3. WalkInv'
  BY <1>1, WalkStays DEF IInv, files, WalkInv, WalkTyped
<1>4. Over' = Over
  BY <1>1 DEF Over, walking
<1> QED
  BY <1>1, <1>2, <1>3, <1>4 DEF IInv

LEMMA StepHolds == IInv /\ [Next]_vars => IInv'
<1> SUFFICES ASSUME IInv, [Next]_vars PROVE IInv'
  OBVIOUS
<1>1. CASE Sh /\ UNCHANGED files
  BY <1>1, ShStep
<1>2. CASE (dopath \/ sigpipe \/ Change) /\ UNCHANGED <<line, fds, shell, ran>>
  BY <1>2, FilesStep
<1>3. CASE UNCHANGED vars
  BY <1>3, Stutters
<1> QED
  BY <1>1, <1>2, <1>3 DEF Next, Blocked, Finished

LEMMA Always == Spec => []IInv
BY InitHolds, StepHolds, PTL DEF Spec

-----------------------------------------------------------------------------
(* The place in the line never leaves the line, which has its end mark and  *)
(* its size, whatever is typed (read_cmd and parse_cmd of sh1.c); a walk    *)
(* runs only while the shell waits for it.                                  *)
THEOREM ShellTyped == Spec => []TypeOK
<1>1. IInv => TypeOK
  <2> SUFFICES ASSUME IInv PROVE TypeOK
    OBVIOUS
  <2>1. buf # <<>> => DOMAIN buf = 1 .. Len(buf)
    BY DEF IInv, LineInv
  <2>2. shell = "words" => DOMAIN cmd.argv = 1 .. Len(cmd.argv)
    BY DEF IInv, LineInv
  <2> QED
    BY <2>1, <2>2 DEF IInv, LineInv, RoomInv, WalkInv, WalkTyped, TypeOK
<1> QED
  BY <1>1, Always, PTL

(* Of the commands of a session exactly as many run as there is room for:   *)
(* invoke_output leaves the two ends of its pipe open.                      *)
THEOREM RunsSafe == Spec => []RunsWhileRoom
<1>1. IInv => RunsWhileRoom
  BY DEF IInv, RoomInv, RunsWhileRoom, Started, Room
<1> QED
  BY <1>1, Always, PTL

(* However deep the walk, and whatever happens to the files meanwhile, each *)
(* call of dopath finds its directory in the shared buffer in front of its  *)
(* ptr, and what is looked up next is an entry of the innermost.            *)
THEOREM PathsSafe == Spec => []PathKept
<1>1. IInv => PathKept
  BY WalkKeepsPaths DEF IInv
<1> QED
  BY <1>1, Always, PTL
-----------------------------------------------------------------------------
(* a lists the numbers of S in their order.                                 *)
Lists(a, S) ==
  /\ \A i, j \in 1 .. Len(a) : i < j => a[i] < a[j]
  /\ S = {a[i] : i \in 1 .. Len(a)}

LEMMA Counts ==
  ASSUME NEW m \in Nat, NEW a, \A i \in 1 .. m : a[i] \in Nat,
         \A i, j \in 1 .. m : i < j => a[i] < a[j]
  PROVE  /\ IsFiniteSet({a[i] : i \in 1 .. m})
         /\ Cardinality({a[i] : i \in 1 .. m}) = m
<1> DEFINE S == {a[i] : i \in 1 .. m}
           f == [i \in 1 .. m |-> a[i]]
<1>1. f \in [1 .. m -> S] /\ DOMAIN f = 1 .. m /\ \A i \in 1 .. m : f[i] = a[i]
  OBVIOUS
<1>2. \A s \in S : \E i \in 1 .. m : f[i] = s
  OBVIOUS
<1>3. ASSUME NEW i \in 1 .. m, NEW j \in 1 .. m, f[i] = f[j] PROVE i = j
  <2>1. a[i] \in Nat /\ a[j] \in Nat /\ a[i] = a[j] /\ ~(i < j) /\ ~(j < i)
    BY <1>1, <1>3
  <2> QED
    BY <2>1
<1> HIDE DEF f, S
<1>4. IsInjective(f)
  BY <1>1, <1>3 DEF IsInjective
<1>5. ExistsBijection(1 .. m, S)
  BY <1>1, <1>2, <1>4 DEF ExistsBijection, Bijection, Injection, Surjection
<1>6. IsFiniteSet(S) /\ Cardinality(S) = m
  BY <1>5, FS_CountingElements, FS_NatBijection
<1> QED
  BY <1>6 DEF S

(* The i-th number of the list is the one with i numbers up to it.          *)
LEMMA NthOf ==
  ASSUME NEW a \in Seq(Nat), NEW S, Lists(a, S), NEW i \in 1 .. Len(a)
  PROVE  Nth(S, i) = a[i]
<1> DEFINE UpTo(x) == {k \in S : k <= x}
<1>1. Len(a) \in Nat /\ \A j \in 1 .. Len(a) : a[j] \in Nat
  BY LenProperties, ElementOfSeq
<1>2. /\ \A j, k \in 1 .. Len(a) : j < k => a[j] < a[k]
      /\ S = {a[j] : j \in 1 .. Len(a)}
  BY DEF Lists
<1>3. ASSUME NEW j \in 1 .. Len(a) PROVE Cardinality(UpTo(a[j])) = j
  <2>1. UpTo(a[j]) = {a[k] : k \in 1 .. j}
    <3>1. ASSUME NEW k \in 1 .. Len(a) PROVE a[k] <= a[j] <=> k <= j
      <4>1. k < j \/ k = j \/ j < k
        BY <1>1
      <4> QED
        BY <1>1, <1>2, <4>1
    <3>2. ASSUME NEW k \in 1 .. j PROVE a[k] \in S /\ a[k] <= a[j]
      <4>1. k \in 1 .. Len(a) /\ k <= j
        BY <1>1
      <4> QED
        BY <1>2, <3>1, <4>1
    <3>3. ASSUME NEW x \in S, x <= a[j] PROVE \E k \in 1 .. j : x = a[k]
      <4>1. PICK k \in 1 .. Len(a) : x = a[k]
        BY <1>2
      <4>2. k <= j /\ k \in 1 .. j
        BY <1>1, <3>1, <3>3, <4>1
      <4> QED
        BY <4>1, <4>2
    <3> QED
      BY <3>2, <3>3
  <2>2. j \in Nat /\ \A k \in 1 .. j : a[k] \in Nat
    BY <1>1
  <2>3. \A k, l \in 1 .. j : k < l => a[k] < a[l]
    BY <1>1, <1>2, SMTT(40)
  <2> QED
    BY <2>1, <2>2, <2>3, Counts
<1>4. a[i] \in S
  BY <1>2
<1> HIDE DEF UpTo
<1>5. ASSUME NEW x \in S, Cardinality(UpTo(x)) = i PROVE x = a[i]
  <2>1. PICK j \in 1 .. Len(a) : x = a[j]
    BY <1>2
  <2> QED
    BY <1>3, <1>5, <2>1
<1>6. Nth(S, i) = CHOOSE x \in S : Cardinality(UpTo(x)) = i
  BY DEF Nth, UpTo
<1> QED
  BY <1>3, <1>4, <1>5, <1>6

-----------------------------------------------------------------------------
(* What the parser has done with the line that was typed: up to p the       *)
(* blanks are ends of words, and p is behind a word.                       *)
Letter == STRING \ {NUL}
CutOff ==
  /\ typed \in Seq(Letter) /\ typed # <<>> /\ Len(buf) = Len(typed) + 1
  /\ \A i \in 1 .. Len(typed) : buf[i] = IF i < p /\ typed[i] \in Blanks THEN NUL ELSE typed[i]
  /\ p = 1 \/ p = Len(buf) \/ typed[p] \in Blanks
  /\ typed[1] = Pipe => p = 1

(* The command has the words in front of p, all of them when p is at the    *)
(* end; a line that begins with a pipe character stays where it is.         *)
Behind   == {i \in Starts(typed) : i < p}
Complete == /\ Len(cmds) = 1 /\ p = Len(buf)
            /\ cmds[1].argv \in Seq(Nat) /\ Lists(cmds[1].argv, Starts(typed))
            /\ Len(cmds[1].argv) < INIT_CAPA
Stuck    == Len(cmds) = 1 /\ p = 1 /\ typed[1] = Pipe

WordInv ==
  /\ input \in Seq(Letter)
  /\ shell \in {"commands", "words", "invoke", "wait"} => CutOff
  /\ shell = "commands" => (cmds = <<>> /\ p = 1) \/ Complete \/ Stuck
  /\ shell = "words" =>
       /\ cmds = <<>> \/ Stuck
       /\ Lists(cmd.argv, Behind) /\ Len(cmd.argv) < INIT_CAPA
       /\ cmd.capa = INIT_CAPA /\ cmd.block = INIT_CAPA
  /\ shell \in {"invoke", "wait"} => Complete
  /\ shell = "overrun" => TooMuch(typed)

(* The line with every blank an end holds each word where it was typed.     *)
LEMMA WordsKept ==
  ASSUME LineInv, CutOff, p = Len(buf), NEW s \in Starts(typed)
  PROVE  Word(s) = SubSeq(typed, s, WordEnd(typed, s))
<1> DEFINE n == Len(typed)
           e == Next_(s, {NUL})
           Ends(j) == /\ j = n \/ typed[j + 1] \in Blanks
                      /\ \A k \in s .. j : typed[k] \notin Blanks
<1>1. /\ n \in Nat /\ DOMAIN typed = 1 .. n /\ Len(buf) = n + 1 /\ p = n + 1 /\ buf[n + 1] = NUL
      /\ \A i \in 1 .. n : typed[i] \in Letter
  BY ElementOfSeq DEF CutOff, LineInv
<1>2. s \in 1 .. n /\ typed[s] \notin Blanks
  BY <1>1 DEF Starts
<1>3. \A i \in 1 .. n : buf[i] = IF typed[i] \in Blanks THEN NUL ELSE typed[i]
  BY <1>1 DEF CutOff
<1>4. e \in s .. n + 1 /\ buf[e] = NUL /\ \A k \in s .. e - 1 : buf[k] # NUL
  <2>1. n + 1 \in Nat /\ s \in 1 .. n + 1 /\ NUL \in {NUL}
    BY <1>1, <1>2
  <2> QED
    BY <1>1, <2>1, NextFound
<1> HIDE DEF e
<1>5. e - 1 \in s .. n
  BY <1>1, <1>2, <1>3, <1>4 DEF Letter
<1>6. \A k \in s .. e - 1 : typed[k] \notin Blanks /\ buf[k] = typed[k]
  BY <1>1, <1>2, <1>3, <1>4, <1>5
<1>7. e <= n => typed[e] \in Blanks
  BY <1>1, <1>2, <1>3, <1>4 DEF Letter
<1>8. Ends(e - 1)
  <2>1. e - 1 = n \/ (e <= n /\ e - 1 + 1 = e)
    BY <1>1, <1>2, <1>4, <1>5
  <2> QED
    BY <1>6, <1>7, <2>1
<1>9. ASSUME NEW j \in s .. n, Ends(j) PROVE j = e - 1
  <2>1. ASSUME e <= j PROVE FALSE
    <3>1. e \in s .. j /\ e <= n
      BY <1>1, <1>2, <1>4, <2>1
    <3> QED
      BY <1>7, <1>9, <3>1
  <2>2. ASSUME j + 1 <= e - 1 PROVE FALSE
    <3>1. j + 1 \in s .. e - 1 /\ j # n
      <4>1. e \in Int /\ s \in Nat /\ n \in Nat /\ j \in Nat /\ s <= j /\ e <= n + 1
        BY <1>1, <1>2, <1>4
      <4> QED
        BY <2>2, <4>1
    <3> QED
      BY <1>6, <1>9, <3>1
  <2> QED
    BY <1>1, <1>2, <1>4, <2>1, <2>2
<1>10. WordEnd(typed, s) = CHOOSE j \in s .. n : Ends(j)
  BY DEF WordEnd
<1> HIDE DEF Ends
<1>11. WordEnd(typed, s) = e - 1
  BY <1>5, <1>8, <1>9, <1>10
<1> DEFINE u == SubSeq(buf, s, e - 1)
           v == SubSeq(typed, s, e - 1)
<1>12. s \in Int /\ e - 1 \in Int /\ \A k \in s .. e - 1 : buf[k] \in Letter /\ typed[k] \in Letter
  BY <1>1, <1>2, <1>5, <1>6
<1>13. /\ u \in Seq(Letter) /\ v \in Seq(Letter) /\ Len(u) = Len(v)
       /\ Len(u) = e - 1 - s + 1
       /\ \A i \in 1 .. e - 1 - s + 1 : u[i] = buf[s + i - 1] /\ v[i] = typed[s + i - 1]
  BY <1>2, <1>5, <1>12, SubSeqProperties
<1> HIDE DEF u, v
<1>14. ASSUME NEW i \in 1 .. Len(u) PROVE u[i] = v[i]
  <2>1. i \in 1 .. e - 1 - s + 1 /\ s + i - 1 \in s .. e - 1
    BY <1>1, <1>2, <1>5, <1>13
  <2> QED
    BY <1>6, <1>13, <2>1
<1>15. u = v
  BY <1>13, <1>14, SeqEqual
<1> QED
  BY <1>11, <1>15 DEF u, v, e, Word

LEMMA SplitLength ==
  ASSUME NEW t, Cardinality(Starts(t)) \in Nat
  PROVE  Len(Split(t)) = Cardinality(Starts(t))
<1> DEFINE m == Cardinality(Starts(t))
           W(i) == SubSeq(t, Nth(Starts(t), i), WordEnd(t, Nth(Starts(t), i)))
<1>1. Split(t) = [i \in 1 .. m |-> W(i)]
  BY DEF Split
<1> HIDE DEF m, W
<1> QED
  BY <1>1 DEF m

LEMMA CommandRight ==
  ASSUME LineInv, CutOff, Complete
  PROVE  /\ concat_command = Split(typed)
         /\ Cardinality(Starts(typed)) = Len(cmds[1].argv)
<1> DEFINE a == cmds[1].argv
           m == Len(a)
<1>1. /\ a \in Seq(Nat) /\ Lists(a, Starts(typed)) /\ m \in Nat /\ DOMAIN a = 1 .. m
      /\ \A i \in 1 .. m : a[i] \in Nat /\ a[i] \in Starts(typed)
  BY LenProperties, ElementOfSeq DEF Complete, Lists
<1>2. Starts(typed) = {a[i] : i \in 1 .. m} /\ \A i, j \in 1 .. m : i < j => a[i] < a[j]
  BY <1>1 DEF Lists
<1>3. concat_command = [i \in 1 .. m |-> Word(a[i])]
  BY <1>1 DEF concat_command
<1> HIDE DEF a, m
<1>4. Cardinality(Starts(typed)) = m
  BY <1>1, <1>2, Counts
<1>5. ASSUME NEW i \in 1 .. m
      PROVE  Word(a[i]) = SubSeq(typed, Nth(Starts(typed), i), WordEnd(typed, Nth(Starts(typed), i)))
  <2>1. Nth(Starts(typed), i) = a[i]
    BY <1>1, NthOf DEF m
  <2>2. Word(a[i]) = SubSeq(typed, a[i], WordEnd(typed, a[i]))
    BY <1>1, WordsKept DEF Complete
  <2> QED
    BY <2>1, <2>2
<1>6. concat_command = Split(typed)
  BY <1>3, <1>4, <1>5 DEF Split
<1> QED
  BY <1>4, <1>6 DEF a, m

-----------------------------------------------------------------------------
LEMMA WordsStay ==
  ASSUME WordInv, UNCHANGED line,
         shell' = shell \/ shell' \in {"exited", "prompt"} \/ (shell = "invoke" /\ shell' = "wait")
  PROVE  WordInv'
BY DEF WordInv, line, CutOff, Complete, Stuck, Behind

LEMMA ReadCuts == ASSUME WordInv, read_cmd PROVE WordInv'
<1> DEFINE n == LineLength
           t == SubSeq(input, 1, n)
           r == SubSeq(input, n + 1, Len(input))
           b == Append(t, NUL)
<1>1. input \in Seq(Letter) /\ Len(input) \in Nat /\ input # <<>> /\ input \in Seq(STRING)
  BY DEF WordInv, read_cmd, Letter
<1>2. n \in 1 .. LINE_BUF_SIZE - 1 /\ n <= Len(input) /\ LINE_BUF_SIZE \in Nat
  BY <1>1, LengthFits, ShellAssumption
<1>3. /\ buf' = b /\ typed' = t /\ input' = r /\ p' = 1 /\ cmds' = <<>> /\ shell' = "commands"
  BY DEF read_cmd
<1> HIDE DEF n
<1>4. t \in Seq(Letter) /\ Len(t) = n
  BY <1>1, <1>2, SubSeqProperties
<1>5. r \in Seq(Letter)
  BY <1>1, <1>2, SubSeqProperties
<1> HIDE DEF r, t
<1>6. Len(b) = Len(t) + 1 /\ \A i \in 1 .. Len(t) : b[i] = t[i]
  BY <1>4, AppendProperties
<1>7. t # <<>>
  BY <1>2, <1>4, EmptySeq
<1> HIDE DEF b
<1>8. CutOff'
  <2>1. \A i \in 1 .. Len(t) : ~(i < 1)
    BY <1>2, <1>4
  <2> QED
    BY <1>3, <1>4, <1>6, <1>7, <2>1 DEF CutOff
<1> QED
  BY <1>3, <1>5, <1>8 DEF WordInv

(* What a line that is being cut looks like.                                *)
LEMMA CutLine ==
  ASSUME LineInv, CutOff
  PROVE  /\ Len(typed) \in Nat \ {0} /\ DOMAIN typed = 1 .. Len(typed) /\ DOMAIN buf = 1 .. Len(buf)
         /\ p \in 1 .. Len(buf) /\ buf[Len(buf)] = NUL
         /\ \A i \in 1 .. Len(typed) : typed[i] \in Letter /\ typed[i] # NUL
         /\ \A i \in p .. Len(typed) : buf[i] = typed[i]
         /\ buf[p] = NUL <=> p = Len(buf)
<1>1. /\ Len(typed) \in Nat \ {0} /\ DOMAIN typed = 1 .. Len(typed) /\ DOMAIN buf = 1 .. Len(buf)
      /\ Len(buf) = Len(typed) + 1 /\ buf # <<>>
  BY EmptySeq DEF CutOff, LineInv
<1>2. p \in 1 .. Len(buf) /\ buf[Len(buf)] = NUL
  BY <1>1 DEF LineInv
<1>3. \A i \in 1 .. Len(typed) : typed[i] \in Letter /\ typed[i] # NUL
  BY ElementOfSeq DEF CutOff, Letter
<1>4. \A i \in p .. Len(typed) : buf[i] = typed[i]
  BY <1>1, <1>2 DEF CutOff
<1>5. p # Len(buf) => p \in p .. Len(typed) /\ p \in 1 .. Len(typed)
  BY <1>1, <1>2
<1> QED
  BY <1>1, <1>2, <1>3, <1>4, <1>5

LEMMA ParseCuts == ASSUME LineInv, WordInv, parse_cmd PROVE WordInv'
<1>1. /\ shell = "commands" /\ UNCHANGED <<input, buf, p, cmds, typed>>
      /\ CutOff
      /\ (cmds = <<>> /\ p = 1) \/ Complete \/ Stuck
  BY DEF parse_cmd, WordInv
<1>2. CutOff'
  BY <1>1 DEF CutOff
<1>3. /\ Len(typed) \in Nat \ {0} /\ Len(buf) = Len(typed) + 1 /\ (buf[p] = NUL <=> p = Len(buf))
  BY <1>1, CutLine DEF CutOff
<1>4. p = 1 => buf[p] # NUL
  BY <1>3
<1>5. CASE buf[p] = NUL
  <2>1. shell' = "invoke" /\ Complete
    BY <1>1, <1>4, <1>5 DEF parse_cmd, Stuck
  <2>2. Complete'
    BY <1>1, <2>1 DEF Complete
  <2> QED
    BY <1>1, <1>2, <2>1, <2>2 DEF WordInv
<1>6. CASE buf[p] # NUL
  <2>1. shell' = "words" /\ cmd' = [argv |-> <<>>, capa |-> INIT_CAPA, block |-> INIT_CAPA]
    BY <1>6 DEF parse_cmd
  <2>2. p = 1 /\ (cmds = <<>> \/ Stuck)
    BY <1>1, <1>3, <1>6 DEF Complete, Stuck
  <2>3. Behind = {}
    BY <1>3, <2>2, <1>1, CutLine DEF Behind, Starts
  <2>4. Behind' = Behind /\ Stuck' = Stuck
    BY <1>1 DEF Behind, Stuck
  <2>5. Lists(<<>>, {}) /\ Len(<<>>) = 0
    BY EmptySeq DEF Lists
  <2>6. INIT_CAPA \in Nat /\ 0 < INIT_CAPA
    BY ShellAssumption
  <2> QED
    BY <1>1, <1>2, <2>1, <2>2, <2>3, <2>4, <2>5, <2>6 DEF WordInv
<1> QED
  BY <1>5, <1>6

LEMMA CommandCuts == ASSUME LineInv, WordInv, end_of_command PROVE WordInv'
<1>1. /\ shell = "words" /\ UNCHANGED <<input, buf, p, cmd, typed>> /\ buf[p] \in {NUL, Pipe}
      /\ CutOff /\ (cmds = <<>> \/ Stuck) /\ cmd.argv \in Seq(Nat)
      /\ Lists(cmd.argv, Behind) /\ Len(cmd.argv) < INIT_CAPA /\ cmd.block = INIT_CAPA
  BY DEF end_of_command, WordInv, LineInv
<1>2. CutOff'
  BY <1>1 DEF CutOff
<1>3. INIT_CAPA \in Nat /\ Len(cmd.argv) \in Nat /\ ~(Len(cmd.argv) + 1 > cmd.block)
  BY <1>1, ShellAssumption
<1>4. CASE cmds = <<>>
  <2>1. shell' = "commands" /\ cmds' = Append(cmds, cmd)
    BY <1>3, <1>4, EmptySeq DEF end_of_command
  <2>2. Len(cmds') = 1 /\ cmds'[1] = cmd
    BY <1>4, <2>1
  <2>3. CASE buf[p] = NUL
    <3>1. p = Len(buf) /\ Len(buf) = Len(typed) + 1 /\ Len(typed) \in Nat /\ DOMAIN typed = 1 .. Len(typed)
      BY <1>1, <2>3, CutLine DEF CutOff
    <3>2. Behind = Starts(typed)
      BY <3>1 DEF Behind, Starts
    <3>3. Complete'
      BY <1>1, <2>2, <3>1, <3>2 DEF Complete
    <3> QED
      BY <1>1, <1>2, <2>1, <3>3 DEF WordInv
  <2>4. CASE buf[p] = Pipe
    <3>1. p \in 1 .. Len(typed) /\ typed[p] = Pipe
      <4>1. p # Len(buf)
        BY <1>1, <2>4, CutLine DEF Pipe, NUL
      <4>2. p \in 1 .. Len(typed) /\ p \in p .. Len(typed)
        BY <1>1, <4>1, CutLine DEF CutOff
      <4> QED
        BY <1>1, <2>4, <4>2, CutLine
    <3>2. p = 1
      BY <1>1, <3>1, CutLine DEF CutOff, Pipe, Blanks
    <3>3. Stuck'
      BY <1>1, <2>2, <3>1, <3>2 DEF Stuck
    <3> QED
      BY <1>1, <1>2, <2>1, <3>3 DEF WordInv
  <2> QED
    BY <1>1, <2>3, <2>4
<1>5. CASE Stuck
  <2>1. shell' = "overrun" /\ TooMuch(typed)
    BY <1>5 DEF end_of_command, Stuck, TooMuch
  <2>2. TooMuch(typed)'
    BY <1>1, <2>1 DEF TooMuch
  <2> QED
    BY <1>1, <2>1, <2>2 DEF WordInv
<1> QED
  BY <1>1, <1>4, <1>5

(* A word: from q, behind the blanks at p, up to the blank or the end at e. *)
LEMMA WordCuts == ASSUME LineInv, WordInv, word PROVE WordInv'
<1> DEFINE n == Len(typed)
           q == Next_(p, Others(Blanks))
           e == Next_(q, Blanks \cup {NUL})
           c == IF buf[q] = NUL THEN cmd ELSE [Grown(cmd) EXCEPT !.argv = Append(@, q)]
           b == Ended(q, e)
<1>1. /\ shell = "words" /\ buf[p] \notin {NUL, Pipe} /\ UNCHANGED <<input, cmds, typed>>
      /\ cmd' = c /\ buf' = b /\ p' = e
      /\ shell' = IF Len(c.argv) > c.block THEN "overrun" ELSE "words"
  BY DEF word
<1>2. /\ CutOff
      /\ cmds = <<>> \/ Stuck
      /\ Lists(cmd.argv, Behind) /\ Len(cmd.argv) < INIT_CAPA
      /\ cmd.capa = INIT_CAPA /\ cmd.block = INIT_CAPA
      /\ cmd = [argv |-> cmd.argv, capa |-> cmd.capa, block |-> cmd.block]
      /\ cmd.argv \in Seq(Nat) /\ \A i \in 1 .. Len(cmd.argv) : cmd.argv[i] < p
      /\ input \in Seq(Letter) /\ buf \in Seq(Char)
  BY <1>1 DEF WordInv, LineInv
<1>3. /\ n \in Nat \ {0} /\ DOMAIN typed = 1 .. n /\ DOMAIN buf = 1 .. n + 1 /\ Len(buf) = n + 1
      /\ p \in 1 .. n /\ buf[n + 1] = NUL
      /\ \A i \in 1 .. n : typed[i] \in Letter /\ typed[i] # NUL
      /\ \A i \in p .. n : buf[i] = typed[i]
  <2>1. p \in 1 .. n + 1 /\ p # n + 1
    BY <1>1, <1>2, CutLine DEF CutOff
  <2> QED
    BY <1>2, <2>1, CutLine DEF CutOff
<1>4. /\ q \in p .. n + 1 /\ buf[q] \notin Blanks
      /\ \A k \in p .. q - 1 : buf[k] \in Blanks
  <2>1. NUL \in Others(Blanks) /\ n + 1 \in Nat /\ p \in 1 .. n + 1
    BY <1>3 DEF Others, Blanks, NUL, ToSet
  <2>2. q \in p .. n + 1 /\ buf[q] \in Others(Blanks) /\ \A k \in p .. q - 1 : buf[k] \notin Others(Blanks)
    BY <1>3, <2>1, NextFound
  <2> HIDE DEF q
  <2>3. ASSUME NEW k \in p .. q - 1 PROVE buf[k] \in Blanks
    <3>1. k \in DOMAIN buf
      BY <1>3, <2>2
    <3> QED
      BY <2>2, <3>1 DEF Others, ToSet
  <2> QED
    BY <2>2, <2>3 DEF Others
<1> HIDE DEF q
<1>5. /\ e \in q .. n + 1 /\ buf[e] \in Blanks \cup {NUL}
      /\ \A k \in q .. e - 1 : buf[k] \notin Blanks \cup {NUL}
  <2>1. n + 1 \in Nat /\ q \in 1 .. n + 1 /\ NUL \in Blanks \cup {NUL}
    BY <1>3, <1>4
  <2> QED
    BY <1>3, <2>1, NextFound
<1> HIDE DEF e
<1>6. q \in Nat /\ e \in Nat /\ p \in Nat /\ 1 <= p /\ p <= q /\ q <= e /\ e <= n + 1
  BY <1>3, <1>4, <1>5
<1>7. typed[1] # Pipe
  <2>1. ASSUME typed[1] = Pipe PROVE FALSE
    <3>1. p = 1 /\ buf[1] = typed[1]
      BY <1>2, <1>3, <2>1 DEF CutOff
    <3> QED
      BY <1>1, <2>1, <3>1
  <2> QED
    BY <2>1
<1>8. cmds = <<>>
  BY <1>2, <1>7 DEF Stuck
<1>9. \A k \in p .. n : k < q => typed[k] \in Blanks
  BY <1>3, <1>4, <1>6
<1>10. \A k \in q .. n : k < e => typed[k] \notin Blanks
  BY <1>3, <1>5, <1>6
<1>11. e <= n => typed[e] \in Blanks
  BY <1>3, <1>5, <1>6
<1>12. b = [i \in 1 .. n + 1 |-> IF i \in p .. q - 1 THEN NUL ELSE buf[i]]
  BY <1>3 DEF Ended
<1> HIDE DEF b
<1>13. CutOff'
  <2>1. Len(b) = n + 1
    <3>1. b \in [1 .. n + 1 -> Char]
      BY <1>2, <1>3, <1>12, ElementOfSeq DEF Char
    <3> QED
      BY <1>3, <1>12, <3>1
  <2>2. ASSUME NEW i \in 1 .. n PROVE b[i] = IF i < e /\ typed[i] \in Blanks THEN NUL ELSE typed[i]
    <3>1. buf[i] = IF i < p /\ typed[i] \in Blanks THEN NUL ELSE typed[i]
      BY <1>2 DEF CutOff
    <3>2. b[i] = IF i \in p .. q - 1 THEN NUL ELSE buf[i]
      BY <1>3, <1>12
    <3>3. CASE i < p
      BY <1>6, <3>1, <3>2, <3>3
    <3>4. CASE p <= i /\ i < q
      BY <1>6, <1>9, <3>2, <3>4
    <3>5. CASE q <= i /\ i < e
      BY <1>6, <1>10, <3>1, <3>2, <3>5
    <3>6. CASE e <= i
      BY <1>6, <3>1, <3>2, <3>6
    <3> QED
      BY <1>6, <3>3, <3>4, <3>5, <3>6
  <2>3. e = n + 1 \/ typed[e] \in Blanks
    BY <1>3, <1>6, <1>11
  <2> QED
    BY <1>1, <1>2, <1>7, <2>1, <2>2, <2>3 DEF CutOff
<1>14. CASE buf[q] = NUL
  <2>1. q = n + 1 /\ e = n + 1
    BY <1>3, <1>4, <1>6, <1>14
  <2>2. c = cmd /\ shell' = "words" /\ cmd' = cmd
    <3>1. INIT_CAPA \in Nat /\ Len(cmd.argv) \in Nat
      BY <1>2, ShellAssumption
    <3> QED
      BY <1>1, <1>2, <1>14, <3>1
  <2>3. Behind' = Behind
    <3>1. \A i \in Starts(typed) : i < e <=> i < p
      BY <1>3, <1>6, <1>9, <2>1 DEF Starts
    <3> QED
      BY <1>1, <3>1 DEF Behind
  <2> QED
    BY <1>1, <1>2, <1>8, <1>13, <2>2, <2>3 DEF WordInv
<1>15. CASE buf[q] # NUL
  <2> DEFINE a == Append(cmd.argv, q)
             m == Len(cmd.argv)
  <2>1. q <= n /\ q < e /\ typed[q] \notin Blanks
    BY <1>3, <1>4, <1>5, <1>6, <1>15
  <2>2. q \in Starts(typed)
    <3>1. CASE q = p
      BY <1>2, <1>3, <2>1, <3>1 DEF CutOff, Starts
    <3>2. CASE q # p
      <4>1. q - 1 \in p .. n /\ q - 1 < q
        BY <1>6, <2>1, <3>2
      <4>2. typed[q - 1] \in Blanks
        BY <1>9, <4>1
      <4> QED
        BY <1>3, <1>6, <2>1, <4>2 DEF Starts
    <3> QED
      BY <3>1, <3>2
  <2>3. {i \in Starts(typed) : i < e} = Behind \cup {q}
    <3>1. ASSUME NEW i \in Starts(typed), i < e, p <= i PROVE i = q
      <4>1. i \in 1 .. n /\ typed[i] \notin Blanks /\ (i = 1 \/ typed[i - 1] \in Blanks)
        BY <1>3 DEF Starts
      <4>2. ~(i < q)
        BY <1>6, <1>9, <3>1, <4>1
      <4>3. CASE q < i
        <5>1. i # 1 /\ i - 1 \in q .. n /\ i - 1 < e
          BY <1>6, <3>1, <4>1, <4>3
        <5> QED
          BY <1>10, <4>1, <5>1
      <4> QED
        BY <1>6, <4>1, <4>2, <4>3
    <3>2. \A i \in Behind : i < e
      BY <1>3, <1>6 DEF Behind, Starts
    <3>3. \A i \in Starts(typed) : i \in Nat
      BY <1>3 DEF Starts
    <3>4. ASSUME NEW i \in Starts(typed) PROVE i < e <=> i < p \/ i = q
      <4>1. i < p \/ p <= i
        BY <1>6, <3>3
      <4> QED
        BY <1>6, <2>1, <3>1, <3>2, <3>3, <4>1 DEF Behind
    <3> QED
      BY <2>2, <3>4 DEF Behind
  <2>4. /\ a \in Seq(Nat) /\ m \in Nat /\ Len(a) = m + 1 /\ a[m + 1] = q
        /\ \A i \in 1 .. m : a[i] = cmd.argv[i] /\ a[i] \in Nat /\ a[i] < q
    <3>1. a \in Seq(Nat) /\ m \in Nat /\ Len(a) = m + 1 /\ a[m + 1] = q /\ \A i \in 1 .. m : a[i] = cmd.argv[i]
      BY <1>2, <1>6, AppendProperties, LenProperties
    <3>2. \A i \in 1 .. m : cmd.argv[i] \in Nat /\ cmd.argv[i] < p
      BY <1>2, ElementOfSeq
    <3> QED
      BY <1>6, <3>1, <3>2
  <2>5. /\ c = [argv |-> c.argv, capa |-> c.capa, block |-> c.block] /\ c.argv = a
        /\ c.capa = Grown(cmd).capa /\ c.block = Grown(cmd).block
    <3>1. Grown(cmd) = [argv |-> cmd.argv, capa |-> Grown(cmd).capa, block |-> Grown(cmd).block]
      BY <1>2 DEF Grown
    <3> QED
      BY <1>15, <3>1, SMTT(40)
  <2> HIDE DEF a, c
  <2>6. Lists(a, Behind \cup {q})
    <3>1. \A i, j \in 1 .. m : i < j => cmd.argv[i] < cmd.argv[j]
      BY <1>2 DEF Lists
    <3>2. Behind = {a[i] : i \in 1 .. m}
      BY <1>2, <2>4 DEF Lists
    <3>3. 1 .. Len(a) = (1 .. m) \cup {m + 1}
      BY <2>4
    <3>4. ASSUME NEW i \in 1 .. Len(a), NEW j \in 1 .. Len(a), i < j PROVE a[i] < a[j]
      <4>1. i \in 1 .. m
        BY <2>4, <3>4
      <4>2. CASE j \in 1 .. m
        BY <2>4, <3>1, <3>4, <4>1, <4>2
      <4>3. CASE j = m + 1
        BY <2>4, <4>1, <4>3
      <4> QED
        BY <3>3, <4>2, <4>3
    <3>5. Behind \cup {q} = {a[i] : i \in 1 .. Len(a)}
      BY <2>4, <3>2, <3>3
    <3> QED
      BY <3>4, <3>5 DEF Lists
  <2> HIDE DEF m
  <2>7. INIT_CAPA \in Nat \ {0} /\ m < INIT_CAPA
    BY <1>2, ShellAssumption DEF m
  <2>8. CASE m + 1 < INIT_CAPA
    <3>1. Grown(cmd) = cmd
      BY <1>2, <2>4, <2>7, <2>8 DEF Grown, m
    <3>2. c.capa = INIT_CAPA /\ c.block = INIT_CAPA /\ Len(c.argv) < INIT_CAPA /\ shell' = "words"
      BY <1>1, <1>2, <2>4, <2>5, <2>7, <2>8, <3>1
    <3>3. Behind' = Behind \cup {q}
      BY <1>1, <2>3 DEF Behind
    <3> QED
      BY <1>1, <1>2, <1>8, <1>13, <2>5, <2>6, <3>2, <3>3 DEF WordInv
  <2>9. CASE m + 1 = INIT_CAPA
    <3>1. Grown(cmd).block = (2 * INIT_CAPA) \div Pointer
      BY <1>2, <2>4, <2>7, <2>9 DEF Grown, m
    <3>2. (2 * INIT_CAPA) \div Pointer < INIT_CAPA
      BY <2>7 DEF Pointer
    <3>3. shell' = "overrun"
      BY <1>1, <2>4, <2>5, <2>7, <2>9, <3>1, <3>2
    <3>4. IsFiniteSet({a[i] : i \in 1 .. Len(a)}) /\ Cardinality({a[i] : i \in 1 .. Len(a)}) = INIT_CAPA
      <4>1. \A i \in 1 .. Len(a) : a[i] \in Nat
        BY <2>4, ElementOfSeq
      <4>2. Len(a) \in Nat /\ Len(a) = INIT_CAPA /\ \A i, j \in 1 .. Len(a) : i < j => a[i] < a[j]
        BY <2>4, <2>6, <2>9 DEF Lists
      <4> QED
        BY <4>1, <4>2, Counts
    <3>5. {a[i] : i \in 1 .. Len(a)} \subseteq Starts(typed)
      BY <2>2, <2>6 DEF Lists, Behind
    <3>6. IsFiniteSet(Starts(typed))
      <4>1. Starts(typed) \in SUBSET Nat /\ \A i \in Starts(typed) : i <= n
        BY <1>3 DEF Starts
      <4> QED
        BY <1>3, <4>1, FS_BoundedSetOfNaturals
    <3>7. Cardinality(Starts(typed)) \in Nat /\ Cardinality(Starts(typed)) >= INIT_CAPA
      BY <2>7, <3>4, <3>5, <3>6, FS_Subset, FS_CardinalityType
    <3>8. Len(Split(typed)) = Cardinality(Starts(typed))
      BY <3>7, SplitLength
    <3>9. TooMuch(typed)
      BY <3>7, <3>8 DEF TooMuch
    <3>10. TooMuch(typed)' /\ input' = input
      BY <1>1, <3>9 DEF TooMuch
    <3> QED
      BY <1>2, <3>3, <3>10 DEF WordInv
  <2> QED
    BY <2>4, <2>7, <2>8, <2>9
<1> QED
  BY <1>14, <1>15

-----------------------------------------------------------------------------
LEMMA WordInvInit == Init => WordInv
<1> SUFFICES ASSUME Init PROVE WordInv
  OBVIOUS
<1>1. PICK s \in Sessions : input = s.input
  BY DEF Init
<1>2. input \in Seq(Letter)
  BY <1>1, ShellAssumption DEF Letter
<1> QED
  BY <1>2 DEF Init, WordInv

LEMMA WordInvStep == IInv /\ WordInv /\ [Next]_vars => WordInv'
<1> SUFFICES ASSUME IInv, WordInv, [Next]_vars PROVE WordInv'
  OBVIOUS
<1>1. LineInv
  BY DEF IInv
<1>2. CASE Sh
  <2>1. CASE end_of_input
    BY <2>1, WordsStay DEF end_of_input
  <2>2. CASE read_cmd
    BY <2>2, ReadCuts
  <2>3. CASE parse_cmd
    BY <1>1, <2>3, ParseCuts
  <2>4. CASE word
    BY <1>1, <2>4, WordCuts
  <2>5. CASE end_of_command
    BY <1>1, <2>5, CommandCuts
  <2>6. CASE waitpid
    BY <2>6, WordsStay DEF waitpid
  <2>7. CASE fork_fails
    BY <2>7, WordsStay DEF fork_fails
  <2>8. CASE invoke_output
    BY <2>8, WordsStay DEF invoke_output
  <2> QED
    BY <1>2, <2>1, <2>2, <2>3, <2>4, <2>5, <2>6, <2>7, <2>8 DEF Sh
<1>3. CASE UNCHANGED <<line, shell>>
  BY <1>3, WordsStay
<1> QED
  BY <1>2, <1>3 DEF Next, Blocked, Finished, vars

(* For every line, of any length: the command that runs has the words of    *)
(* the line in their order, cut in the buffer where they were typed, and    *)
(* parse_cmd of sh1.c writes beyond its memory exactly for a line that      *)
(* begins with a pipe character or has INIT_CAPA words.                     *)
THEOREM WordsSafe == Spec => []WordsRight
<1>1. IInv /\ WordInv => WordsRight
  <2> SUFFICES ASSUME IInv, WordInv PROVE WordsRight
    OBVIOUS
  <2>1. ASSUME shell \in {"invoke", "wait"}
        PROVE  Len(cmds) = 1 /\ concat_command = Split(typed) /\ ~TooMuch(typed)
    <3>1. LineInv /\ CutOff /\ Complete
      BY <2>1 DEF IInv, WordInv
    <3>2. concat_command = Split(typed) /\ Cardinality(Starts(typed)) = Len(cmds[1].argv)
      BY <3>1, CommandRight
    <3>3. Len(cmds[1].argv) \in Nat /\ Len(cmds[1].argv) < INIT_CAPA /\ INIT_CAPA \in Nat
      BY <3>1, ShellAssumption DEF Complete
    <3>4. Len(Split(typed)) = Len(cmds[1].argv)
      BY <3>2, <3>3, SplitLength
    <3>5. typed[1] # Pipe
      BY <3>1, CutLine DEF CutOff, Complete
    <3> QED
      BY <3>1, <3>2, <3>3, <3>4, <3>5 DEF Complete, TooMuch
  <2>2. shell = "overrun" => TooMuch(typed)
    BY DEF WordInv
  <2> QED
    BY <2>1, <2>2 DEF WordsRight
<1> QED
  BY <1>1, InitHolds, StepHolds, WordInvInit, WordInvStep, PTL DEF Spec

-----------------------------------------------------------------------------
(***************************************************************************)
(* The walk counts what is there all the time once: of that, what has been  *)
(* counted and what is to come are apart, and together they are all of it.  *)
(***************************************************************************)

Depth == Len(stack)

(* The first j names of r are those in the buffer; what readdir has yet to  *)
(* return in the directory of j names.                                     *)
Agrees(r, j) == \A k \in 1 .. j : r[k] = fullpath[2 * k - 1]
Left(j)      == stack[Depth + 1 - j].left

(* Paths that an open directory will lead to, and those at and below the    *)
(* one being looked at.                                                    *)
ToComeIn(r, j) == j < Len(r) /\ Agrees(r, j) /\ r[j + 1] \in Left(j)
ToComeHere(r) ==
  \/ walk = "lstat" /\ Depth + 1 <= Len(r) /\ Agrees(r, Depth + 1)
  \/ walk = "opendir" /\ Depth + 1 < Len(r) /\ Agrees(r, Depth + 1)
ToCome(r) == ToComeHere(r) \/ \E j \in 1 .. Depth : ToComeIn(r, j)

(* What is at or below the entry a directory is at will not come again.     *)
Taken ==
  \A r \in steady : \A j \in 1 .. Depth :
    (j < Depth \/ walk \in {"lstat", "opendir"}) /\ Agrees(r, j + 1) => ~ToComeIn(r, j)

Once ==
  /\ visited \in Seq(Seq(Symbol)) /\ CountedOnce
  /\ \A r \in ToSet(visited) \cap steady : ~ToCome(r)

Begun ==
  /\ walk \in {"opendir", "readdir", "ended"} => visited # <<>>
  /\ walk = "lstat" /\ stack # <<>> => visited # <<>>
  /\ walk = "ended" => stack = <<>>

(* What was there all the time has been counted or is to come.              *)
Kept ==
  /\ Tree(disk) /\ steady \subseteq DOMAIN disk
  /\ \A r \in steady : r[1] = Root /\ \A j \in 1 .. Len(r) : SubSeq(r, 1, j) \in steady
  /\ walk \notin {"failed", "killed"} => \A r \in steady : r \in ToSet(visited) \/ ToCome(r)

Openable(q) == disk[q] = "dir" /\ Len(q) <= MaxOpen

(* As long as nothing changed: what was counted was there all the time, all *)
(* that is to come exists, and every directory counted was opened, is about *)
(* to be, or ended the walk.                                               *)
Seen ==
  /\ walk # "none" => steady = Below(<<Root>>)
  /\ ToSet(visited) \subseteq steady
  /\ \A i \in 1 .. Depth : \A e \in stack[i].left \ Dots : Exists(Append(stack[i].dir, e))
  /\ walk = "lstat" /\ stack # <<>> => Exists(Here)
  /\ walk = "opendir" => Exists(Here) /\ disk[Here] \in Dirs /\ Here \in steady
  /\ \A r \in ToSet(visited) :
       disk[r] \in Dirs => Openable(r) \/ walk \in {"failed", "killed"} \/ (walk = "opendir" /\ r = Here)
  /\ walk = "failed" => steady = {} \/ \E r \in steady : disk[r] \in Dirs /\ ~Openable(r)

Counted ==
  /\ IsFiniteSet(ToSet(visited)) /\ count \in [Kinds \cup {"dir"} -> Nat]
  /\ changes = 0 => \A k \in Kinds : count[k] = Cardinality({q \in ToSet(visited) : disk[q] = k})

Whole == Taken /\ Once /\ Begun /\ Kept /\ Counted /\ changes \in Nat /\ (changes = 0 => Seen)
WInv  == WalkInv /\ Whole

-----------------------------------------------------------------------------
(* Paths and their beginnings                                              *)
LEMMA PathTypes ==
  ASSUME WalkInv
  PROVE  /\ Depth \in Nat
         /\ \A r \in DOMAIN disk : r \in Seq(Symbol)
BY StackFacts DEF WalkInv, WalkTyped, Symbol, Depth

LEMMA PrefixIs ==
  ASSUME NEW q \in Seq(Symbol), NEW r \in Seq(Symbol)
  PROVE  IsPrefix(q, r) <=> Len(q) <= Len(r) /\ \A k \in 1 .. Len(q) : r[k] = q[k]
<1> DEFINE n == Len(q)
<1>1. n \in Nat /\ Len(r) \in Nat
  BY LenProperties
<1>2. SubSeq(q, 1, n) = q
  <2>1. /\ SubSeq(q, 1, n) \in Seq(Symbol) /\ Len(SubSeq(q, 1, n)) = n
        /\ \A k \in 1 .. n : SubSeq(q, 1, n)[k] = q[k]
    BY <1>1
  <2> QED
    BY <2>1, SeqEqual
<1>3. CASE n <= Len(r)
  <2>1. /\ SubSeq(r, 1, n) \in Seq(Symbol) /\ Len(SubSeq(r, 1, n)) = n
        /\ \A k \in 1 .. n : SubSeq(r, 1, n)[k] = r[k]
    BY <1>1, <1>3
  <2>2. SubSeq(r, 1, n) = q <=> \A k \in 1 .. n : r[k] = q[k]
    BY <2>1, SeqEqual
  <2> QED
    BY <1>2, <1>3, <2>2 DEF IsPrefix
<1>4. CASE ~(n <= Len(r))
  BY <1>4 DEF IsPrefix
<1> QED
  BY <1>3, <1>4

LEMMA BeginningIs ==
  ASSUME NEW r \in Seq(Symbol), NEW j \in Nat, j <= Len(r)
  PROVE  /\ SubSeq(r, 1, j) \in Seq(Symbol) /\ Len(SubSeq(r, 1, j)) = j
         /\ \A k \in 1 .. j : SubSeq(r, 1, j)[k] = r[k]
<1>1. Len(r) \in Nat
  BY LenProperties
<1> QED
  BY <1>1

LEMMA HereIs ==
  ASSUME WalkInv, walk \in {"lstat", "opendir"}
  PROVE  /\ Here \in Seq(Symbol) /\ Len(Here) = Depth + 1 /\ Agrees(Here, Depth + 1)
         /\ 2 * Depth + 1 <= Len(fullpath) /\ Depth \in Nat
         /\ Here[1] = Root
<1>1. Here \in Seq(Symbol) /\ Depth \in Nat
  BY StackFacts DEF Depth
<1>2. Len(Here) = Depth + 1
  BY DEF WalkInv, Looking, Placed, Depth
<1>3. \A k \in 1 .. Len(Here) : fullpath[2 * k - 1] = Here[k]
  BY DEF WalkInv, Looking, Spells, Begins
<1>4. 2 * Depth + 1 <= Len(fullpath)
  BY <1>1, <1>2 DEF WalkInv, Looking, Spells, Begins
<1>5. Here[1] = fullpath[1]
  <2>1. 1 \in 1 .. Len(Here) /\ 2 * 1 - 1 = 1
    BY <1>1, <1>2
  <2> QED
    BY <1>3, <2>1
<1> QED
  BY <1>1, <1>2, <1>3, <1>4, <1>5 DEF Agrees, Root

LEMMA IsHere ==
  ASSUME WalkInv, walk \in {"lstat", "opendir"}, NEW q \in Seq(Symbol),
         Len(q) = Depth + 1, Agrees(q, Depth + 1)
  PROVE  q = Here
<1>1. \A k \in 1 .. Depth + 1 : q[k] = Here[k]
  BY HereIs DEF Agrees
<1> QED
  BY <1>1, HereIs, SeqEqual

LEMMA DirIs ==
  ASSUME WalkInv, NEW i \in 1 .. Depth
  PROVE  /\ stack[i].dir \in Seq(Symbol) /\ Len(stack[i].dir) = Depth + 1 - i
         /\ Agrees(stack[i].dir, Depth + 1 - i)
         /\ stack[i].left \in SUBSET Symbol
         /\ stack[i].ptr = 2 * (Depth + 1 - i) + 1
         /\ 2 * (Depth + 1 - i) <= Len(fullpath)
<1>1. /\ stack[i].dir \in Seq(Symbol) /\ stack[i].left \in SUBSET Symbol
  BY StackFacts DEF Depth
<1>2. /\ Len(stack[i].dir) = Depth + 1 - i /\ stack[i].ptr = 2 * Len(stack[i].dir) + 1
      /\ Begins(fullpath, stack[i].dir)
  BY DEF WalkInv, Nested, Depth
<1> QED
  BY <1>1, <1>2 DEF Begins, Agrees

OnceIn(v, S) == \A i, j \in DOMAIN v : v[i] = v[j] /\ v[i] \in S => i = j

LEMMA VisitOnce ==
  ASSUME NEW v \in Seq(Seq(Symbol)), NEW S, OnceIn(v, S), NEW q \in Seq(Symbol),
         q \in S => q \notin ToSet(v)
  PROVE  /\ Append(v, q) \in Seq(Seq(Symbol)) /\ OnceIn(Append(v, q), S)
         /\ ToSet(Append(v, q)) = ToSet(v) \cup {q} /\ Append(v, q) # <<>>
<1> DEFINE w == Append(v, q)
           n == Len(v)
<1>1. /\ n \in Nat /\ w \in Seq(Seq(Symbol)) /\ Len(w) = n + 1 /\ w[n + 1] = q
      /\ \A k \in 1 .. n : w[k] = v[k]
      /\ DOMAIN v = 1 .. n /\ DOMAIN w = 1 .. n + 1
  BY AppendProperties, LenProperties
<1> HIDE DEF w, n
<1>2. \A k \in 1 .. n + 1 : k \in 1 .. n \/ k = n + 1
  BY <1>1
<1>3. q \in S => \A k \in 1 .. n : v[k] # q
  BY <1>1 DEF ToSet
<1>4. OnceIn(w, S)
  <2> SUFFICES ASSUME NEW a \in DOMAIN w, NEW b \in DOMAIN w, w[a] = w[b], w[a] \in S PROVE a = b
    BY DEF OnceIn
  <2>1. CASE a \in 1 .. n /\ b \in 1 .. n
    BY <1>1, <2>1 DEF OnceIn
  <2> QED
    BY <1>1, <1>2, <1>3, <2>1
<1>5. ToSet(w) = ToSet(v) \cup {q}
  <2>1. ASSUME NEW x \in ToSet(w) PROVE x \in ToSet(v) \cup {q}
    BY <1>1, <1>2, <2>1 DEF ToSet
  <2>2. ASSUME NEW x \in ToSet(v) PROVE x \in ToSet(w)
    <3>1. PICK k \in 1 .. n : x = v[k]
      BY <1>1, <2>2 DEF ToSet
    <3>2. k \in 1 .. n + 1
      BY <1>1
    <3> QED
      BY <1>1, <3>1, <3>2 DEF ToSet
  <2>3. q \in ToSet(w)
    <3>1. n + 1 \in 1 .. n + 1
      BY <1>1
    <3> QED
      BY <1>1, <3>1 DEF ToSet
  <2> QED
    BY <2>1, <2>2, <2>3
<1>6. w # <<>>
  BY <1>1, EmptySeq
<1> QED
  BY <1>1, <1>4, <1>5, <1>6 DEF w
-----------------------------------------------------------------------------
(* A path is counted                                                       *)
LEMMA HereSteady ==
  ASSUME WInv, changes = 0, walk = "lstat", Exists(Here)
  PROVE  Here \in steady
<1>1. Here \in Seq(Symbol) /\ Len(Here) = Depth + 1 /\ Here[1] = Root /\ Depth \in Nat
  BY HereIs DEF WInv
<1> DEFINE root == <<Root>>
<1>2. root \in Seq(Symbol) /\ Len(root) = 1 /\ root[1] = Root
  <2>1. Root \in Symbol
    <3>1. 1 \in 1 .. Len(Here)
      BY <1>1
    <3> QED
      BY <1>1, <3>1, ElementOfSeq
  <2> QED
    BY <2>1
<1>3. steady = Below(root)
  BY DEF WInv, Whole, Seen
<1> HIDE DEF root
<1>4. IsPrefix(root, Here)
  <2>1. Len(root) <= Len(Here) /\ \A k \in 1 .. Len(root) : Here[k] = root[k]
    BY <1>1, <1>2
  <2> QED
    BY <1>1, <1>2, <2>1, PrefixIs
<1> QED
  BY <1>3, <1>4 DEF Below, Exists

LEMMA HereFree ==
  ASSUME WInv, walk = "lstat", Here \in steady
  PROVE  Here \notin ToSet(visited) /\ \A j \in 1 .. Depth : ~ToComeIn(Here, j)
<1>1. /\ Here \in Seq(Symbol) /\ Len(Here) = Depth + 1 /\ Agrees(Here, Depth + 1) /\ Depth \in Nat
  BY HereIs DEF WInv
<1>2. ToCome(Here)
  BY <1>1 DEF ToCome, ToComeHere
<1>3. ASSUME NEW j \in 1 .. Depth PROVE ~ToComeIn(Here, j)
  <2>1. \A k \in 1 .. j + 1 : k \in 1 .. Depth + 1
    BY <1>1
  <2>2. Agrees(Here, j + 1)
    BY <1>1, <2>1 DEF Agrees
  <2> QED
    BY <2>2 DEF WInv, Whole, Taken
<1> QED
  BY <1>2, <1>3 DEF WInv, Whole, Once

LEMMA VisitCounts ==
  ASSUME WInv, walk = "lstat", Exists(Here), myfunc(disk[Here]), steady' = steady, UNCHANGED files
  PROVE  /\ visited' \in Seq(Seq(Symbol)) /\ CountedOnce'
         /\ ToSet(visited') = ToSet(visited) \cup {Here} /\ visited' # <<>>
         /\ Counted'
<1> DEFINE q == Here
           V == ToSet(visited)
           kind == disk[q]
           Of(S, k) == {r \in S : disk[r] = k}
<1>1. q \in Seq(Symbol) /\ visited' = Append(visited, q)
      /\ (q \in steady => q \notin V) /\ (changes = 0 => q \notin V)
  BY HereIs, HereFree, HereSteady DEF WInv, myfunc
<1>2. /\ visited' \in Seq(Seq(Symbol)) /\ CountedOnce'
      /\ ToSet(visited') = V \cup {q} /\ visited' # <<>>
  <2>1. OnceIn(visited, steady) /\ visited \in Seq(Seq(Symbol))
    BY DEF WInv, Whole, Once, CountedOnce, OnceIn
  <2>2. /\ visited' \in Seq(Seq(Symbol)) /\ OnceIn(visited', steady)
        /\ ToSet(visited') = V \cup {q} /\ visited' # <<>>
    BY <1>1, <2>1, VisitOnce
  <2> QED
    BY <2>2 DEF CountedOnce, OnceIn
<1>3. /\ IsFiniteSet(V) /\ count \in [Kinds \cup {"dir"} -> Nat]
      /\ changes = 0 => \A k \in Kinds : count[k] = Cardinality(Of(V, k))
      /\ changes' = changes /\ disk' = disk
  BY DEF WInv, Whole, Counted, files
<1>4. /\ count' = IF kind \in Kinds THEN [count EXCEPT ![kind] = @ + 1, !["dir"] = @ + 1]
                                    ELSE [count EXCEPT !["dir"] = @ + 1]
  BY DEF myfunc
<1>5. "dir" \notin Kinds
  BY DEF Kinds
<1> HIDE DEF q, V, kind
<1>6. IsFiniteSet(V \cup {q})
  BY <1>3, FS_AddElement
<1>7. /\ count' \in [Kinds \cup {"dir"} -> Nat]
      /\ \A k \in Kinds : count'[k] = IF k = kind THEN count[k] + 1 ELSE count[k]
  BY <1>3, <1>4, <1>5
<1>8. ASSUME changes' = 0, NEW k \in Kinds PROVE count'[k] = Cardinality(Of(V \cup {q}, k))
  <2>1. count[k] = Cardinality(Of(V, k)) /\ IsFiniteSet(Of(V, k))
    BY <1>3, <1>8, FS_Subset
  <2>2. CASE k = kind
    <3>1. Of(V \cup {q}, k) = Of(V, k) \cup {q} /\ q \notin Of(V, k)
      BY <1>1, <1>3, <1>8, <2>2 DEF kind
    <3>2. Cardinality(Of(V, k) \cup {q}) = Cardinality(Of(V, k)) + 1
      BY <2>1, <3>1, FS_AddElement
    <3> QED
      BY <1>7, <2>1, <2>2, <3>1, <3>2
  <2>3. CASE k # kind
    <3>1. Of(V \cup {q}, k) = Of(V, k)
      BY <2>3 DEF kind
    <3> QED
      BY <1>7, <2>1, <2>3, <3>1
  <2> QED
    BY <2>2, <2>3
<1>9. Counted'
  <2>1. ToSet(visited)' = V \cup {q}
    BY <1>2
  <2>2. \A k \in Kinds : changes' = 0 => count'[k] = Cardinality({r \in V \cup {q} : disk'[r] = k})
    BY <1>3, <1>8
  <2> QED
    BY <1>3, <1>6, <1>7, <2>1, <2>2 DEF Counted
<1> QED
  BY <1>2, <1>9 DEF q, V

(* Something steady at or below a path that is looked at: it is there.      *)
LEMMA SteadyHere ==
  ASSUME WInv, walk \in {"lstat", "opendir"}, NEW r \in steady, Depth + 1 <= Len(r), Agrees(r, Depth + 1)
  PROVE  /\ Exists(Here) /\ Here \in steady /\ r \in Seq(Symbol)
         /\ r # Here => Len(r) > Depth + 1 /\ disk[Here] \in Dirs
<1> DEFINE q == SubSeq(r, 1, Depth + 1)
<1>1. r \in DOMAIN disk /\ r \in Seq(Symbol) /\ Depth \in Nat /\ Len(r) \in Nat
  BY PathTypes, LenProperties DEF WInv, Whole, Kept
<1>2. /\ q \in Seq(Symbol) /\ Len(q) = Depth + 1 /\ \A k \in 1 .. Depth + 1 : q[k] = r[k]
  BY <1>1, BeginningIs
<1>3. q = Here
  <2>1. Agrees(q, Depth + 1)
    BY <1>2 DEF Agrees
  <2> QED
    BY <1>2, <2>1, IsHere DEF WInv
<1>4. q \in steady
  <2>1. Depth + 1 \in 1 .. Len(r)
    BY <1>1
  <2> QED
    BY <2>1 DEF WInv, Whole, Kept
<1>5. CASE Len(r) = Depth + 1
  <2>1. r = Here
    BY <1>1, <1>5, IsHere DEF WInv
  <2> QED
    BY <1>1, <1>3, <1>4, <2>1 DEF WInv, Whole, Kept, Exists
<1>6. CASE Len(r) > Depth + 1
  <2>1. Depth + 1 \in 1 .. Len(r) - 1
    BY <1>1, <1>6
  <2>2. disk[q] \in Dirs
    BY <1>1, <2>1 DEF WInv, Whole, Kept, Tree
  <2> QED
    BY <1>1, <1>3, <1>4, <1>6, <2>2 DEF WInv, Whole, Kept, Exists
<1> QED
  BY <1>1, <1>5, <1>6

-----------------------------------------------------------------------------
(* The actions                                                             *)

(* What is to come below an open directory depends on the buffer and the    *)
(* calls only.                                                             *)
LEMMA ComingIn ==
  ASSUME UNCHANGED <<fullpath, stack>>
  PROVE  /\ Depth' = Depth
         /\ \A r, j : ToComeIn(r, j)' = ToComeIn(r, j)
         /\ \A r, j : Agrees(r, j)' = Agrees(r, j)
         /\ \A j : Left(j)' = Left(j)
BY DEF ToComeIn, Agrees, Left, Depth

LEMMA FileWhole == ASSUME WInv, file, UNCHANGED files PROVE Whole'
<1>1. /\ walk = "lstat" /\ Exists(Here) /\ disk[Here] \in Kinds /\ myfunc(disk[Here])
      /\ walk' \in {"ended", "readdir"} /\ (walk' = "ended" => stack = <<>>)
      /\ fullpath' = fullpath /\ stack' = stack /\ steady' = steady
      /\ disk' = disk /\ changes' = changes
  BY DEF file, Back, files
<1>2. /\ visited' \in Seq(Seq(Symbol)) /\ CountedOnce'
      /\ ToSet(visited') = ToSet(visited) \cup {Here} /\ visited' # <<>>
      /\ Counted'
  BY <1>1, VisitCounts
<1>3. Here \in steady => \A j \in 1 .. Depth : ~ToComeIn(Here, j)
  BY <1>1, HereFree
<1>4. /\ Depth' = Depth
      /\ \A r, j : ToComeIn(r, j)' = ToComeIn(r, j)
      /\ \A r, j : Agrees(r, j)' = Agrees(r, j)
      /\ \A j : Left(j)' = Left(j)
  BY <1>1, ComingIn
<1>5. \A r : ToCome(r)' <=> \E j \in 1 .. Depth : ToComeIn(r, j)
  BY <1>1, <1>4 DEF ToCome, ToComeHere
<1>6. Taken'
  BY <1>1, <1>4 DEF WInv, Whole, Taken
<1>7. Once'
  <2>1. ASSUME NEW r \in ToSet(visited)', r \in steady PROVE ~ToCome(r)'
    <3>1. CASE r = Here
      BY <1>3, <1>5, <2>1, <3>1
    <3>2. CASE r \in ToSet(visited)
      BY <1>5, <2>1, <3>2 DEF WInv, Whole, Once, ToCome
    <3> QED
      BY <1>2, <2>1, <3>1, <3>2
  <2> QED
    BY <1>1, <1>2, <2>1 DEF Once
<1>8. Begun'
  BY <1>1, <1>2 DEF Begun
<1>9. Kept'
  <2>1. ASSUME NEW r \in steady PROVE r \in ToSet(visited)' \/ ToCome(r)'
    <3>1. r \in ToSet(visited) \/ ToCome(r)
      BY <1>1 DEF WInv, Whole, Kept
    <3>2. CASE r \in ToSet(visited)
      BY <1>2, <3>2
    <3>3. CASE \E j \in 1 .. Depth : ToComeIn(r, j)
      BY <1>5, <3>3
    <3>4. CASE Depth + 1 <= Len(r) /\ Agrees(r, Depth + 1)
      <4>1. r # Here => disk[Here] \in Dirs
        BY <1>1, <3>4, SteadyHere
      <4>2. r = Here
        BY <1>1, <4>1 DEF Kinds, Dirs
      <4> QED
        BY <1>2, <4>2
    <3> QED
      BY <1>1, <3>1, <3>2, <3>3, <3>4 DEF ToCome, ToComeHere
  <2> QED
    BY <1>1, <2>1 DEF WInv, Whole, Kept, Root
<1>10. ASSUME changes' = 0 PROVE Seen'
  <2>1. changes = 0 /\ Seen /\ Here \in steady
    BY <1>1, <1>10, HereSteady DEF WInv, Whole
  <2>2. Below(<<Root>>)' = Below(<<Root>>) /\ \A q : Exists(q)' = Exists(q)
    BY <1>1 DEF Below, Root, Exists
  <2>3. ASSUME NEW r \in ToSet(visited)', disk[r] \in Dirs PROVE Openable(r)'
    <3>1. r # Here
      BY <1>1, <2>3 DEF Kinds, Dirs
    <3> QED
      BY <1>1, <1>2, <2>1, <2>3, <3>1 DEF Seen, Openable
  <2> QED
    BY <1>1, <1>2, <1>4, <2>1, <2>2, <2>3 DEF Seen
<1> QED
  BY <1>1, <1>2, <1>6, <1>7, <1>8, <1>9, <1>10 DEF WInv, Whole

LEMMA DirectoryWhole == ASSUME WInv, directory, UNCHANGED files PROVE Whole'
<1>1. /\ walk = "lstat" /\ Exists(Here) /\ disk[Here] \in Dirs /\ myfunc(disk[Here])
      /\ walk' = "opendir" /\ fullpath' = Append(fullpath, "/")
      /\ stack' = stack /\ steady' = steady /\ disk' = disk /\ changes' = changes
  BY DEF directory, files
<1>2. /\ visited' \in Seq(Seq(Symbol)) /\ CountedOnce'
      /\ ToSet(visited') = ToSet(visited) \cup {Here} /\ visited' # <<>>
      /\ Counted'
  BY <1>1, VisitCounts
<1>3. Here \in steady => \A j \in 1 .. Depth : ~ToComeIn(Here, j)
  BY <1>1, HereFree
<1>4. /\ Here \in Seq(Symbol) /\ Len(Here) = Depth + 1 /\ Agrees(Here, Depth + 1)
      /\ 2 * Depth + 1 <= Len(fullpath) /\ Depth \in Nat
  BY <1>1, HereIs DEF WInv
<1>5. \A k \in 1 .. 2 * Depth + 1 : fullpath'[k] = fullpath[k]
  <2>1. fullpath \in Seq(Symbol) /\ "/" \in Symbol /\ Len(fullpath) \in Nat
    BY StackFacts DEF WInv, Symbol
  <2> QED
    BY <1>1, <1>4, <2>1
<1>6. /\ Depth' = Depth /\ \A j : Left(j)' = Left(j)
      /\ \A r : \A j \in 0 .. Depth + 1 : Agrees(r, j)' = Agrees(r, j)
      /\ \A r : \A j \in 1 .. Depth : ToComeIn(r, j)' = ToComeIn(r, j)
  <2>1. Depth' = Depth /\ \A j : Left(j)' = Left(j)
    BY <1>1 DEF Depth, Left
  <2>2. ASSUME NEW r, NEW j \in 0 .. Depth + 1 PROVE Agrees(r, j)' = Agrees(r, j)
    <3>1. \A k \in 1 .. j : fullpath'[2 * k - 1] = fullpath[2 * k - 1]
      <4>1. \A k \in 1 .. j : 2 * k - 1 \in 1 .. 2 * Depth + 1
        BY <1>4
      <4> QED
        BY <1>5, <4>1
    <3> QED
      BY <3>1 DEF Agrees
  <2> QED
    BY <1>4, <2>1, <2>2 DEF ToComeIn
<1>7. \A r : ToCome(r)' <=> \/ Depth + 1 < Len(r) /\ Agrees(r, Depth + 1)
                            \/ \E j \in 1 .. Depth : ToComeIn(r, j)
  <2>1. Depth + 1 \in 0 .. Depth + 1
    BY <1>4
  <2> QED
    BY <1>1, <1>6, <2>1 DEF ToCome, ToComeHere
<1>8. Taken'
  <2>1. ASSUME NEW r \in steady, NEW j \in 1 .. Depth, Agrees(r, j + 1)' PROVE ~ToComeIn(r, j)'
    <3>1. j + 1 \in 0 .. Depth + 1
      BY <1>4
    <3>2. Agrees(r, j + 1)
      BY <1>6, <2>1, <3>1
    <3> QED
      BY <1>1, <1>6, <3>2 DEF WInv, Whole, Taken
  <2> QED
    BY <1>1, <1>6, <2>1 DEF Taken
<1>9. Once'
  <2>1. ASSUME NEW r \in ToSet(visited)', r \in steady PROVE ~ToCome(r)'
    <3>1. CASE r = Here
      BY <1>3, <1>4, <1>7, <2>1, <3>1
    <3>2. CASE r \in ToSet(visited)
      <4>1. ~ToCome(r)
        BY <2>1, <3>2 DEF WInv, Whole, Once
      <4>2. Depth + 1 < Len(r) => Depth + 1 <= Len(r)
        <5>1. Len(r) \in Nat
          BY <3>2, LenProperties DEF WInv, Whole, Once, ToSet
        <5> QED
          BY <1>4, <5>1
      <4> QED
        BY <1>1, <1>7, <4>1, <4>2 DEF ToCome, ToComeHere
    <3> QED
      BY <1>2, <2>1, <3>1, <3>2
  <2> QED
    BY <1>1, <1>2, <2>1 DEF Once
<1>10. Begun'
  BY <1>1, <1>2 DEF Begun
<1>11. Kept'
  <2>1. ASSUME NEW r \in steady PROVE r \in ToSet(visited)' \/ ToCome(r)'
    <3>1. r \in ToSet(visited) \/ ToCome(r)
      BY <1>1 DEF WInv, Whole, Kept
    <3>2. CASE r \in ToSet(visited)
      BY <1>2, <3>2
    <3>3. CASE \E j \in 1 .. Depth : ToComeIn(r, j)
      BY <1>7, <3>3
    <3>4. CASE Depth + 1 <= Len(r) /\ Agrees(r, Depth + 1)
      <4>1. r # Here => Len(r) > Depth + 1
        BY <1>1, <3>4, SteadyHere
      <4> QED
        BY <1>2, <1>7, <3>4, <4>1
    <3> QED
      BY <1>1, <3>1, <3>2, <3>3, <3>4 DEF ToCome, ToComeHere
  <2>2. Root' = Root
    BY <1>4, <1>5 DEF Root
  <2> QED
    BY <1>1, <2>1, <2>2 DEF WInv, Whole, Kept
<1>12. ASSUME changes' = 0 PROVE Seen'
  <2>1. changes = 0 /\ Seen /\ Here \in steady
    BY <1>1, <1>12, HereSteady DEF WInv, Whole
  <2>2. Below(<<Root>>)' = Below(<<Root>>) /\ \A q : Exists(q)' = Exists(q)
    BY <1>1, <1>4, <1>5 DEF Below, Root, Exists
  <2>3. Here' = Here
    <3>1. WalkInv' /\ walk' \in {"lstat", "opendir"}
      BY <1>1, DirectoryKeeps DEF WInv
    <3>2. Here' \in Seq(Symbol) /\ Len(Here') = Depth + 1 /\ \A k \in 1 .. Depth + 1 : Here'[k] = fullpath'[2 * k - 1]
      <4>1. /\ Here \in Seq(Symbol) /\ Len(Here) = Depth + 1 /\ Agrees(Here, Depth + 1)
            /\ walk \in {"lstat", "opendir"}
        BY <1>1, <1>4
      <4>2. (WalkInv /\ walk \in {"lstat", "opendir"})' => (Here \in Seq(Symbol) /\ Len(Here) = Depth + 1 /\ Agrees(Here, Depth + 1))'
        BY HereIs, PTL
      <4> QED
        BY <1>6, <3>1, <4>2 DEF Agrees
    <3>3. ASSUME NEW k \in 1 .. Depth + 1 PROVE Here'[k] = Here[k]
      <4>1. 2 * k - 1 \in 1 .. 2 * Depth + 1
        BY <1>4
      <4> QED
        BY <1>4, <1>5, <3>2, <4>1 DEF Agrees
    <3> QED
      BY <1>4, <3>2, <3>3, SeqEqual
  <2>4. ASSUME NEW r \in ToSet(visited)', disk[r] \in Dirs PROVE Openable(r)' \/ r = Here'
    BY <1>1, <1>2, <2>1, <2>3, <2>4 DEF Seen, Openable
  <2> QED
    BY <1>1, <1>2, <1>6, <2>1, <2>2, <2>3, <2>4 DEF Seen
<1> QED
  BY <1>1, <1>2, <1>8, <1>9, <1>10, <1>11, <1>12 DEF WInv, Whole

LEMMA EntryIs ==
  ASSUME WInv, NEW d \in Seq(Symbol), NEW q \in DOMAIN disk, Len(q) = Len(d) + 1, IsPrefix(d, q)
  PROVE  q = Append(d, q[Len(q)]) /\ q[Len(q)] \in Symbol
<1> DEFINE n == Len(d)
           e == q[n + 1]
<1>1. n \in Nat /\ q \in Seq(Symbol) /\ Len(q) = n + 1
  BY PathTypes, LenProperties DEF WInv
<1>2. \A k \in 1 .. n : q[k] = d[k]
  BY <1>1, PrefixIs
<1>3. e \in Symbol
  BY <1>1, ElementOfSeq
<1> HIDE DEF n, e
<1>4. /\ Append(d, e) \in Seq(Symbol) /\ Len(Append(d, e)) = n + 1 /\ Append(d, e)[n + 1] = e
      /\ \A k \in 1 .. n : Append(d, e)[k] = d[k]
  BY <1>3, AppendProperties DEF n
<1>5. \A k \in 1 .. n + 1 : q[k] = Append(d, e)[k]
  <2>1. \A k \in 1 .. n + 1 : k \in 1 .. n \/ k = n + 1
    BY <1>1
  <2> QED
    BY <1>2, <1>4, <2>1 DEF e, n
<1>6. q = Append(d, e)
  BY <1>1, <1>4, <1>5, SeqEqual
<1> QED
  BY <1>1, <1>3, <1>6 DEF e

LEMMA OpendirWhole == ASSUME WInv, opendir, UNCHANGED files PROVE Whole'
<1> DEFINE call == [dir |-> Here, ptr |-> Len(fullpath) + 1, left |-> Dots \cup Names(Here)]
           one  == <<call>>
<1>1. /\ walk = "opendir" /\ CanOpen /\ walk' = "readdir" /\ stack' = one \o stack
      /\ fullpath' = fullpath /\ steady' = steady /\ visited' = visited /\ count' = count
      /\ disk' = disk /\ changes' = changes
  BY DEF opendir, files
<1>2. call.dir = Here /\ call.left = Dots \cup Names(Here) /\ one[1] = call /\ Len(one) = 1
  OBVIOUS
<1>3. /\ Here \in Seq(Symbol) /\ Len(Here) = Depth + 1 /\ Agrees(Here, Depth + 1) /\ Depth \in Nat
  BY <1>1, HereIs DEF WInv
<1>4. /\ Depth' = Depth + 1 /\ stack'[1] = call
      /\ \A i \in 1 .. Depth : stack'[i + 1] = stack[i]
      /\ stack' # <<>>
  <2>1. WalkInv' /\ stack \in Seq(Call) /\ stack' \in Seq(Call)
    <3>1. WalkInv'
      BY <1>1, OpendirKeeps DEF WInv
    <3> QED
      BY <3>1 DEF WInv, WalkInv, WalkTyped
  <2>2. call \in Call
    <3>1. Len(fullpath) + 1 \in Nat
      BY StackFacts DEF WInv
    <3>2. Names(Here) \subseteq Symbol
      <4> SUFFICES ASSUME NEW q \in DOMAIN disk, Len(q) = Len(Here) + 1, IsPrefix(Here, q) PROVE q[Len(q)] \in Symbol
        BY DEF Names
      <4> QED
        BY <1>3, EntryIs
    <3> QED
      BY <1>3, <3>1, <3>2 DEF Call, Dots, Symbol
  <2> HIDE DEF call
  <2>3. one \in Seq(Call)
    BY <2>2
  <2> HIDE DEF one
  <2>4. /\ Len(stack') = 1 + Depth
        /\ \A i \in 1 .. 1 + Depth : stack'[i] = IF i <= 1 THEN one[i] ELSE stack[i - 1]
    <3>1. /\ Len(one \o stack) = Len(one) + Len(stack)
          /\ \A i \in 1 .. Len(one) + Len(stack) :
               (one \o stack)[i] = IF i <= Len(one) THEN one[i] ELSE stack[i - Len(one)]
      BY <2>1, <2>3, ConcatProperties, Zenon
    <3> QED
      BY <1>1, <1>2, <3>1, Zenon DEF Depth
  <2>5. \A i \in 1 .. Depth : i + 1 \in 1 .. 1 + Depth /\ ~(i + 1 <= 1) /\ (i + 1) - 1 = i
    BY <1>3
  <2>6. 1 \in 1 .. 1 + Depth /\ 1 <= 1
    BY <1>3
  <2>7. stack' # <<>>
    BY <1>3, <2>1, <2>4, EmptySeq
  <2> QED
    BY <1>2, <1>3, <2>4, <2>5, <2>6, <2>7 DEF Depth
<1> HIDE DEF call, one
<1> PICK m \in Nat : m = Depth + 1
  BY <1>3
<1>5. /\ \A j \in 1 .. Depth : Left(j)' = Left(j)
      /\ Left(m)' = Dots \cup Names(Here)
  <2>1. \A j \in 1 .. Depth : Depth + 1 - j \in 1 .. Depth /\ (Depth + 1) + 1 - j = (Depth + 1 - j) + 1
    BY <1>3
  <2>2. (Depth + 1) + 1 - m = 1
    BY <1>3
  <2>3. \A j : Left(j)' = stack'[(Depth + 1) + 1 - j].left
    BY <1>4 DEF Left
  <2>4. \A j \in 1 .. Depth : stack'[(Depth + 1) + 1 - j] = stack[Depth + 1 - j]
    BY <1>4, <2>1
  <2> QED
    BY <1>2, <1>4, <2>2, <2>3, <2>4 DEF Left
<1>6. \A r, j : Agrees(r, j)' = Agrees(r, j)
  BY <1>1 DEF Agrees
<1>7. \A j \in 1 .. Depth + 1 : j \in 1 .. Depth \/ j = Depth + 1
  BY <1>3
<1>8. \A r : ToCome(r)' <=> \/ \E j \in 1 .. Depth : ToComeIn(r, j)
                            \/ /\ Depth + 1 < Len(r) /\ Agrees(r, Depth + 1)
                               /\ r[Depth + 2] \in Dots \cup Names(Here)
  <2> SUFFICES ASSUME NEW r
               PROVE  ToCome(r)' <=> \/ \E j \in 1 .. Depth : ToComeIn(r, j)
                                     \/ /\ Depth + 1 < Len(r) /\ Agrees(r, Depth + 1)
                                        /\ r[Depth + 2] \in Dots \cup Names(Here)
    OBVIOUS
  <2>1. \A j \in 1 .. Depth : ToComeIn(r, j)' <=> ToComeIn(r, j)
    BY <1>5, <1>6 DEF ToComeIn
  <2>2. ToComeIn(r, m)' <=> /\ Depth + 1 < Len(r) /\ Agrees(r, Depth + 1)
                            /\ r[Depth + 2] \in Dots \cup Names(Here)
    <3>1. m + 1 = Depth + 2
      BY <1>3
    <3>2. ToComeIn(r, m)' <=> m < Len(r) /\ Agrees(r, m) /\ r[m + 1] \in Left(m)'
      BY <1>6 DEF ToComeIn
    <3> QED
      BY <1>5, <3>1, <3>2
  <2>3. ToCome(r)' <=> \E j \in 1 .. Depth + 1 : ToComeIn(r, j)'
    BY <1>1, <1>4 DEF ToCome, ToComeHere
  <2>4. ToCome(r)' <=> (\E j \in 1 .. Depth : ToComeIn(r, j)') \/ ToComeIn(r, m)'
    <3>1. m \in 1 .. Depth + 1 /\ \A j \in 1 .. Depth : j \in 1 .. Depth + 1
      BY <1>3
    <3> QED
      BY <1>7, <2>3, <3>1
  <2> QED
    BY <2>1, <2>2, <2>4
<1>9. Taken'
  <2>1. ASSUME NEW r \in steady, NEW j \in 1 .. Depth + 1, j < Depth + 1, Agrees(r, j + 1)
        PROVE  ~ToComeIn(r, j)'
    <3>1. j \in 1 .. Depth
      BY <1>3, <2>1
    <3>2. ToComeIn(r, j)' <=> ToComeIn(r, j)
      BY <1>5, <1>6, <3>1 DEF ToComeIn
    <3> QED
      BY <1>1, <2>1, <3>1, <3>2 DEF WInv, Whole, Taken
  <2> QED
    BY <1>1, <1>4, <1>6, <2>1 DEF Taken
<1>10. Once'
  <2>1. \A r \in ToSet(visited) \cap steady : ~ToCome(r)'
    BY <1>1, <1>8 DEF WInv, Whole, Once, ToCome, ToComeHere
  <2> QED
    BY <1>1, <2>1 DEF WInv, Whole, Once, CountedOnce
<1>11. Begun'
  BY <1>1 DEF WInv, Whole, Begun
<1>12. Kept'
  <2>1. ASSUME NEW r \in steady PROVE r \in ToSet(visited)' \/ ToCome(r)'
    <3>1. CASE Depth + 1 < Len(r) /\ Agrees(r, Depth + 1)
      <4> DEFINE q == SubSeq(r, 1, Depth + 2)
      <4>1. r \in DOMAIN disk /\ r \in Seq(Symbol) /\ Len(r) \in Nat
        BY PathTypes, LenProperties DEF WInv, Whole, Kept
      <4>2. Depth + 2 \in 1 .. Len(r) /\ Depth + 2 \in Nat
        BY <1>3, <3>1, <4>1
      <4>3. /\ q \in Seq(Symbol) /\ Len(q) = Depth + 2 /\ \A k \in 1 .. Depth + 2 : q[k] = r[k]
        BY <4>1, <4>2, BeginningIs
      <4>4. q \in DOMAIN disk
        BY <4>2 DEF WInv, Whole, Kept
      <4> HIDE DEF q
      <4>5. IsPrefix(Here, q)
        <5>1. \A k \in 1 .. Depth + 1 : q[k] = Here[k]
          BY <1>3, <3>1, <4>3 DEF Agrees
        <5>2. Len(Here) <= Len(q)
          BY <1>3, <4>3
        <5> QED
          BY <1>3, <4>3, <5>1, <5>2, PrefixIs
      <4>6. q[Len(q)] \in Names(Here) /\ q[Len(q)] = r[Depth + 2]
        <5>1. Len(q) = Len(Here) + 1
          BY <1>3, <4>3
        <5>2. Depth + 2 \in 1 .. Depth + 2
          BY <1>3
        <5> QED
          BY <4>3, <4>4, <4>5, <5>1, <5>2 DEF Names
      <4> QED
        BY <1>8, <3>1, <4>6
    <3> QED
      BY <1>1, <1>8, <3>1 DEF WInv, Whole, Kept, ToCome, ToComeHere
  <2> QED
    BY <1>1, <2>1 DEF WInv, Whole, Kept, Root
<1>13. ASSUME changes' = 0 PROVE Seen'
  <2>1. changes = 0 /\ Seen
    BY <1>1, <1>13 DEF WInv, Whole
  <2>2. Below(<<Root>>)' = Below(<<Root>>) /\ \A q : Exists(q)' = Exists(q)
    BY <1>1 DEF Below, Root, Exists
  <2>3. ASSUME NEW i \in 1 .. Depth + 1, NEW e \in stack'[i].left \ Dots PROVE Exists(Append(stack'[i].dir, e))
    <3>1. CASE i = 1
      <4>1. e \in Names(Here)
        BY <1>2, <1>4, <2>3, <3>1
      <4>2. PICK q \in DOMAIN disk : Len(q) = Len(Here) + 1 /\ IsPrefix(Here, q) /\ e = q[Len(q)]
        BY <4>1 DEF Names
      <4>3. q = Append(Here, e)
        BY <1>3, <4>2, EntryIs
      <4> QED
        BY <1>2, <1>4, <3>1, <4>2, <4>3 DEF Exists
    <3>2. CASE i # 1
      <4>1. i - 1 \in 1 .. Depth /\ (i - 1) + 1 = i
        BY <1>3, <3>2
      <4>2. stack'[i] = stack[i - 1]
        BY <1>4, <4>1
      <4> QED
        BY <2>1, <2>3, <4>1, <4>2 DEF Seen
    <3> QED
      BY <3>1, <3>2
  <2>4. ASSUME NEW r \in ToSet(visited), disk[r] \in Dirs PROVE Openable(r)
    <3>1. Openable(r) \/ r = Here
      BY <1>1, <2>1, <2>4 DEF Seen
    <3>2. Openable(Here)
      <4>1. Depth < MaxOpen /\ MaxOpen \in Nat /\ disk[Here] = "dir"
        BY <1>1, WalkAssumption DEF CanOpen, Depth
      <4> QED
        BY <1>3, <4>1 DEF Openable
    <3> QED
      BY <3>1, <3>2
  <2> QED
    BY <1>1, <1>4, <2>1, <2>2, <2>3, <2>4 DEF Seen, Openable
<1> QED
  BY <1>1, <1>9, <1>10, <1>11, <1>12, <1>13 DEF WInv, Whole, Counted

LEMMA HereNext ==
  ASSUME WalkInv', walk' \in {"lstat", "opendir"}
  PROVE  Here' \in Seq(Symbol) /\ Len(Here') = Depth' + 1 /\ Agrees(Here, Depth + 1)'
<1>1. (WalkInv /\ walk \in {"lstat", "opendir"})'
       => (Here \in Seq(Symbol) /\ Len(Here) = Depth + 1 /\ Agrees(Here, Depth + 1))'
  BY HereIs, PTL
<1> QED
  BY <1>1

(* A buffer that is rewritten from some place on.                           *)
LEMMA AgreesKept ==
  ASSUME NEW n \in Nat, \A k \in 1 .. n : fullpath'[k] = fullpath[k],
         NEW r, NEW j \in Nat, 2 * j - 1 <= n
  PROVE  Agrees(r, j)' <=> Agrees(r, j)
<1>1. \A k \in 1 .. j : 2 * k - 1 \in 1 .. n
  OBVIOUS
<1>2. \A k \in 1 .. j : fullpath'[2 * k - 1] = fullpath[2 * k - 1]
  BY <1>1
<1> QED
  BY <1>2 DEF Agrees

(* The innermost directory loses an entry.                                  *)
LEMMA ReaddirStack ==
  ASSUME WalkInv, stack # <<>>, NEW e \in stack[1].left, stack' = [stack EXCEPT ![1].left = Rest(@, e)]
  PROVE  /\ Depth \in Nat \ {0} /\ Depth' = Depth
         /\ Left(Depth) = stack[1].left /\ Left(Depth)' = Left(Depth) \ {e}
         /\ \A j \in 1 .. Depth : j # Depth => Left(j)' = Left(j)
         /\ \A i \in 1 .. Depth : stack'[i].dir = stack[i].dir /\ stack'[i].left \subseteq stack[i].left
<1> DEFINE c == stack[1]
           d == [c EXCEPT !.left = Rest(@, e)]
<1>1. Depth \in Nat \ {0} /\ 1 \in 1 .. Depth /\ c \in Call /\ stack \in Seq(Call)
  BY StackFacts DEF Depth, WalkInv, WalkTyped
<1>2. d \in Call /\ d.dir = c.dir /\ d.left = c.left \ {e}
  BY <1>1 DEF Call, Rest
<1>3. stack' = [stack EXCEPT ![1] = d]
  OBVIOUS
<1> HIDE DEF d
<1>4. /\ Depth' = Depth
      /\ \A i \in 1 .. Depth : stack'[i] = IF i = 1 THEN d ELSE stack[i]
  BY <1>1, <1>2, <1>3, ExceptSeq DEF Depth
<1>5. \A j \in 1 .. Depth : Depth + 1 - j \in 1 .. Depth /\ (j # Depth => Depth + 1 - j # 1)
  BY <1>1
<1>6. Depth + 1 - Depth = 1
  BY <1>1
<1>7. Left(Depth) = c.left /\ Left(Depth)' = c.left \ {e}
  <2>1. Left(Depth)' = stack'[Depth + 1 - Depth].left
    BY <1>4 DEF Left
  <2> QED
    BY <1>1, <1>2, <1>4, <1>6, <2>1 DEF Left
<1>8. \A j \in 1 .. Depth : j # Depth => Left(j)' = Left(j)
  <2>1. \A j : Left(j)' = stack'[Depth + 1 - j].left
    BY <1>4 DEF Left
  <2> QED
    BY <1>4, <1>5, <2>1 DEF Left
<1>9. \A i \in 1 .. Depth : stack'[i].dir = stack[i].dir /\ stack'[i].left \subseteq stack[i].left
  BY <1>2, <1>4
<1> QED
  BY <1>1, <1>4, <1>7, <1>8, <1>9

LEMMA ReaddirDots ==
  ASSUME WInv, walk = "readdir", stack # <<>>, NEW e \in stack[1].left, e \in Dots,
         stack' = [stack EXCEPT ![1].left = Rest(@, e)],
         UNCHANGED <<fullpath, walk, count, visited, steady, files>>
  PROVE  Whole'
<1> PICK m \in Nat : m = Depth
  BY ReaddirStack DEF WInv
<1>1. /\ m # 0 /\ Depth' = m /\ Left(m)' = Left(m) \ {e}
      /\ \A j \in 1 .. m : j # m => Left(j)' = Left(j)
      /\ \A i \in 1 .. m : stack'[i].dir = stack[i].dir /\ stack'[i].left \subseteq stack[i].left
  <2>1. \A j : j = Depth => Left(j)' = Left(j) \ {e}
    BY ReaddirStack DEF WInv, Left
  <2> QED
    BY <2>1, ReaddirStack DEF WInv
<1>2. \A r, j : Agrees(r, j)' = Agrees(r, j)
  BY DEF Agrees
<1>3. \A r : ToCome(r)' <=> \E j \in 1 .. m : ToComeIn(r, j)'
  BY <1>1 DEF ToCome, ToComeHere
<1>4. \A r : \A j \in 1 .. m : ToComeIn(r, j)' <=> ToComeIn(r, j) /\ (j = m => r[m + 1] # e)
  BY <1>1, <1>2 DEF ToComeIn
<1>5. \A r : ToCome(r)' => ToCome(r)
  BY <1>3, <1>4 DEF ToCome
<1>6. Taken'
  BY <1>1, <1>2, <1>4 DEF WInv, Whole, Taken
<1>7. Once'
  BY <1>5 DEF WInv, Whole, Once, CountedOnce
<1>8. Begun'
  BY DEF WInv, Whole, Begun
<1>9. Kept'
  <2>1. ASSUME NEW r \in steady PROVE r \in ToSet(visited)' \/ ToCome(r)'
    <3>1. r \in ToSet(visited) \/ \E j \in 1 .. m : ToComeIn(r, j)
      BY DEF WInv, Whole, Kept, ToCome, ToComeHere
    <3>2. m < Len(r) => r[m + 1] # e
      <4>1. r \in DOMAIN disk /\ Len(r) \in Nat
        BY PathTypes, LenProperties DEF WInv, Whole, Kept
      <4>2. \A i \in 2 .. Len(r) : r[i] \notin Dots
        BY <4>1 DEF WInv, Whole, Kept, Tree, Proper
      <4>3. m < Len(r) => m + 1 \in 2 .. Len(r)
        BY <1>1, <4>1
      <4> QED
        BY <4>2, <4>3
    <3>3. \A j \in 1 .. m : ToComeIn(r, j) => ToComeIn(r, j)'
      BY <1>4, <3>2 DEF ToComeIn
    <3> QED
      BY <1>3, <3>1, <3>3
  <2> QED
    BY <2>1 DEF WInv, Whole, Kept, Root, files
<1>10. ASSUME changes' = 0 PROVE Seen'
  <2>1. changes = 0 /\ Seen
    BY <1>10 DEF WInv, Whole, files
  <2>2. Below(<<Root>>)' = Below(<<Root>>) /\ \A q : Exists(q)' = Exists(q)
    BY DEF Below, Root, Exists, files
  <2>3. \A i \in 1 .. m : \A x \in stack'[i].left \ Dots : Exists(Append(stack'[i].dir, x))
    BY <1>1, <2>1 DEF Seen
  <2> QED
    BY <1>1, <2>1, <2>2, <2>3 DEF Seen, Openable, files
<1> QED
  BY <1>6, <1>7, <1>8, <1>9, <1>10 DEF WInv, Whole, Counted, files

LEMMA ReaddirEntry ==
  ASSUME WInv, walk = "readdir", stack # <<>>, NEW e \in stack[1].left, e \notin Dots,
         stack' = [stack EXCEPT ![1].left = Rest(@, e)], walk' = "lstat",
         fullpath' = Append(SubSeq(fullpath, 1, stack[1].ptr - 1), e), WalkInv',
         UNCHANGED <<count, visited, steady, files>>
  PROVE  Whole'
<1> PICK m \in Nat : m = Depth
  BY ReaddirStack DEF WInv
<1>1. /\ m # 0 /\ Depth' = m /\ Left(m) = stack[1].left /\ Left(m)' = Left(m) \ {e}
      /\ \A j \in 1 .. m : j # m => Left(j)' = Left(j)
      /\ \A i \in 1 .. m : stack'[i].dir = stack[i].dir /\ stack'[i].left \subseteq stack[i].left
  <2>1. \A j : j = Depth => Left(j)' = Left(j) \ {e}
    BY ReaddirStack DEF WInv, Left
  <2> QED
    BY <2>1, ReaddirStack DEF WInv
<1>2. /\ stack[1].dir \in Seq(Symbol) /\ Len(stack[1].dir) = m /\ Agrees(stack[1].dir, m)
      /\ stack[1].ptr = 2 * m + 1 /\ 2 * m <= Len(fullpath) /\ e \in Symbol
  <2>1. 1 \in 1 .. Depth /\ Depth + 1 - 1 = m
    BY <1>1
  <2> QED
    BY <2>1, DirIs DEF WInv
<1>3. (\A k \in 1 .. 2 * m : fullpath'[k] = fullpath[k]) /\ fullpath'[2 * m + 1] = e
  <2> DEFINE s == SubSeq(fullpath, 1, 2 * m)
  <2>1. /\ fullpath \in Seq(Symbol) /\ Len(fullpath) \in Nat /\ 2 * m \in Nat
    BY StackFacts DEF WInv
  <2>2. s \in Seq(Symbol) /\ Len(s) = 2 * m /\ \A k \in 1 .. 2 * m : s[k] = fullpath[k]
    BY <1>2, <2>1, BeginningIs
  <2>3. fullpath' = Append(s, e)
    <3>1. stack[1].ptr - 1 = 2 * m
      BY <1>2
    <3> QED
      BY <3>1
  <2> HIDE DEF s
  <2>4. /\ \A k \in 1 .. Len(s) : fullpath'[k] = s[k]
        /\ fullpath'[Len(s) + 1] = e
    BY <1>2, <2>2, <2>3, AppendProperties
  <2> QED
    BY <2>2, <2>4
<1>4. \A r : \A j \in 1 .. m : Agrees(r, j)' <=> Agrees(r, j)
  <2>1. 2 * m \in Nat /\ \A j \in 1 .. m : j \in Nat /\ 2 * j - 1 <= 2 * m
    OBVIOUS
  <2> QED
    BY <1>3, <2>1, AgreesKept
<1>5. \A r : Agrees(r, m + 1)' <=> Agrees(r, m) /\ r[m + 1] = e
  <2> SUFFICES ASSUME NEW r PROVE Agrees(r, m + 1)' <=> Agrees(r, m) /\ r[m + 1] = e
    OBVIOUS
  <2>1. 2 * (m + 1) - 1 = 2 * m + 1 /\ \A k \in 1 .. m + 1 : k \in 1 .. m \/ k = m + 1
    OBVIOUS
  <2>2. m + 1 \in 1 .. m + 1 /\ \A k \in 1 .. m : k \in 1 .. m + 1
    OBVIOUS
  <2>3. Agrees(r, m + 1)' <=> Agrees(r, m)' /\ r[m + 1] = fullpath'[2 * (m + 1) - 1]
    BY <2>1, <2>2 DEF Agrees
  <2>4. Agrees(r, m)' <=> Agrees(r, m)
    <3>1. m \in 1 .. m
      BY <1>1
    <3> QED
      BY <1>4, <3>1
  <2> QED
    BY <1>3, <2>1, <2>3, <2>4
<1>6. \A r : \A j \in 1 .. m : ToComeIn(r, j)' <=> ToComeIn(r, j) /\ (j = m => r[m + 1] # e)
  BY <1>1, <1>4 DEF ToComeIn
<1>7. \A r : ToCome(r)' <=> \/ m + 1 <= Len(r) /\ Agrees(r, m) /\ r[m + 1] = e
                            \/ \E j \in 1 .. m : ToComeIn(r, j)'
  <2>1. \A r : ToCome(r)' <=> \/ m + 1 <= Len(r) /\ Agrees(r, m + 1)'
                              \/ \E j \in 1 .. m : ToComeIn(r, j)'
    <3>1. \A r : Agrees(r, Depth + 1)' <=> Agrees(r, m + 1)'
      BY <1>1 DEF Agrees
    <3> QED
      BY <1>1, <3>1 DEF ToCome, ToComeHere
  <2> QED
    BY <1>5, <2>1
<1>8. Taken'
  <2>1. ASSUME NEW r \in steady, NEW j \in 1 .. m, Agrees(r, j + 1)' PROVE ~ToComeIn(r, j)'
    <3>1. CASE j = m
      BY <1>5, <1>6, <2>1, <3>1
    <3>2. CASE j # m
      <4>1. j + 1 \in 1 .. m /\ j < Depth
        BY <3>2
      <4>2. Agrees(r, j + 1)
        BY <1>4, <2>1, <4>1
      <4>3. ~ToComeIn(r, j)
        BY <4>1, <4>2 DEF WInv, Whole, Taken
      <4> QED
        BY <1>6, <4>3
    <3> QED
      BY <3>1, <3>2
  <2> QED
    BY <1>1, <2>1 DEF Taken
<1>9. Once'
  <2>1. ASSUME NEW r \in ToSet(visited) \cap steady PROVE ~ToCome(r)'
    <3>1. Len(r) \in Nat /\ ~ToCome(r)
      BY LenProperties DEF WInv, Whole, Once, ToSet
    <3>2. ~(m + 1 <= Len(r) /\ Agrees(r, m) /\ r[m + 1] = e)
      <4>1. m \in 1 .. m /\ (m + 1 <= Len(r) => m < Len(r))
        BY <1>1, <3>1
      <4> QED
        BY <1>1, <3>1, <4>1 DEF ToCome, ToComeIn
    <3> QED
      BY <1>6, <1>7, <3>1, <3>2 DEF ToCome
  <2> QED
    BY <2>1 DEF WInv, Whole, Once, CountedOnce
<1>10. Begun'
  BY DEF WInv, Whole, Begun
<1>11. Kept'
  <2>1. ASSUME NEW r \in steady PROVE r \in ToSet(visited)' \/ ToCome(r)'
    <3>1. r \in ToSet(visited) \/ \E j \in 1 .. m : ToComeIn(r, j)
      BY DEF WInv, Whole, Kept, ToCome, ToComeHere
    <3>2. Len(r) \in Nat
      BY PathTypes, LenProperties DEF WInv, Whole, Kept
    <3>3. ASSUME NEW j \in 1 .. m, ToComeIn(r, j) PROVE ToCome(r)'
      <4>1. CASE j = m /\ r[m + 1] = e
        <5>1. m + 1 <= Len(r) /\ Agrees(r, m)
          BY <3>2, <3>3, <4>1 DEF ToComeIn
        <5> QED
          BY <1>7, <4>1, <5>1
      <4>2. CASE ~(j = m /\ r[m + 1] = e)
        BY <1>6, <1>7, <3>3, <4>2
      <4> QED
        BY <4>1, <4>2
    <3> QED
      BY <3>1, <3>3
  <2>2. Root' = Root
    <3>1. 1 \in 1 .. 2 * m
      BY <1>1
    <3> QED
      BY <1>3, <3>1 DEF Root
  <2> QED
    BY <2>1, <2>2 DEF WInv, Whole, Kept, files
<1>12. ASSUME changes' = 0 PROVE Seen'
  <2>1. changes = 0 /\ Seen
    BY <1>12 DEF WInv, Whole, files
  <2>2. Root' = Root /\ disk' = disk
    <3>1. 1 \in 1 .. 2 * m
      BY <1>1
    <3> QED
      BY <1>3, <3>1 DEF Root, files
  <2>3. Below(<<Root>>)' = Below(<<Root>>) /\ \A q : Exists(q)' = Exists(q)
    BY <2>2 DEF Below, Exists
  <2>4. \A i \in 1 .. m : \A x \in stack'[i].left \ Dots : Exists(Append(stack'[i].dir, x))
    BY <1>1, <2>1 DEF Seen
  <2>5. Here' = Append(stack[1].dir, e)
    <3> DEFINE q == Append(stack[1].dir, e)
    <3>1. /\ q \in Seq(Symbol) /\ Len(q) = m + 1 /\ q[m + 1] = e
          /\ \A k \in 1 .. m : q[k] = stack[1].dir[k]
      BY <1>2, AppendProperties, SMTT(40)
    <3> HIDE DEF q
    <3>2. Here' \in Seq(Symbol) /\ Len(Here') = m + 1 /\ \A k \in 1 .. m + 1 : Here'[k] = fullpath'[2 * k - 1]
      BY <1>1, HereNext DEF Agrees
    <3>3. ASSUME NEW k \in 1 .. m + 1 PROVE Here'[k] = q[k]
      <4>1. CASE k = m + 1
        <5>1. 2 * k - 1 = 2 * m + 1
          BY <4>1
        <5> QED
          BY <1>3, <3>1, <3>2, <4>1, <5>1
      <4>2. CASE k # m + 1
        <5>1. k \in 1 .. m /\ 2 * k - 1 \in 1 .. 2 * m
          BY <4>2
        <5>2. q[k] = fullpath[2 * k - 1]
          BY <1>2, <3>1, <5>1 DEF Agrees
        <5>3. Here'[k] = fullpath'[2 * k - 1]
          BY <3>2
        <5> QED
          BY <1>3, <5>1, <5>2, <5>3
      <4> QED
        BY <4>1, <4>2
    <3>4. Here' = q
      BY <3>1, <3>2, <3>3, SeqEqual
    <3> QED
      BY <3>4 DEF q
  <2>6. Exists(Here)'
    <3>1. 1 \in 1 .. Depth /\ e \in stack[1].left \ Dots
      BY <1>1
    <3>2. Exists(Append(stack[1].dir, e))
      BY <2>1, <3>1 DEF Seen
    <3> QED
      BY <2>2, <2>5, <3>2 DEF Exists
  <2> QED
    BY <1>1, <2>1, <2>2, <2>3, <2>4, <2>6 DEF Seen, Openable
<1> QED
  BY <1>8, <1>9, <1>10, <1>11, <1>12 DEF WInv, Whole, Counted, files

LEMMA ReaddirWhole == ASSUME WInv, readdir, UNCHANGED files PROVE Whole'
<1>1. walk = "readdir" /\ stack # <<>> /\ Head(stack) = stack[1] /\ WalkInv'
  <2>1. walk = "readdir" /\ stack # <<>>
    BY DEF readdir, WInv, WalkInv, Looking
  <2> QED
    BY <2>1, StackFacts, ReaddirKeeps DEF WInv, files
<1>2. PICK e \in stack[1].left :
        /\ stack' = [stack EXCEPT ![1].left = Rest(@, e)]
        /\ IF e \in Dots
           THEN UNCHANGED <<fullpath, walk>>
           ELSE /\ fullpath' = Append(SubSeq(fullpath, 1, stack[1].ptr - 1), e)
                /\ walk' = "lstat"
        /\ UNCHANGED <<count, visited, steady>>
  BY <1>1 DEF readdir
<1> QED
  BY <1>1, <1>2, ReaddirDots, ReaddirEntry

LEMMA ClosedirWhole == ASSUME WInv, closedir, UNCHANGED files PROVE Whole'
<1>1. /\ walk = "readdir" /\ stack # <<>> /\ Exhausted /\ stack' = Tail(stack)
      /\ walk' \in {"ended", "readdir"} /\ (walk' = "ended" => Len(stack) = 1)
      /\ fullpath' = SubSeq(fullpath, 1, Head(stack).ptr - 2)
      /\ Head(stack) = stack[1]
      /\ steady' = steady /\ visited' = visited /\ count' = count
      /\ disk' = disk /\ changes' = changes
  <2>1. walk = "readdir" /\ stack # <<>>
    BY DEF closedir, WInv, WalkInv, Looking
  <2> QED
    BY <2>1, StackFacts DEF closedir, files, WInv
<1> PICK m \in Nat : m = Depth /\ m # 0
  BY <1>1, StackFacts DEF WInv, Depth
<1>2. /\ stack[1].dir \in Seq(Symbol) /\ Len(stack[1].dir) = m /\ Agrees(stack[1].dir, m)
      /\ stack[1].ptr = 2 * m + 1 /\ 2 * m <= Len(fullpath)
  <2>1. 1 \in 1 .. Depth /\ Depth + 1 - 1 = m
    OBVIOUS
  <2> QED
    BY <2>1, DirIs DEF WInv
<1>3. /\ Depth' = m - 1 /\ \A i \in 1 .. m - 1 : stack'[i] = stack[i + 1]
      /\ Len(stack) = 1 => stack' = <<>>
  <2>1. stack \in Seq(Call) /\ m = Len(stack)
    BY DEF WInv, WalkInv, WalkTyped, Depth
  <2>2. /\ stack' \in Seq(Call) /\ Len(stack') = m - 1 /\ \A i \in 1 .. m - 1 : stack'[i] = stack[i + 1]
    BY <1>1, <2>1, HeadTailProperties
  <2>3. Len(stack) = 1 => stack' = <<>>
    BY <2>1, <2>2, EmptySeq
  <2> QED
    BY <2>2, <2>3 DEF Depth
<1>4. \A j \in 1 .. m - 1 : Left(j)' = Left(j)
  <2>1. \A j \in 1 .. m - 1 : m - j \in 1 .. m - 1 /\ (m - j) + 1 = m + 1 - j /\ (m - 1) + 1 - j = m - j
    OBVIOUS
  <2>2. \A j : Left(j)' = stack'[(m - 1) + 1 - j].left
    BY <1>3 DEF Left
  <2>3. \A j : Left(j) = stack[m + 1 - j].left
    BY DEF Left
  <2> QED
    BY <1>3, <2>1, <2>2, <2>3
<1>5. \A k \in 1 .. 2 * m - 1 : fullpath'[k] = fullpath[k]
  <2> DEFINE n == 2 * m - 1
  <2>1. n \in Nat /\ n <= Len(fullpath) /\ stack[1].ptr - 2 = n /\ fullpath \in Seq(Symbol)
    BY <1>2, StackFacts DEF WInv
  <2>2. fullpath' = SubSeq(fullpath, 1, n)
    BY <1>1, <2>1
  <2> HIDE DEF n
  <2>3. \A k \in 1 .. n : fullpath'[k] = fullpath[k]
    BY <2>1, <2>2, BeginningIs
  <2> QED
    BY <2>3 DEF n
<1>5a. \A r : \A j \in 1 .. m - 1 : Agrees(r, j)' <=> Agrees(r, j)
  <2>1. 2 * m - 1 \in Nat /\ \A j \in 1 .. m - 1 : j \in Nat /\ 2 * j - 1 <= 2 * m - 1
    OBVIOUS
  <2> QED
    BY <1>5, <2>1, AgreesKept
<1>6. \A r : \A j \in 1 .. m - 1 : ToComeIn(r, j)' <=> ToComeIn(r, j)
  BY <1>4, <1>5a DEF ToComeIn
<1>7. \A r : ToCome(r)' <=> \E j \in 1 .. m - 1 : ToComeIn(r, j)
  <2>1. \A r : ToCome(r)' <=> \E j \in 1 .. m - 1 : ToComeIn(r, j)'
    BY <1>1, <1>3 DEF ToCome, ToComeHere
  <2> QED
    BY <1>6, <2>1
<1>8. Root' = Root
  BY <1>5 DEF Root
<1>9. Taken'
  <2>1. ASSUME NEW r \in steady, NEW j \in 1 .. m - 1, j < m - 1, Agrees(r, j + 1)'
        PROVE  ~ToComeIn(r, j)'
    <3>1. j \in 1 .. m /\ j < m /\ j + 1 \in 1 .. m - 1
      BY <2>1
    <3>2. Agrees(r, j + 1)
      BY <1>5a, <2>1, <3>1
    <3> QED
      BY <1>6, <3>1, <3>2 DEF WInv, Whole, Taken
  <2> QED
    BY <1>1, <1>3, <2>1 DEF Taken
<1>10. Once'
  <2>1. \A j \in 1 .. m - 1 : j \in 1 .. m
    OBVIOUS
  <2>2. \A r \in ToSet(visited) \cap steady : ~ToCome(r)'
    BY <1>7, <2>1 DEF WInv, Whole, Once, ToCome
  <2> QED
    BY <1>1, <2>2 DEF WInv, Whole, Once, CountedOnce
<1>11. Begun'
  BY <1>1, <1>3 DEF WInv, Whole, Begun
<1>12. Kept'
  <2>1. ASSUME NEW r \in steady PROVE r \in ToSet(visited)' \/ ToCome(r)'
    <3>1. r \in ToSet(visited) \/ \E j \in 1 .. m : ToComeIn(r, j)
      BY <1>1 DEF WInv, Whole, Kept, ToCome, ToComeHere
    <3>2. ~ToComeIn(r, m)
      <4> SUFFICES ASSUME ToComeIn(r, m) PROVE FALSE
        OBVIOUS
      <4> DEFINE q == SubSeq(r, 1, m + 1)
                 d == stack[1].dir
      <4>1. r \in DOMAIN disk /\ r \in Seq(Symbol) /\ Len(r) \in Nat
        BY PathTypes, LenProperties DEF WInv, Whole, Kept
      <4>2. m + 1 \in 1 .. Len(r) /\ Agrees(r, m) /\ r[m + 1] \in stack[1].left
        <5>1. Depth + 1 - m = 1
          OBVIOUS
        <5> QED
          BY <4>1, <5>1 DEF ToComeIn, Left
      <4>3. q \in Seq(Symbol) /\ Len(q) = m + 1 /\ \A k \in 1 .. m + 1 : q[k] = r[k]
        BY <4>1, <4>2, BeginningIs
      <4>4. q \in steady /\ q \in DOMAIN disk
        BY <4>2 DEF WInv, Whole, Kept
      <4> HIDE DEF q
      <4>5. IsPrefix(d, q)
        <5>1. \A k \in 1 .. m : k \in 1 .. m + 1 /\ q[k] = d[k]
          BY <1>2, <4>2, <4>3 DEF Agrees
        <5>2. Len(d) <= Len(q)
          BY <1>2, <4>3
        <5> QED
          BY <1>2, <4>3, <5>1, <5>2, PrefixIs
      <4>6. q = Append(d, q[m + 1])
        <5>1. Len(q) = Len(d) + 1
          BY <1>2, <4>3
        <5> QED
          BY <1>2, <4>3, <4>4, <4>5, <5>1, EntryIs
      <4>7. q[m + 1] = r[m + 1]
        <5>1. m + 1 \in 1 .. m + 1
          OBVIOUS
        <5> QED
          BY <4>3, <5>1
      <4> QED
        BY <1>1, <4>2, <4>4, <4>6, <4>7 DEF Exhausted
    <3>3. \A j \in 1 .. m : j \in 1 .. m - 1 \/ j = m
      OBVIOUS
    <3> QED
      BY <1>1, <1>7, <3>1, <3>2, <3>3
  <2> QED
    BY <1>1, <1>8, <2>1 DEF WInv, Whole, Kept
<1>13. ASSUME changes' = 0 PROVE Seen'
  <2>1. changes = 0 /\ Seen
    BY <1>1, <1>13 DEF WInv, Whole
  <2>2. Below(<<Root>>)' = Below(<<Root>>) /\ \A q : Exists(q)' = Exists(q)
    BY <1>1, <1>8 DEF Below, Exists
  <2>3. \A i \in 1 .. m - 1 : \A x \in stack'[i].left \ Dots : Exists(Append(stack'[i].dir, x))
    <3>1. \A i \in 1 .. m - 1 : i + 1 \in 1 .. m
      OBVIOUS
    <3> QED
      BY <1>3, <2>1, <3>1 DEF Seen
  <2> QED
    BY <1>1, <1>3, <2>1, <2>2, <2>3 DEF Seen, Openable
<1> QED
  BY <1>1, <1>9, <1>10, <1>11, <1>12, <1>13 DEF WInv, Whole, Counted

(* lstat fails only on the root while nothing changes, and opendir only on  *)
(* a directory that may not be read or lies too deep.                      *)
LEMMA FailWhole == ASSUME WInv, lstat_fails \/ opendir_fails, UNCHANGED files PROVE Whole'
<1>1. /\ walk' = "failed" /\ fullpath' = fullpath /\ stack' = stack /\ count' = count
      /\ visited' = visited /\ steady' = steady /\ disk' = disk /\ changes' = changes
  BY DEF lstat_fails, opendir_fails, Fail, files
<1>2. /\ Depth' = Depth /\ \A r, j : ToComeIn(r, j)' = ToComeIn(r, j) /\ \A i : Left(i)' = Left(i)
      /\ \A r, j : Agrees(r, j)' = Agrees(r, j)
  BY <1>1, ComingIn
<1>3. Taken' /\ Begun'
  BY <1>1, <1>2 DEF WInv, Whole, Taken, Begun
<1>4. Once'
  BY <1>1, <1>2 DEF WInv, Whole, Once, CountedOnce, ToCome, ToComeHere
<1>5. Kept'
  BY <1>1 DEF WInv, Whole, Kept, Root
<1>6. ASSUME changes = 0 PROVE steady = {} \/ \E r \in steady : disk[r] \in Dirs /\ ~Openable(r)
  <2>1. CASE lstat_fails
    <3>1. walk = "lstat" /\ ~Exists(Here)
      BY <2>1 DEF lstat_fails
    <3>2. stack = <<>>
      BY <1>6, <3>1 DEF WInv, Whole, Seen
    <3>3. Depth = 0
      BY <3>2, EmptySeq DEF Depth
    <3>4. ASSUME NEW r \in steady PROVE FALSE
      <4>1. r \in Seq(Symbol) /\ r # <<>> /\ r[1] = Root
        BY PathTypes DEF WInv, Whole, Kept, Tree, Proper
      <4>2. Depth + 1 <= Len(r)
        BY <3>3, <4>1, EmptySeq, LenProperties
      <4>3. Agrees(r, Depth + 1)
        <5>1. \A k \in 1 .. 0 + 1 : k = 1 /\ 2 * k - 1 = 1
          OBVIOUS
        <5> QED
          BY <3>3, <4>1, <5>1 DEF Agrees, Root
      <4> QED
        BY <3>1, <4>2, <4>3, SteadyHere
    <3> QED
      BY <3>4
  <2>2. CASE opendir_fails
    <3>1. walk = "opendir" /\ ~CanOpen /\ Exists(Here) /\ disk[Here] \in Dirs /\ Here \in steady
      BY <1>6, <2>2 DEF opendir_fails, WInv, Whole, Seen
    <3>2. disk[Here] # "dir" \/ ~(Depth < MaxOpen)
      BY <3>1 DEF CanOpen, Depth
    <3>3. ~Openable(Here)
      <4>1. Len(Here) = Depth + 1 /\ Depth \in Nat /\ MaxOpen \in Nat
        BY <3>1, HereIs, WalkAssumption DEF WInv
      <4> QED
        BY <3>2, <4>1 DEF Openable
    <3> QED
      BY <3>1, <3>3
  <2> QED
    BY <2>1, <2>2
<1>7. ASSUME changes' = 0 PROVE Seen'
  <2>1. changes = 0 /\ Seen
    BY <1>1, <1>7 DEF WInv, Whole
  <2>2. walk # "none"
    BY DEF lstat_fails, opendir_fails
  <2>3. Below(<<Root>>)' = Below(<<Root>>) /\ \A q : Exists(q)' = Exists(q)
    BY <1>1 DEF Below, Root, Exists
  <2> QED
    BY <1>1, <1>2, <1>6, <2>1, <2>2, <2>3 DEF Seen, Openable
<1> QED
  BY <1>1, <1>3, <1>4, <1>5, <1>7 DEF WInv, Whole, Counted

(* The walk is killed: it has counted what it has counted.                  *)
LEMMA KilledWhole == ASSUME WInv, sigpipe PROVE Whole'
<1>1. /\ walk' = "killed" /\ walk # "none" /\ fullpath' = fullpath /\ stack' = stack /\ count' = count
      /\ visited' = visited /\ steady' = steady /\ disk' = disk /\ changes' = changes
      /\ walk \in {"lstat", "opendir"}
  BY DEF sigpipe, files
<1>2. /\ Depth' = Depth /\ \A r, j : ToComeIn(r, j)' = ToComeIn(r, j) /\ \A i : Left(i)' = Left(i)
      /\ \A r, j : Agrees(r, j)' = Agrees(r, j)
  BY <1>1, ComingIn
<1>3. Taken' /\ Begun'
  BY <1>1, <1>2 DEF WInv, Whole, Taken, Begun
<1>4. Once'
  BY <1>1, <1>2 DEF WInv, Whole, Once, CountedOnce, ToCome, ToComeHere
<1>5. Kept'
  BY <1>1 DEF WInv, Whole, Kept, Root
<1>6. ASSUME changes' = 0 PROVE Seen'
  <2>1. changes = 0 /\ Seen
    BY <1>1, <1>6 DEF WInv, Whole
  <2>2. Below(<<Root>>)' = Below(<<Root>>) /\ \A q : Exists(q)' = Exists(q)
    BY <1>1 DEF Below, Root, Exists
  <2> QED
    BY <1>1, <1>2, <2>1, <2>2 DEF Seen
<1> QED
  BY <1>1, <1>3, <1>4, <1>5, <1>6 DEF WInv, Whole, Counted

(* What goes goes with all below it, and what comes has a directory to lie  *)
(* in: the files stay a tree.                                              *)
LEMMA PrefixLonger ==
  ASSUME NEW q \in Seq(Symbol), NEW r \in Seq(Symbol), NEW j \in 1 .. Len(r), IsPrefix(q, SubSeq(r, 1, j))
  PROVE  IsPrefix(q, r)
<1> DEFINE s == SubSeq(r, 1, j)
<1>1. Len(r) \in Nat /\ Len(q) \in Nat /\ j \in Nat /\ j <= Len(r)
  BY LenProperties
<1>2. s \in Seq(Symbol) /\ Len(s) = j /\ \A k \in 1 .. j : s[k] = r[k]
  BY <1>1, BeginningIs
<1> HIDE DEF s
<1>3. Len(q) <= j /\ \A k \in 1 .. Len(q) : s[k] = q[k]
  BY <1>2, PrefixIs DEF s
<1>4. Len(q) <= Len(r) /\ \A k \in 1 .. Len(q) : r[k] = q[k]
  <2>1. \A k \in 1 .. Len(q) : k \in 1 .. j
    BY <1>1, <1>3
  <2> QED
    BY <1>1, <1>2, <1>3, <2>1
<1> QED
  BY <1>4, PrefixIs

LEMMA GoneTree ==
  ASSUME WInv, NEW q \in Seq(Symbol), NEW r \in DOMAIN disk \ Below(q), NEW j \in 1 .. Len(r) - 1
  PROVE  SubSeq(r, 1, j) \in DOMAIN disk \ Below(q) /\ disk[SubSeq(r, 1, j)] \in Dirs
<1>1. r \in Seq(Symbol) /\ j \in 1 .. Len(r)
  BY PathTypes, LenProperties DEF WInv
<1>2. SubSeq(r, 1, j) \in DOMAIN disk /\ disk[SubSeq(r, 1, j)] \in Dirs
  BY DEF WInv, Whole, Kept, Tree
<1>3. ~IsPrefix(q, SubSeq(r, 1, j))
  BY <1>1, PrefixLonger DEF Below
<1> QED
  BY <1>2, <1>3 DEF Below

LEMMA PutTree ==
  ASSUME WInv, NEW q \in Paths, Possible(q), NEW j \in 1 .. Len(q) - 1
  PROVE  SubSeq(q, 1, j) \in DOMAIN disk \ Below(q) /\ disk[SubSeq(q, 1, j)] \in Dirs
<1> DEFINE s == SubSeq(q, 1, j)
           n == Len(q)
           f == SubSeq(q, 1, n - 1)
<1>1. q \in Seq(Symbol) /\ n \in Nat /\ j \in Nat /\ j <= n - 1 /\ n - 1 \in Nat /\ n - 1 <= n /\ n # 1
  <2>1. q \in Seq(STRING)
    BY WalkAssumption
  <2>2. q \in Seq(Symbol)
    BY <2>1 DEF Symbol
  <2>3. n \in Nat
    BY <2>2, LenProperties
  <2> HIDE DEF n
  <2>4. j \in 1 .. n - 1
    BY DEF n
  <2> QED
    BY <2>2, <2>3, <2>4
<1>2. s \in Seq(Symbol) /\ Len(s) = j /\ \A k \in 1 .. j : s[k] = q[k]
  BY <1>1, BeginningIs
<1>3. f \in Seq(Symbol) /\ Len(f) = n - 1 /\ \A k \in 1 .. n - 1 : f[k] = q[k]
  BY <1>1, BeginningIs
<1>4. f \in DOMAIN disk /\ disk[f] \in Dirs
  BY <1>1 DEF Possible, Exists, Front
<1>5. s \in DOMAIN disk /\ disk[s] \in Dirs
  <2>1. CASE j = n - 1
    BY <1>4, <2>1
  <2>2. CASE j # n - 1
    <3> DEFINE g == SubSeq(f, 1, j)
    <3>1. j \in 1 .. Len(f) - 1 /\ j <= Len(f)
      BY <1>1, <1>3, <2>2
    <3>2. g \in DOMAIN disk /\ disk[g] \in Dirs
      BY <1>4, <3>1 DEF WInv, Whole, Kept, Tree
    <3>3. g \in Seq(Symbol) /\ Len(g) = j /\ \A k \in 1 .. j : g[k] = f[k]
      BY <1>1, <1>3, <3>1, BeginningIs
    <3> HIDE DEF f, g, s
    <3>4. \A k \in 1 .. j : g[k] = s[k]
      <4>1. \A k \in 1 .. j : k \in 1 .. n - 1
        BY <1>1
      <4> QED
        BY <1>2, <1>3, <3>3, <4>1
    <3>5. g = s
      BY <1>2, <3>3, <3>4, SeqEqual
    <3> QED
      BY <3>2, <3>5
  <2> QED
    BY <2>1, <2>2
<1>6. ~IsPrefix(q, s)
  BY <1>1, <1>2 DEF IsPrefix
<1> QED
  BY <1>5, <1>6 DEF Below

(* A name that is listed anew does not lead to what stays.                  *)
LEMMA ListedAside ==
  ASSUME WInv, NEW q \in Seq(Symbol), q # <<>>, NEW r \in Seq(Symbol), ~IsPrefix(q, r),
         NEW j \in 1 .. Depth, j < Len(r), Agrees(r, j), stack[Depth + 1 - j].dir = Front(q)
  PROVE  r[j + 1] # Last(q)
<1> DEFINE n == Len(q)
           d == stack[Depth + 1 - j].dir
<1>1. /\ n \in Nat \ {0} /\ Depth \in Nat /\ Len(r) \in Nat
      /\ d \in Seq(Symbol) /\ Len(d) = j /\ Agrees(d, j)
  <2>1. Depth \in Nat
    BY PathTypes DEF WInv
  <2>2. Depth + 1 - j \in 1 .. Depth /\ Depth + 1 - (Depth + 1 - j) = j
    BY <2>1
  <2> QED
    BY <2>1, <2>2, DirIs, EmptySeq, LenProperties DEF WInv
<1> HIDE DEF n, d
<1>2. n - 1 \in Nat /\ n - 1 <= n
  BY <1>1
<1>3. Len(d) = n - 1 /\ \A k \in 1 .. n - 1 : d[k] = q[k]
  <2>1. d = SubSeq(q, 1, n - 1)
    BY DEF d, n, Front
  <2>2. n - 1 <= Len(q)
    BY <1>2 DEF n
  <2>3. Len(SubSeq(q, 1, n - 1)) = n - 1 /\ \A k \in 1 .. n - 1 : SubSeq(q, 1, n - 1)[k] = q[k]
    BY <1>2, <2>2, BeginningIs
  <2> QED
    BY <2>1, <2>3
<1>4. n = j + 1 /\ \A k \in 1 .. j : r[k] = q[k]
  <2>1. n = j + 1
    BY <1>1, <1>3
  <2>2. \A k \in 1 .. j : r[k] = d[k]
    BY <1>1 DEF Agrees
  <2> QED
    BY <1>3, <2>1, <2>2
<1> SUFFICES ASSUME r[j + 1] = Last(q) PROVE FALSE
  OBVIOUS
<1>5. r[n] = q[n]
  BY <1>4 DEF Last, n
<1>6. \A k \in 1 .. n : k \in 1 .. j \/ k = n
  BY <1>4
<1>7. n <= Len(r) /\ \A k \in 1 .. n : r[k] = q[k]
  BY <1>1, <1>4, <1>5, <1>6
<1> QED
  BY <1>7, PrefixIs DEF n

LEMMA ChangeWhole == ASSUME WInv, Change PROVE Whole'
<1>1. PICK q \in Paths :
        /\ disk' = Gone(q) \/ (Possible(q) /\ \E k \in ChangedKinds : disk' = Put(q, k))
        /\ steady' = {r \in steady : ~IsPrefix(q, r)}
        /\ q \in Seq(Symbol) /\ Proper(q)
        /\ stack' \in Seq(Call) /\ Len(stack') = Len(stack)
        /\ \A i \in 1 .. Len(stack) :
             /\ stack'[i].dir = stack[i].dir /\ stack'[i].ptr = stack[i].ptr
             /\ \/ stack'[i].left = stack[i].left
                \/ stack[i].dir = Front(q) /\ stack'[i].left = stack[i].left \cup {Last(q)}
  BY ChangeStack DEF WInv
<1>2. /\ changes' = changes + 1 /\ fullpath' = fullpath /\ walk' = walk
      /\ count' = count /\ visited' = visited /\ changes \in Nat
  BY DEF Change, WInv, Whole
<1>3. q \in Seq(Symbol) /\ Proper(q) /\ q # <<>>
  BY <1>1 DEF Proper
<1> DEFINE rest == DOMAIN disk \ Below(q)
<1>4. \/ DOMAIN disk' = rest /\ \A r \in rest : disk'[r] = disk[r]
      \/ /\ Possible(q) /\ DOMAIN disk' = {q} \cup rest
         /\ \A r \in rest : r # q => disk'[r] = disk[r]
  <2>1. CASE disk' = Gone(q)
    BY <2>1 DEF Gone
  <2>2. ASSUME Possible(q), NEW k \in ChangedKinds, disk' = Put(q, k) PROVE
          /\ Possible(q) /\ DOMAIN disk' = {q} \cup rest
          /\ \A r \in rest : r # q => disk'[r] = disk[r]
    BY <2>2 DEF Put, Gone
  <2> QED
    BY <1>1, <2>1, <2>2
<1>5. \A r \in rest : r # q
  <2>1. IsPrefix(q, q)
    BY <1>3, PrefixIs, LenProperties
  <2> QED
    BY <2>1 DEF Below
<1>6. rest \subseteq DOMAIN disk' /\ \A r \in rest : disk'[r] = disk[r]
  BY <1>4, <1>5
<1>7. Tree(disk')
  <2> SUFFICES ASSUME NEW r \in DOMAIN disk'
               PROVE  /\ Proper(r)
                      /\ \A j \in 1 .. Len(r) - 1 : SubSeq(r, 1, j) \in DOMAIN disk' /\ disk'[SubSeq(r, 1, j)] \in Dirs
    BY DEF Tree
  <2>1. CASE r \in rest
    <3>1. Proper(r)
      BY <2>1 DEF WInv, Whole, Kept, Tree
    <3>2. \A j \in 1 .. Len(r) - 1 : SubSeq(r, 1, j) \in rest /\ disk[SubSeq(r, 1, j)] \in Dirs
      BY <1>3, <2>1, GoneTree
    <3> QED
      BY <1>6, <3>1, <3>2
  <2>2. CASE r = q /\ Possible(q)
    <3>1. \A j \in 1 .. Len(q) - 1 : SubSeq(q, 1, j) \in rest /\ disk[SubSeq(q, 1, j)] \in Dirs
      BY <2>2, PutTree
    <3> QED
      BY <1>3, <1>6, <2>2, <3>1
  <2> QED
    BY <1>4, <2>1, <2>2
<1>11. /\ Depth' = Depth /\ steady' \subseteq steady
       /\ \A r, j : Agrees(r, j)' = Agrees(r, j)
       /\ \A r \in steady' : \A j \in 1 .. Depth : ToComeIn(r, j)' <=> ToComeIn(r, j)
  <2>1. Depth' = Depth /\ steady' \subseteq steady /\ \A r, j : Agrees(r, j)' = Agrees(r, j)
    BY <1>1, <1>2 DEF Depth, Agrees
  <2>2. ASSUME NEW r \in steady', NEW j \in 1 .. Depth PROVE ToComeIn(r, j)' <=> ToComeIn(r, j)
    <3>1. r \in steady /\ r \in Seq(Symbol) /\ ~IsPrefix(q, r) /\ Depth \in Nat
      BY <1>1, <2>2, PathTypes DEF WInv, Whole, Kept
    <3>2. Depth + 1 - j \in 1 .. Len(stack)
      BY <3>1 DEF Depth
    <3>3. Left(j)' = stack'[Depth + 1 - j].left /\ Left(j) = stack[Depth + 1 - j].left
      BY <2>1 DEF Left
    <3>4. \/ Left(j)' = Left(j)
          \/ stack[Depth + 1 - j].dir = Front(q) /\ Left(j)' = Left(j) \cup {Last(q)}
      BY <1>1, <3>2, <3>3
    <3>5. j < Len(r) /\ Agrees(r, j) /\ stack[Depth + 1 - j].dir = Front(q) => r[j + 1] # Last(q)
      BY <1>3, <3>1, ListedAside
    <3> QED
      BY <2>1, <3>4, <3>5 DEF ToComeIn
  <2> QED
    BY <2>1, <2>2
<1>12. \A r \in steady' : ToCome(r)' <=> ToCome(r)
  BY <1>2, <1>11 DEF ToCome, ToComeHere
<1>8. Kept'
  <2>1. steady' \subseteq DOMAIN disk'
    <3>1. \A r \in steady' : r \in rest
      BY <1>1 DEF WInv, Whole, Kept, Below
    <3> QED
      BY <1>6, <3>1
  <2>2. ASSUME NEW r \in steady', NEW j \in 1 .. Len(r) PROVE SubSeq(r, 1, j) \in steady'
    <3>1. r \in steady /\ r \in Seq(Symbol) /\ ~IsPrefix(q, r)
      BY <1>1, <2>2, PathTypes DEF WInv, Whole, Kept
    <3>2. SubSeq(r, 1, j) \in steady
      BY <3>1 DEF WInv, Whole, Kept
    <3>3. ~IsPrefix(q, SubSeq(r, 1, j))
      BY <1>3, <3>1, PrefixLonger
    <3> QED
      BY <1>1, <3>2, <3>3
  <2> QED
    BY <1>1, <1>2, <1>7, <1>12, <2>1, <2>2 DEF WInv, Whole, Kept, Root
<1>9. Taken' /\ Begun' /\ Once'
  <2>1. stack = <<>> => stack' = <<>>
    BY <1>1, EmptySeq DEF WInv, WalkInv, WalkTyped
  <2>2. stack = <<>> <=> stack' = <<>>
    BY <1>1, <2>1, EmptySeq DEF WInv, WalkInv, WalkTyped
  <2>3. Taken'
    BY <1>2, <1>11 DEF WInv, Whole, Taken
  <2>4. Begun'
    BY <1>2, <2>2 DEF WInv, Whole, Begun
  <2>5. Once'
    BY <1>1, <1>2, <1>12 DEF WInv, Whole, Once, CountedOnce
  <2> QED
    BY <2>3, <2>4, <2>5
<1>10. changes' # 0 /\ changes' \in Nat
  BY <1>2
<1> QED
  BY <1>2, <1>8, <1>9, <1>10 DEF WInv, Whole, Counted

LEMMA StepWhole == ASSUME WInv, dopath \/ sigpipe \/ Change PROVE WInv'
<1>1. CASE dopath
  <2>1. UNCHANGED files
    BY <1>1 DEF dopath
  <2> QED
    BY <1>1, <2>1, WalkStep, FileWhole, DirectoryWhole, OpendirWhole, ReaddirWhole, ClosedirWhole, FailWhole
       DEF WInv, dopath
<1>2. CASE Change
  BY <1>2, WalkChange, ChangeWhole DEF WInv
<1>3. CASE sigpipe
  BY <1>3, KilledKeeps, KilledWhole DEF WInv
<1> QED
  BY <1>1, <1>2, <1>3

-----------------------------------------------------------------------------
(* A walk begins                                                           *)
LEMMA BeginWhole == ASSUME WInv, NEW root \in STRING, myftw(root) PROVE WInv'
<1> DEFINE t == <<root>>
<1>1. /\ fullpath' = t /\ stack' = <<>> /\ walk' = "lstat" /\ visited' = <<>> /\ steady' = Below(t)
      /\ count' = [k \in Kinds \cup {"dir"} |-> 0] /\ disk' = disk /\ changes' = changes
  BY DEF myftw, files
<1>2. WalkInv'
  BY WalkBegins DEF WInv
<1>3. t \in Seq(Symbol) /\ Len(t) = 1 /\ t[1] = root /\ Root' = root /\ Depth' = 0
  BY <1>1 DEF Symbol, Root, Depth
<1> HIDE DEF t
<1>4. ToSet(<<>>) = {} /\ DOMAIN <<>> = {} /\ <<>> \in Seq(Seq(Symbol))
  BY DEF ToSet
<1>5. Taken' /\ Once' /\ Begun'
  BY <1>1, <1>3, <1>4 DEF Taken, Once, CountedOnce, Begun
<1>6. Counted'
  <2>1. IsFiniteSet({}) /\ Cardinality({}) = 0
    BY FS_EmptySet
  <2>2. \A k \in Kinds : {q \in {} : disk'[q] = k} = {}
    OBVIOUS
  <2> QED
    BY <1>1, <1>4, <2>1, <2>2 DEF Counted
<1>7. ASSUME NEW r \in Below(t)
      PROVE  /\ r \in DOMAIN disk /\ r[1] = root /\ ToCome(r)'
             /\ \A j \in 1 .. Len(r) : SubSeq(r, 1, j) \in Below(t)
  <2>1. r \in DOMAIN disk /\ r \in Seq(Symbol) /\ IsPrefix(t, r) /\ Len(r) \in Nat
    BY PathTypes, LenProperties DEF WInv, Below
  <2>2. Len(r) >= 1 /\ r[1] = root
    <3>1. Len(t) <= Len(r) /\ \A k \in 1 .. Len(t) : r[k] = t[k]
      BY <1>3, <2>1, PrefixIs
    <3>2. 1 \in 1 .. Len(t)
      BY <1>3
    <3> QED
      BY <1>3, <2>1, <3>1, <3>2
  <2>3. ToCome(r)'
    <3>1. \A k \in 1 .. 0 + 1 : k = 1 /\ 2 * k - 1 = 1
      OBVIOUS
    <3>2. fullpath'[1] = root
      BY <1>1, <1>3
    <3>3. Agrees(r, Depth + 1)'
      BY <1>3, <2>2, <3>1, <3>2 DEF Agrees
    <3>4. Depth' + 1 <= Len(r)
      BY <1>3, <2>1, <2>2
    <3> QED
      BY <1>1, <3>3, <3>4 DEF ToCome, ToComeHere
  <2>4. ASSUME NEW j \in 1 .. Len(r) PROVE SubSeq(r, 1, j) \in Below(t)
    <3> DEFINE s == SubSeq(r, 1, j)
    <3>1. j \in Nat /\ j <= Len(r) /\ 1 \in 1 .. j
      BY <2>1
    <3>2. s \in Seq(Symbol) /\ Len(s) = j /\ \A k \in 1 .. j : s[k] = r[k]
      BY <2>1, <3>1, BeginningIs
    <3>3. s \in DOMAIN disk
      <4>1. CASE j = Len(r)
        <5>1. s = r
          BY <2>1, <3>2, <4>1, SeqEqual
        <5> QED
          BY <2>1, <5>1
      <4>2. CASE j # Len(r)
        <5>1. j \in 1 .. Len(r) - 1
          BY <2>1, <4>2
        <5> QED
          BY <2>1, <5>1 DEF WInv, Whole, Kept, Tree
      <4> QED
        BY <4>1, <4>2
    <3> HIDE DEF s
    <3>4. IsPrefix(t, s)
      <4>1. Len(t) <= Len(s) /\ \A k \in 1 .. Len(t) : s[k] = t[k]
        <5>1. \A k \in 1 .. Len(t) : k = 1
          BY <1>3
        <5>2. s[1] = t[1]
          BY <1>3, <2>2, <3>1, <3>2
        <5>3. Len(t) <= Len(s)
          BY <1>3, <3>1, <3>2
        <5>4. \A k \in 1 .. Len(t) : s[k] = t[k]
          BY <5>1, <5>2
        <5> QED
          BY <5>3, <5>4
      <4> QED
        BY <1>3, <3>2, <4>1, PrefixIs
    <3> QED
      BY <3>3, <3>4 DEF Below, s
  <2> QED
    BY <2>1, <2>2, <2>3, <2>4
<1>8. Kept'
  BY <1>1, <1>3, <1>7 DEF WInv, Whole, Kept
<1>9. Seen'
  <2>1. Below(<<Root>>)' = Below(t)
    BY <1>1, <1>3 DEF Below, t
  <2> QED
    BY <1>1, <1>3, <1>4, <2>1 DEF Seen
<1> QED
  BY <1>1, <1>2, <1>5, <1>6, <1>8, <1>9 DEF WInv, Whole

LEMMA StayWhole == ASSUME WInv, UNCHANGED <<files, walking>> PROVE WInv'
<1>1. WalkInv'
  BY WalkStays DEF WInv, WalkInv, WalkTyped, files
<1>2. Taken' /\ Begun' /\ Once'
  <2>1. /\ Depth' = Depth /\ walk' = walk /\ steady' = steady /\ visited' = visited /\ stack' = stack
        /\ \A r, j : ToComeIn(r, j)' = ToComeIn(r, j) /\ Agrees(r, j)' = Agrees(r, j)
    BY ComingIn DEF walking
  <2>2. \A r : ToCome(r)' = ToCome(r)
    BY <2>1 DEF ToCome, ToComeHere
  <2> QED
    BY <2>1, <2>2 DEF WInv, Whole, Taken, Begun, Once, CountedOnce
<1>3. Kept'
  BY DEF WInv, Whole, Kept, ToCome, ToComeHere, ToComeIn, Agrees, Left, Depth, Root, walking, files
<1>4. Counted' /\ changes' = changes
  BY DEF WInv, Whole, Counted, walking, files
<1>5. Seen => Seen'
  BY DEF Seen, Depth, Below, Root, Exists, Here, Openable, walking, files
<1> QED
  BY <1>1, <1>2, <1>3, <1>4, <1>5 DEF WInv, Whole

LEMMA InitWhole == Init => WInv
<1> SUFFICES ASSUME Init PROVE WInv
  OBVIOUS
<1>1. WalkInv
  BY InitHolds DEF IInv
<1>2. /\ changes = 0 /\ fullpath = <<>> /\ stack = <<>> /\ walk = "none" /\ visited = <<>> /\ steady = {}
      /\ count = [k \in Kinds \cup {"dir"} |-> 0] /\ Depth = 0
  BY DEF Init, WalkInit, Depth
<1>3. Tree(disk)
  BY ShellAssumption DEF Init
<1>4. ToSet(<<>>) = {} /\ DOMAIN <<>> = {} /\ <<>> \in Seq(Seq(Symbol))
  BY DEF ToSet
<1>5. Taken /\ Once /\ Begun /\ Kept
  BY <1>2, <1>3, <1>4 DEF Taken, Once, CountedOnce, Begun, Kept
<1>6. Counted
  <2>1. IsFiniteSet({}) /\ Cardinality({}) = 0
    BY FS_EmptySet
  <2>2. \A k \in Kinds : {q \in {} : disk[q] = k} = {}
    OBVIOUS
  <2> QED
    BY <1>2, <1>4, <2>1, <2>2 DEF Counted
<1>7. Seen
  BY <1>2, <1>4 DEF Seen
<1> QED
  BY <1>1, <1>2, <1>5, <1>6, <1>7 DEF WInv, Whole

LEMMA NextWhole == WInv /\ [Next]_vars => WInv'
<1> SUFFICES ASSUME WInv, [Next]_vars PROVE WInv'
  OBVIOUS
<1>1. CASE UNCHANGED <<files, walking>>
  BY <1>1, StayWhole
<1>2. CASE dopath \/ sigpipe \/ Change
  BY <1>2, StepWhole
<1>3. CASE invoke_output /\ UNCHANGED files /\ ~UNCHANGED walking
  <2>1. IsWalk(concat_command) /\ myftw(concat_command[2][1])
    BY <1>3 DEF invoke_output
  <2>2. PICK r \in Roots : concat_command = <<<<Program>>, <<r>>>>
    BY <2>1 DEF IsWalk
  <2>3. concat_command[2][1] = r /\ r \in STRING
    BY <2>2, ShellAssumption
  <2> QED
    BY <2>1, <2>3, BeginWhole
<1>4. CASE fork_fails /\ UNCHANGED files
  BY <1>1, <1>4 DEF fork_fails
<1> QED
  BY <1>1, <1>2, <1>3, <1>4 DEF Next, Sh, Blocked, Finished, vars

-----------------------------------------------------------------------------
LEMMA WInvWhole == ASSUME WInv PROVE WalkedWhole
<1> DEFINE all == Below(<<Root>>)
           V   == ToSet(visited)
<1>1. CountedOnce
  BY DEF WInv, Whole, Once
<1>2. ASSUME walk = "ended" PROVE steady \subseteq V
  <2>1. stack = <<>> /\ Depth = 0
    BY <1>2, EmptySeq DEF WInv, Whole, Begun, Depth
  <2>2. \A r : ~ToCome(r)
    BY <1>2, <2>1 DEF ToCome, ToComeHere
  <2> QED
    BY <1>2, <2>2 DEF WInv, Whole, Kept
<1>3. ASSUME changes = 0, walk \in {"ended", "failed"} PROVE steady = all /\ V \subseteq all
  BY <1>3 DEF WInv, Whole, Seen
<1>4. ASSUME changes = 0, walk = "ended" PROVE V = all
  BY <1>2, <1>3, <1>4
<1>5. ASSUME changes = 0, walk \in {"ended", "failed"}
      PROVE  (walk = "ended") = /\ all # {}
                                /\ \A q \in all : disk[q] \in Dirs => disk[q] = "dir" /\ Len(q) <= MaxOpen
  <2>1. CASE walk = "ended"
    <3>1. V = all
      BY <1>4, <1>5, <2>1
    <3>2. \A q \in V : disk[q] \in Dirs => Openable(q)
      BY <1>5, <2>1 DEF WInv, Whole, Seen
    <3>3. V # {}
      <4>1. visited # <<>> /\ visited \in Seq(Seq(Symbol))
        BY <2>1 DEF WInv, Whole, Begun, Once
      <4>2. 1 \in DOMAIN visited
        BY <4>1, EmptySeq, LenProperties
      <4> QED
        BY <4>2 DEF ToSet
    <3> QED
      BY <2>1, <3>1, <3>2, <3>3 DEF Openable
  <2>2. CASE walk = "failed"
    <3>1. steady = {} \/ \E r \in steady : disk[r] \in Dirs /\ ~Openable(r)
      BY <1>5, <2>2 DEF WInv, Whole, Seen
    <3> QED
      BY <1>3, <1>5, <2>2, <3>1 DEF Openable
  <2> QED
    BY <1>5, <2>1, <2>2
<1>6. ASSUME changes = 0, walk = "ended"
      PROVE  \A k \in Kinds : count[k] = Cardinality({q \in all : disk[q] = k})
  BY <1>4, <1>6 DEF WInv, Whole, Counted
<1> QED
  BY <1>1, <1>2, <1>5, <1>6 DEF WalkedWhole

(* Whatever files come and go while dopath goes down and back, what is      *)
(* there all the time is counted once when the walk ends well (a file that  *)
(* is removed and made anew may be counted again); where nothing changes,   *)
(* it ends well exactly when every directory can be opened, or SIGPIPE      *)
(* kills it, and the counters of nreg to nsock are the numbers of files.    *)
THEOREM WalkCounts == Spec => []WalkedWhole
<1>1. Spec => []WInv
  BY InitWhole, NextWhole, PTL DEF Spec
<1> QED
  BY <1>1, WInvWhole, PTL
=============================================================================
