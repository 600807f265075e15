-------------------------- MODULE AssemblerProofs ---------------------------
(***************************************************************************)
(* Proofs about Assembler, for every set of well-formed programs: the two  *)
(* passes agree on every address, and what is written is what the program  *)
(* means.                                                                  *)
(***************************************************************************)
EXTENDS Assembler, SequenceTheorems, FiniteSetTheorems, WellFoundedInduction, TLAPS

Key   == UserSymbol \cup {Predefined[i] : i \in 1 .. NPredefined} \cup {""}
Entry == [key : Key, address : Nat]
ACode == {AInstruction(n) : n \in Nat}
CCode == [kind : {"C"}, dest : SUBSET {"A", "D", "M"}, comp : Comps, jump : Jumps \cup {""}]
Code  == ACode \cup CCode

-----------------------------------------------------------------------------
(* The inductive invariant                                                 *)

Entered == 22 .. symbol_count - 1

(* The lines the second pass has read, all of them once it is over.         *)
Done == IF pass = 1 THEN 0 ELSE at - 1

Ranges ==
  /\ source \in Sources
  /\ pass \in 1 .. 3 /\ at \in 1 .. Len(source) + 1 /\ (pass = 3 => AtEnd)
  /\ symbols \in [0 .. BUFFER - 1 -> Entry]
  /\ symbol_count \in Nat /\ 22 <= symbol_count
  /\ line_count \in 0 .. Len(source)
  /\ out \in Seq(Code)

(* The table: the predefined symbols, then symbols of the program, each     *)
(* once.                                                                   *)
Table ==
  /\ \A i \in 0 .. 21 : symbols[i] = [key |-> Predefined[i + 1], address |-> PredefinedAddress(i + 1)]
  /\ \A k \in Entered : symbols[k].key \in UserSymbol \cap SymbolsOf(source)
  /\ \A k, l \in Entered : symbols[k].key = symbols[l].key => k = l

(* The labels read so far have the address of what follows them; in the     *)
(* first pass nothing else is in the table.                                *)
LabelsEntered ==
  /\ \A i \in DOMAIN source :
       (pass # 1 \/ i < at) /\ source[i].kind = "label" =>
         \E k \in Entered : symbols[k] = [key |-> source[i].sym, address |-> RomAddress(source, i)]
  /\ pass = 1 =>
       /\ \A k \in Entered : \E i \in 1 .. at - 1 : source[i] = label(symbols[k].key)
       /\ line_count = RomAddress(source, at)

(* The variables used so far have the address their first use gave them.    *)
VariablesEntered ==
  /\ label_address = 16 + Cardinality(VariablesBefore(source, Done + 1))
  /\ \A i \in 1 .. Done : IsVariable(source, i) => \E k \in Entered : symbols[k].key = source[i].sym
  /\ \A k \in Entered : symbols[k].key \notin Labels(source) =>
       \E f \in 1 .. Done :
         /\ source[f] = at_symbol(symbols[k].key)
         /\ \A j \in 1 .. f - 1 : source[j] # at_symbol(symbols[k].key)
         /\ symbols[k].address = 16 + Cardinality(VariablesBefore(source, f))

(* The lines read so far are written where the first pass counted them.     *)
Written ==
  /\ Len(out) = RomAddress(source, Done + 1)
  /\ \A i \in 1 .. Done : Placed(source, i, out)
  /\ Done > 0 /\ source[Done].kind \in {"label", "blank"} => output = Empty

IInv == Ranges /\ Table /\ LabelsEntered /\ VariablesEntered /\ Written
-----------------------------------------------------------------------------
(* Lines and programs                                                      *)

AllWellFormed == \A src \in Sources : WellFormed(src)

LEMMA LineFields ==
  ASSUME NEW l \in ProgramLine
  PROVE  /\ l.kind \in {"blank", "label", "symbol", "number", "compute"}
         /\ l.kind = "blank" => l = blank
         /\ l.kind = "label" => l.sym \in UserSymbol /\ l = label(l.sym)
         /\ l.kind = "symbol" => l.sym \in UserSymbol \cup Known /\ l = at_symbol(l.sym)
         /\ l.kind = "number" => l.num \in 0 .. MaxNumber
         /\ l.kind = "compute" => /\ l.dest \in SUBSET {"A", "D", "M"} /\ l.comp \in Comps
                                  /\ l.jump \in Jumps \cup {""}
  <1>1. l = blank => l.kind = "blank"
    BY DEF blank
  <1>2. l \in LabelLine => l.kind = "label" /\ l.sym \in UserSymbol /\ l = label(l.sym)
    BY DEF LabelLine, label
  <1>3. l \in SymbolLine => l.kind = "symbol" /\ l.sym \in UserSymbol \cup Known /\ l = at_symbol(l.sym)
    BY DEF SymbolLine, at_symbol
  <1>4. l \in NumberLine => l.kind = "number" /\ l.num \in 0 .. MaxNumber
    BY DEF NumberLine
  <1>5. l \in ComputeLine => /\ l.kind = "compute" /\ l.dest \in SUBSET {"A", "D", "M"}
                             /\ l.comp \in Comps /\ l.jump \in Jumps \cup {""}
    BY DEF ComputeLine
  <1>6. l = blank \/ l \in LabelLine \/ l \in SymbolLine \/ l \in NumberLine \/ l \in ComputeLine
    BY DEF ProgramLine
  <1>7. CASE l = blank
    BY <1>1, <1>7
  <1>8. CASE l \in LabelLine
    BY <1>2, <1>8
  <1>9. CASE l \in SymbolLine
    BY <1>3, <1>9
  <1>10. CASE l \in NumberLine
    BY <1>4, <1>10
  <1>11. CASE l \in ComputeLine
    BY <1>5, <1>11
  <1> QED
    BY <1>6, <1>7, <1>8, <1>9, <1>10, <1>11

LEMMA Kinds ==
  /\ blank.kind = "blank"
  /\ \A s : label(s).kind = "label" /\ label(s).sym = s
  /\ \A s : at_symbol(s).kind = "symbol" /\ at_symbol(s).sym = s
  BY DEF blank, label, at_symbol

LEMMA Programs ==
  ASSUME AllWellFormed, NEW src \in Sources
  PROVE  /\ src \in Seq(ProgramLine) /\ Len(src) \in Nat /\ Len(src) <= MaxNumber /\ DOMAIN src = 1 .. Len(src)
         /\ \A i \in 1 .. Len(src) : src[i] \in ProgramLine
         /\ \A i, j \in 1 .. Len(src) : src[i].kind = "label" /\ src[i] = src[j] => i = j
         /\ \A i \in 1 .. Len(src) : src[i].kind = "blank" => i > 1 /\ src[i - 1].kind \in {"label", "blank"}
  <1>1. src \in Seq(ProgramLine) /\ Len(src) <= MaxNumber
    BY DEF AllWellFormed, WellFormed
  <1>2. Len(src) \in Nat /\ DOMAIN src = 1 .. Len(src) /\ \A i \in 1 .. Len(src) : src[i] \in ProgramLine
    BY <1>1, LenProperties, ElementOfSeq
  <1>3. \A i, j \in 1 .. Len(src) : src[i].kind = "label" /\ src[i] = src[j] => i = j
    BY <1>2 DEF AllWellFormed, WellFormed
  <1>4. \A i \in 1 .. Len(src) : src[i].kind = "blank" => i > 1 /\ src[i - 1].kind \in {"label", "blank"}
    BY <1>2, LineFields DEF AllWellFormed, WellFormed
  <1> QED
    BY <1>1, <1>2, <1>3, <1>4

(* The address of a line counts the instructions before it.                 *)
LEMMA RomSteps ==
  ASSUME NEW src
  PROVE  /\ RomAddress(src, 1) = 0
         /\ \A i \in Nat : i >= 1 =>
              /\ RomAddress(src, i) \in 0 .. i - 1
              /\ RomAddress(src, i + 1) = IF IsInstruction(src[i]) THEN RomAddress(src, i) + 1
                                                                   ELSE RomAddress(src, i)
  <1> DEFINE J(i) == {j \in 1 .. i - 1 : IsInstruction(src[j])}
  <1>1. J(1) = {}
    OBVIOUS
  <1>2. ASSUME NEW i \in Nat, i >= 1
        PROVE  /\ IsFiniteSet(J(i)) /\ Cardinality(J(i)) \in 0 .. i - 1 /\ i \notin J(i)
               /\ J(i + 1) = IF IsInstruction(src[i]) THEN J(i) \cup {i} ELSE J(i)
    <2>1. J(i) \in SUBSET (1 .. i - 1)
      OBVIOUS
    <2>2. IsFiniteSet(1 .. i - 1) /\ Cardinality(1 .. i - 1) = i - 1
      BY <1>2, FS_Interval
    <2>3. IsFiniteSet(J(i)) /\ Cardinality(J(i)) <= i - 1
      BY <2>1, <2>2, FS_Subset
    <2>4. Cardinality(J(i)) \in Nat
      BY <2>3, FS_CardinalityType
    <2>5. 1 .. (i + 1) - 1 = (1 .. i - 1) \cup {i} /\ i \notin 1 .. i - 1
      BY <1>2
    <2>6. J(i + 1) = IF IsInstruction(src[i]) THEN J(i) \cup {i} ELSE J(i)
      BY <2>5
    <2> QED
      BY <1>2, <2>3, <2>4, <2>5, <2>6
  <1>3. \A i : RomAddress(src, i) = Cardinality(J(i))
    BY DEF RomAddress
  <1> HIDE DEF J
  <1>4. ASSUME NEW i \in Nat, i >= 1
        PROVE  Cardinality(J(i + 1)) = IF IsInstruction(src[i]) THEN Cardinality(J(i)) + 1
                                                                ELSE Cardinality(J(i))
    BY <1>2, <1>4, FS_AddElement
  <1> QED
    BY <1>1, <1>2, <1>3, <1>4, FS_EmptySet

(* The variables used before a line, and their number, grow by first uses.  *)
LEMMA VariableSteps ==
  ASSUME AllWellFormed, NEW src \in Sources
  PROVE  /\ IsFiniteSet(SymbolsOf(src))
         /\ VariablesBefore(src, 1) = {}
         /\ \A i \in 1 .. Len(src) :
              VariablesBefore(src, i + 1) = IF IsVariable(src, i) THEN VariablesBefore(src, i) \cup {src[i].sym}
                                                                  ELSE VariablesBefore(src, i)
         /\ \A i \in 1 .. Len(src) + 1 :
              /\ VariablesBefore(src, i) \subseteq SymbolsOf(src) /\ IsFiniteSet(VariablesBefore(src, i))
              /\ Cardinality(VariablesBefore(src, i)) \in 0 .. Cardinality(SymbolsOf(src))
              /\ Cardinality(VariablesBefore(src, i)) <= Len(src)
  <1> DEFINE n == Len(src)
             V(i) == VariablesBefore(src, i)
  <1>1. n \in Nat /\ DOMAIN src = 1 .. n
    BY Programs
  <1>2. IsFiniteSet(SymbolsOf(src)) /\ Cardinality(SymbolsOf(src)) <= n
    <2> DEFINE D == {j \in DOMAIN src : src[j].kind \in {"label", "symbol"}}
               f == [i \in D |-> src[i].sym]
    <2>1. IsFiniteSet(1 .. n) /\ Cardinality(1 .. n) = n /\ D \in SUBSET (1 .. n)
      <3>1. D \in SUBSET (1 .. n)
        BY <1>1
      <3> HIDE DEF n, D
      <3>2. IsFiniteSet(1 .. n) /\ Cardinality(1 .. n) = IF 1 > n THEN 0 ELSE n - 1 + 1
        BY <1>1, FS_Interval
      <3> QED
        BY <1>1, <3>1, <3>2
    <2>2. IsFiniteSet(D) /\ Cardinality(D) <= n
      BY <2>1, FS_Subset
    <2>3. f \in Surjection(D, SymbolsOf(src))
      BY DEF Surjection, SymbolsOf
    <2>4. IsFiniteSet(SymbolsOf(src)) /\ Cardinality(SymbolsOf(src)) <= Cardinality(D)
      BY <2>2, <2>3, FS_Surjection
    <2>5. Cardinality(D) \in Nat /\ Cardinality(SymbolsOf(src)) \in Nat
      BY <2>2, <2>4, FS_CardinalityType
    <2> HIDE DEF D
    <2> QED
      BY <1>1, <2>2, <2>4, <2>5
  <1>3. V(1) = {}
    BY DEF VariablesBefore
  <1>4. ASSUME NEW i \in 1 .. n
        PROVE  V(i + 1) = IF IsVariable(src, i) THEN V(i) \cup {src[i].sym} ELSE V(i)
    <2>1. 1 .. (i + 1) - 1 = (1 .. i - 1) \cup {i}
      BY <1>1
    <2> QED
      BY <2>1 DEF VariablesBefore
  <1>5. ASSUME NEW i \in 1 .. n + 1
        PROVE  /\ V(i) \subseteq SymbolsOf(src) /\ IsFiniteSet(V(i))
               /\ Cardinality(V(i)) \in 0 .. Cardinality(SymbolsOf(src)) /\ Cardinality(V(i)) <= n
    <2>1. 1 .. i - 1 \subseteq DOMAIN src
      BY <1>1
    <2>2. V(i) \subseteq SymbolsOf(src)
      BY <2>1 DEF VariablesBefore, IsVariable, SymbolsOf
    <2>3. IsFiniteSet(V(i)) /\ Cardinality(V(i)) <= Cardinality(SymbolsOf(src))
      BY <1>2, <2>2, FS_Subset
    <2>4. Cardinality(V(i)) \in Nat /\ Cardinality(SymbolsOf(src)) \in Nat
      BY <1>2, <2>3, FS_CardinalityType
    <2> HIDE DEF V
    <2> QED
      BY <1>1, <1>2, <2>2, <2>3, <2>4
  <1> QED
    BY <1>2, <1>3, <1>4, <1>5

(* Of two first uses the later has the larger number of variables before it.*)
LEMMA VariablesRise ==
  ASSUME AllWellFormed, NEW src \in Sources, NEW f \in 1 .. Len(src), NEW g \in 1 .. Len(src) + 1,
         f < g, IsVariable(src, f), \A j \in 1 .. f - 1 : src[j] # src[f]
  PROVE  Cardinality(VariablesBefore(src, f)) < Cardinality(VariablesBefore(src, g))
  <1> DEFINE V(i) == VariablesBefore(src, i)
             s == src[f].sym
  <1>1. Len(src) \in Nat /\ \A i \in 1 .. Len(src) : src[i] \in ProgramLine
    BY Programs
  <1>2. 1 .. f - 1 \subseteq 1 .. g - 1 /\ f \in 1 .. g - 1 /\ f \in 1 .. Len(src) + 1
        /\ 1 .. f - 1 \subseteq 1 .. Len(src)
    BY <1>1
  <1>3. V(f) \subseteq V(g) /\ s \in V(g)
    BY <1>2 DEF VariablesBefore
  <1>4. s \notin V(f)
    <2> SUFFICES ASSUME NEW j \in 1 .. f - 1, IsVariable(src, j), src[j].sym = s PROVE FALSE
      BY DEF VariablesBefore
    <2>1. src[j] \in ProgramLine /\ src[f] \in ProgramLine
      BY <1>1, <1>2
    <2>2. src[j] = at_symbol(src[j].sym) /\ src[f] = at_symbol(s)
      BY <2>1, LineFields DEF IsVariable
    <2> QED
      BY <2>2
  <1>5. IsFiniteSet(V(g)) /\ IsFiniteSet(V(f)) /\ Cardinality(V(f)) \in Nat /\ Cardinality(V(g)) \in Nat
    BY <1>2, VariableSteps, FS_CardinalityType
  <1>6. Cardinality(V(f)) <= Cardinality(V(g)) /\ (Cardinality(V(f)) = Cardinality(V(g)) => V(f) = V(g))
    BY <1>3, <1>5, FS_Subset
  <1> HIDE DEF V
  <1>7. Cardinality(V(f)) < Cardinality(V(g))
    BY <1>3, <1>4, <1>5, <1>6
  <1> QED
    BY <1>7 DEF V

(* No symbol is predefined twice.                                           *)
LEMMA PredefinedOnce ==
  /\ NPredefined = 23
  /\ \A i, j \in 1 .. 23 : Predefined[i] = Predefined[j] => i = j
  /\ \A i \in 1 .. 23 : PredefinedAddress(i) \in 0 .. MaxNumber /\ Predefined[i] \notin UserSymbol
  <1>1. NPredefined = 23
    BY DEF NPredefined, Predefined
  <1>2. \A i, j \in 1 .. 23 : Predefined[i] = Predefined[j] => i = j
    BY DEF Predefined
  <1>3. \A i \in 1 .. 23 : PredefinedAddress(i) \in 0 .. MaxNumber
    <2> SUFFICES ASSUME NEW i \in 1 .. 23 PROVE PredefinedAddress(i) \in 0 .. MaxNumber
      OBVIOUS
    <2> DEFINE address == PredefinedAddress(i)
    <2>1. address \in {i - 1, i - 6, 16384, 24576} /\ (i <= 5 => address = i - 1) /\ (~(i <= 5) => address # i - 1)
      BY DEF PredefinedAddress
    <2>2. MaxNumber \in Nat /\ 24576 <= MaxNumber
      BY DEF MaxNumber
    <2> HIDE DEF address
    <2>3. address \in Nat /\ address <= 24576
      BY <2>1
    <2> QED
      BY ONLY <2>2, <2>3 DEF address
  <1>4. \A i \in 1 .. 23 : Predefined[i] \notin UserSymbol
    BY <1>1, SymbolAssumption
  <1> QED
    BY <1>1, <1>2, <1>3, <1>4
-----------------------------------------------------------------------------
(* The symbol table                                                        *)

(* Every symbol of the program fits: each takes one entry.                  *)
LEMMA TableRoom ==
  ASSUME AllWellFormed, Ranges, Table
  PROVE  /\ symbol_count <= 22 + Cardinality(SymbolsOf(source)) /\ symbol_count <= BUFFER
         /\ \A s \in SymbolsOf(source) :
              (\A k \in Entered : symbols[k].key # s) => symbol_count < BUFFER
  <1> DEFINE S == SymbolsOf(source)
             f == [k \in Entered |-> symbols[k].key]
             c == symbol_count
             m == Cardinality(S)
  <1>1. /\ source \in Sources /\ c \in Nat /\ 22 <= c /\ IsFiniteSet(S) /\ m \in Nat
        /\ BUFFER \in Nat /\ 22 + m <= BUFFER
    BY VariableSteps, FS_CardinalityType, AssemblerAssumption DEF Ranges
  <1>2. IsFiniteSet(Entered) /\ Cardinality(Entered) = c - 22
    <2>1. c - 1 \in Int /\ 22 \in Int /\ (22 > c - 1 <=> c = 22) /\ (c - 1) - 22 + 1 = c - 22
      BY <1>1
    <2> QED
      BY <2>1, FS_Interval, SMTT(40) DEF Entered
  <1>3. ASSUME NEW T, T \subseteq S, IsFiniteSet(T), \A k \in Entered : symbols[k].key \in T
        PROVE  c - 22 <= Cardinality(T)
    <2>1. f \in Injection(Entered, T)
      BY <1>3 DEF Table, Injection, IsInjective
    <2> QED
      BY <1>2, <1>3, <2>1, FS_Injection
  <1>4. c - 22 <= m
    BY <1>1, <1>3 DEF Table
  <1>5. ASSUME NEW s \in S, \A k \in Entered : symbols[k].key # s
        PROVE  c < BUFFER
    <2>1. IsFiniteSet(S \ {s}) /\ Cardinality(S \ {s}) = m - 1
      BY <1>1, FS_RemoveElement
    <2>2. \A k \in Entered : symbols[k].key \in S \ {s}
      BY <1>5 DEF Table
    <2>3. c - 22 <= m - 1
      BY <1>3, <2>1, <2>2
    <2> QED
      BY <1>1, <2>3
  <1> QED
    BY <1>1, <1>4, <1>5

(* A new symbol of the program takes the next entry and disturbs no other.  *)
LEMMA EnterSafe ==
  ASSUME AllWellFormed, Ranges, Table, NEW s \in UserSymbol \cap SymbolsOf(source), NEW a \in Nat,
         \A k \in Entered : symbols[k].key # s, Enter(s, a), source' = source
  PROVE  /\ symbols' \in [0 .. BUFFER - 1 -> Entry]
         /\ symbol_count' \in Nat /\ 22 <= symbol_count'
         /\ Entered' = Entered \cup {symbol_count} /\ symbol_count \notin Entered
         /\ symbols'[symbol_count] = [key |-> s, address |-> a]
         /\ \A k \in Entered : symbols'[k] = symbols[k]
         /\ Table'
  <1> DEFINE c == symbol_count
             e == [key |-> s, address |-> a]
  <1>1. /\ c \in Nat /\ 22 <= c /\ c < BUFFER /\ BUFFER \in Nat
        /\ symbols \in [0 .. BUFFER - 1 -> Entry]
    BY TableRoom, AssemblerAssumption DEF Ranges
  <1>2. e \in Entry /\ e.key = s
    BY DEF Entry, Key
  <1>3. symbols' = [symbols EXCEPT ![c] = e] /\ symbol_count' = c + 1
    BY DEF Enter
  <1>4. c \in 0 .. BUFFER - 1 /\ \A k \in 0 .. c - 1 : k \in 0 .. BUFFER - 1 /\ k # c
    BY <1>1
  <1> HIDE DEF e
  <1>5. /\ symbols' \in [0 .. BUFFER - 1 -> Entry] /\ symbols'[c] = e
        /\ \A k \in 0 .. c - 1 : symbols'[k] = symbols[k]
    BY <1>1, <1>2, <1>3, <1>4
  <1>6. /\ Entered' = Entered \cup {c} /\ c \notin Entered /\ Entered \subseteq 0 .. c - 1
        /\ 0 .. 21 \subseteq 0 .. c - 1 /\ c + 1 \in Nat /\ 22 <= c + 1
    BY <1>1, <1>3 DEF Entered
  <1>7. Table'
    <2>1. \A i \in 0 .. 21 : symbols'[i] = [key |-> Predefined[i + 1], address |-> PredefinedAddress(i + 1)]
      BY <1>5, <1>6 DEF Table
    <2>2. \A k \in Entered' : symbols'[k].key \in UserSymbol \cap SymbolsOf(source)
      BY <1>2, <1>5, <1>6 DEF Table
    <2>3. ASSUME NEW k \in Entered', NEW l \in Entered', symbols'[k].key = symbols'[l].key
          PROVE  k = l
      <3>1. symbols'[c].key = s /\ \A j \in Entered : symbols'[j].key = symbols[j].key /\ symbols[j].key # s
        BY <1>2, <1>5, <1>6
      <3>2. k \in Entered \cup {c} /\ l \in Entered \cup {c}
        BY <1>6
      <3> QED
        BY <2>3, <3>1, <3>2 DEF Table
    <2> QED
      BY <2>1, <2>2, <2>3 DEF Table
  <1> QED
    BY <1>3, <1>5, <1>6, <1>7 DEF e

(* The search of the table: a symbol of the program is found at its entry,  *)
(* a predefined one at its place, and one that was never entered nowhere.   *)
LEMMA Search ==
  ASSUME AllWellFormed, Ranges, Table
  PROVE  /\ \A k \in Entered : Entries(symbols[k].key) = {k} /\ First(Entries(symbols[k].key)) = k
         /\ \A i \in 1 .. 22 : Entries(Predefined[i]) = {i - 1} /\ First(Entries(Predefined[i])) = i - 1
         /\ \A s \in UserSymbol : (\A k \in Entered : symbols[k].key # s) => Entries(s) = {}
  <1> DEFINE c == symbol_count
  <1>1. c \in Nat /\ 22 <= c
    BY DEF Ranges
  <1>2. 0 .. c - 1 = (0 .. 21) \cup Entered /\ \A k \in Entered : k \in Int /\ k \notin 0 .. 21
    BY <1>1 DEF Entered
  <1>3. \A i \in 0 .. 21 : /\ symbols[i].key = Predefined[i + 1] /\ i + 1 \in 1 .. 23 /\ (i + 1) - 1 = i
                           /\ symbols[i].key \notin UserSymbol
    BY PredefinedOnce DEF Table
  <1>4. \A k \in Entered : symbols[k].key \in UserSymbol
    BY DEF Table
  <1>5. \A k \in Int : First({k}) = k
    BY DEF First
  <1>6. ASSUME NEW k \in Entered PROVE Entries(symbols[k].key) = {k}
    BY <1>2, <1>3, <1>4 DEF Entries, Table
  <1>7. ASSUME NEW i \in 1 .. 22 PROVE Entries(Predefined[i]) = {i - 1}
    <2>1. i - 1 \in 0 .. 21 /\ i \in 1 .. 23
      OBVIOUS
    <2>2. \A j \in 0 .. 21 : Predefined[j + 1] = Predefined[i] <=> j = i - 1
      BY <1>3, <2>1, PredefinedOnce
    <2>3. Predefined[i] \notin UserSymbol
      BY <2>1, PredefinedOnce
    <2> QED
      BY <1>2, <1>3, <1>4, <2>1, <2>2, <2>3 DEF Entries
  <1>8. ASSUME NEW s \in UserSymbol, \A k \in Entered : symbols[k].key # s PROVE Entries(s) = {}
    BY <1>2, <1>3, <1>8 DEF Entries
  <1>9. \A k \in Entered : First(Entries(symbols[k].key)) = k
    BY <1>2, <1>5, <1>6
  <1>10. \A i \in 1 .. 22 : First(Entries(Predefined[i])) = i - 1
    BY <1>5, <1>7
  <1> QED
    BY <1>6, <1>7, <1>8, <1>9, <1>10
-----------------------------------------------------------------------------
(* The first pass                                                          *)

LEMMA Position ==
  ASSUME AllWellFormed, Ranges
  PROVE  /\ Len(source) \in Nat /\ DOMAIN source = 1 .. Len(source)
         /\ AtEnd => at = Len(source) + 1
         /\ ~AtEnd => at \in 1 .. Len(source) /\ at + 1 \in 1 .. Len(source) + 1 /\ Line \in ProgramLine
  <1>1. Len(source) \in Nat /\ DOMAIN source = 1 .. Len(source) /\ at \in 1 .. Len(source) + 1
        /\ \A i \in 1 .. Len(source) : source[i] \in ProgramLine
    BY Programs DEF Ranges
  <1> QED
    BY <1>1 DEF AtEnd, Line

LEMMA InitIInv == AllWellFormed /\ Init => IInv
  <1> SUFFICES ASSUME AllWellFormed, Init PROVE IInv
    OBVIOUS
  <1>1. source \in Sources /\ Len(source) \in Nat
    BY Programs DEF Init
  <1>2. BUFFER \in Nat /\ BUFFER >= 23 /\ NPredefined = 23
    BY AssemblerAssumption, PredefinedOnce
  <1> DEFINE e(i) == [key |-> Predefined[i + 1], address |-> PredefinedAddress(i + 1)]
             free == [key |-> "", address |-> 0]
  <1>3. symbols = [i \in 0 .. BUFFER - 1 |-> IF i < 23 THEN e(i) ELSE free]
    BY <1>2 DEF Init
  <1>4. /\ symbol_count = 22 /\ pass = 1 /\ at = 1 /\ line_count = 0 /\ label_address = 16
        /\ out = <<>>
    BY DEF Init
  <1>5. \A i \in 0 .. 22 : /\ i \in 0 .. BUFFER - 1 /\ i < 23 /\ i + 1 \in 1 .. 23
    BY <1>2
  <1>6. \A i \in 0 .. BUFFER - 1 : i < 23 => e(i) \in Entry
    <2>1. \A i \in 0 .. BUFFER - 1 : i < 23 => i + 1 \in 1 .. 23
      BY <1>2
    <2>2. \A i \in 1 .. 23 : Predefined[i] \in Key
      BY <1>2 DEF Key
    <2>5. MaxNumber \in Nat
      BY DEF MaxNumber
    <2>3. \A x \in 0 .. MaxNumber : x \in Nat
      BY <2>5
    <2>4. \A i \in 1 .. 23 : PredefinedAddress(i) \in Nat
      BY <2>3, PredefinedOnce
    <2> QED
      BY <2>1, <2>2, <2>4 DEF Entry
  <1>7. free \in Entry
    BY DEF Entry, Key
  <1> HIDE DEF e, free
  <1>8. symbols \in [0 .. BUFFER - 1 -> Entry] /\ \A i \in 0 .. 21 : symbols[i] = e(i)
    BY <1>3, <1>5, <1>6, <1>7, SMTT(40)
  <1>9. Ranges
    BY <1>1, <1>4, <1>8, EmptySeq, SMTT(40) DEF Ranges
  <1>10. Entered = {} /\ Done = 0 /\ 1 .. 0 = {} /\ Done + 1 = 1
    BY <1>4 DEF Entered, Done
  <1>11. Table
    BY <1>8, <1>10 DEF Table, e
  <1>12. LabelsEntered
    <2>1. \A i \in DOMAIN source : ~(i < 1)
      BY <1>1, Programs
    <2> QED
      BY <1>4, <1>10, <2>1, RomSteps DEF LabelsEntered
  <1>13. VariablesEntered
    <2>1. Cardinality(VariablesBefore(source, 1)) = 0
      BY <1>1, VariableSteps, FS_EmptySet
    <2> QED
      BY <1>4, <1>10, <2>1 DEF VariablesEntered
  <1>14. Written
    BY <1>4, <1>10, RomSteps, EmptySeq DEF Written
  <1> QED
    BY <1>9, <1>11, <1>12, <1>13, <1>14 DEF IInv

(* One line of the first pass: the count moves on over an instruction, and  *)
(* a label is entered with it.                                             *)
LEMMA ParseLabelSafe ==
  ASSUME AllWellFormed, IInv, parse_label
  PROVE  IInv'
  <1> DEFINE n == Len(source)
             s == Line.sym
             c == symbol_count
  <1>1. /\ pass = 1 /\ ~AtEnd /\ at' = at + 1 /\ source \in Sources
        /\ UNCHANGED <<source, pass, label_address, output, out>>
    BY DEF parse_label, IInv, Ranges
  <1>2. /\ n \in Nat /\ DOMAIN source = 1 .. n /\ at \in 1 .. n /\ at + 1 \in 1 .. n + 1
        /\ at \in Nat /\ at >= 1 /\ Line \in ProgramLine /\ source[at] = Line
    BY <1>1, Position DEF IInv, Line
  <1>3. /\ RomAddress(source, at) \in 0 .. at - 1
        /\ RomAddress(source, at + 1) = IF IsInstruction(Line) THEN RomAddress(source, at) + 1
                                                               ELSE RomAddress(source, at)
    BY <1>2, RomSteps
  <1>4. \A i \in 1 .. n : i < at + 1 => i < at \/ i = at
    BY <1>2
  <1>5. Done = 0 /\ Done' = 0 /\ 1 .. 0 = {}
    BY <1>1 DEF Done
  <1>6. Ranges' /\ Table' /\ LabelsEntered'
    <2>1. CASE Line.kind = "label"
      <3>1. ~IsInstruction(Line) /\ Enter(s, line_count) /\ line_count' = line_count
        BY <2>1 DEF IsInstruction, parse_label
      <3>2. s \in UserSymbol \cap SymbolsOf(source) /\ Line = label(s)
        BY <1>2, <2>1, LineFields DEF SymbolsOf
      <3>3. \A k \in Entered : symbols[k].key # s
        <4> SUFFICES ASSUME NEW k \in Entered, symbols[k].key = s PROVE FALSE
          OBVIOUS
        <4>1. PICK i \in 1 .. at - 1 : source[i] = label(s)
          BY <1>1 DEF IInv, LabelsEntered
        <4>2. i \in 1 .. n /\ i # at
          BY <1>2
        <4> QED
          BY <1>1, <1>2, <2>1, <3>2, <4>1, <4>2, Programs
      <3>4. line_count \in Nat /\ line_count = RomAddress(source, at)
        BY <1>1, <1>3 DEF IInv, LabelsEntered
      <3>5. /\ symbols' \in [0 .. BUFFER - 1 -> Entry]
            /\ symbol_count' \in Nat /\ 22 <= symbol_count'
            /\ Entered' = Entered \cup {c} /\ c \notin Entered
            /\ symbols'[c] = [key |-> s, address |-> line_count]
            /\ \A k \in Entered : symbols'[k] = symbols[k]
            /\ Table'
        BY <1>1, <3>1, <3>2, <3>3, <3>4, EnterSafe DEF IInv
      <3>6. Ranges'
        BY <1>1, <1>2, <3>1, <3>5 DEF IInv, Ranges
      <3>7. ASSUME NEW i \in DOMAIN source, i < at + 1, source[i].kind = "label"
            PROVE  \E k \in Entered' : symbols'[k] = [key |-> source[i].sym, address |-> RomAddress(source, i)]
        <4>1. CASE i = at
          BY <1>2, <3>4, <3>5, <4>1
        <4>2. CASE i < at
          <5>1. PICK k \in Entered : symbols[k] = [key |-> source[i].sym, address |-> RomAddress(source, i)]
            BY <3>7, <4>2 DEF IInv, LabelsEntered
          <5> QED
            BY <3>5, <5>1
        <4> QED
          BY <1>2, <1>4, <3>7, <4>1, <4>2
      <3>8. ASSUME NEW k \in Entered'
            PROVE  \E i \in 1 .. at : source[i] = label(symbols'[k].key)
        <4>1. CASE k = c
          BY <1>2, <3>2, <3>5, <4>1
        <4>2. CASE k \in Entered
          <5>1. PICK i \in 1 .. at - 1 : source[i] = label(symbols[k].key)
            BY <1>1, <4>2 DEF IInv, LabelsEntered
          <5>2. i \in 1 .. at
            BY <1>2
          <5> QED
            BY <3>5, <4>2, <5>1, <5>2
        <4> QED
          BY <3>5, <3>8, <4>1, <4>2
      <3>9. (at + 1) - 1 = at
        BY <1>2
      <3>10. LabelsEntered'
        BY <1>1, <1>3, <3>1, <3>4, <3>7, <3>8, <3>9 DEF LabelsEntered
      <3> QED
        BY <3>5, <3>6, <3>10
    <2>2. CASE Line.kind # "label"
      <3>1. /\ UNCHANGED <<symbols, symbol_count>>
            /\ line_count' = IF IsInstruction(Line) THEN line_count + 1 ELSE line_count
        BY <2>2 DEF parse_label, IsInstruction
      <3>2. Entered' = Entered /\ line_count = RomAddress(source, at)
        BY <1>1, <3>1 DEF Entered, IInv, LabelsEntered
      <3>3. line_count' = RomAddress(source, at + 1) /\ line_count' \in 0 .. n
        BY <1>2, <1>3, <3>1, <3>2
      <3>4. Ranges'
        BY <1>1, <1>2, <3>1, <3>3 DEF IInv, Ranges
      <3>5. Table'
        BY <1>1, <3>1, <3>2 DEF IInv, Table
      <3>6. \A k \in Entered : \E i \in 1 .. at : source[i] = label(symbols[k].key)
        <4>1. 1 .. at - 1 \subseteq 1 .. at
          BY <1>2
        <4> QED
          BY <1>1, <4>1 DEF IInv, LabelsEntered
      <3>7. (at + 1) - 1 = at
        BY <1>2
      <3>8. \A i \in DOMAIN source : i < at + 1 /\ source[i].kind = "label" => i < at
        BY <1>2, <1>4, <2>2
      <3>9. \A i \in DOMAIN source : i < at + 1 /\ source[i].kind = "label" =>
              \E k \in Entered : symbols[k] = [key |-> source[i].sym, address |-> RomAddress(source, i)]
        BY <3>8 DEF IInv, LabelsEntered
      <3>10. LabelsEntered'
        BY <1>1, <3>1, <3>2, <3>3, <3>6, <3>7, <3>9 DEF LabelsEntered
      <3> QED
        BY <3>4, <3>5, <3>10
    <2> QED
      BY <2>1, <2>2
  <1>7. \A k \in Entered' : symbols'[k].key \in Labels(source)
    <2> SUFFICES ASSUME NEW k \in Entered' PROVE symbols'[k].key \in Labels(source)
      OBVIOUS
    <2>1. (at + 1) - 1 = at /\ 1 .. at \subseteq DOMAIN source
      BY <1>2
    <2>2. PICK i \in DOMAIN source : source[i] = label(symbols'[k].key)
      BY <1>1, <1>6, <2>1 DEF LabelsEntered
    <2> QED
      BY <2>2, Kinds DEF Labels
  <1>8. VariablesEntered'
    BY <1>1, <1>5, <1>7 DEF IInv, VariablesEntered
  <1>9. Written'
    BY <1>1, <1>5 DEF IInv, Written
  <1> QED
    BY <1>6, <1>8, <1>9 DEF IInv

(* The second pass begins with every label in the table.                    *)
LEMMA RewindSafe ==
  ASSUME AllWellFormed, IInv, Rewind
  PROVE  IInv'
  <1>1. /\ pass = 1 /\ AtEnd /\ pass' = 2 /\ at' = 1 /\ at = Len(source) + 1 /\ Len(source) \in Nat
        /\ UNCHANGED <<source, symbols, symbol_count, line_count, label_address, output, out>>
    BY Position DEF Rewind, IInv
  <1>2. Done = 0 /\ Done' = 0 /\ Entered' = Entered
    BY <1>1 DEF Done, Entered
  <1>3. Ranges'
    BY <1>1 DEF IInv, Ranges
  <1>4. Table'
    BY <1>1, <1>2 DEF IInv, Table
  <1>5. \A i \in DOMAIN source : i < at
    BY <1>1, Position DEF IInv
  <1>6. LabelsEntered'
    BY <1>1, <1>2, <1>5 DEF IInv, LabelsEntered
  <1>7. VariablesEntered'
    BY <1>1, <1>2 DEF IInv, VariablesEntered
  <1>8. Written'
    BY <1>1, <1>2 DEF IInv, Written
  <1> QED
    BY <1>3, <1>4, <1>6, <1>7, <1>8 DEF IInv

LEMMA CloseSafe ==
  ASSUME AllWellFormed, IInv, Close
  PROVE  IInv'
  <1>1. /\ pass = 2 /\ AtEnd /\ pass' = 3 /\ AtEnd'
        /\ UNCHANGED <<source, at, symbols, symbol_count, line_count, label_address, output, out>>
    BY DEF Close, AtEnd
  <1>2. Done' = Done /\ Entered' = Entered
    BY <1>1 DEF Done, Entered
  <1>3. Ranges'
    BY <1>1 DEF IInv, Ranges
  <1>4. Table'
    BY <1>1, <1>2 DEF IInv, Table
  <1>5. LabelsEntered'
    BY <1>1, <1>2 DEF IInv, LabelsEntered
  <1>6. VariablesEntered'
    BY <1>1, <1>2 DEF IInv, VariablesEntered
  <1>7. Written'
    BY <1>1, <1>2 DEF IInv, Written
  <1> QED
    BY <1>3, <1>4, <1>5, <1>6, <1>7 DEF IInv
-----------------------------------------------------------------------------
(* The second pass                                                         *)

LEMMA WordSize ==
  /\ MaxNumber \in Nat
  /\ \A x \in 0 .. MaxNumber + 16 : x \in Nat /\ x % 65536 = x
  BY DEF MaxNumber

LEMMA CodeWords ==
  /\ \A x \in 0 .. MaxNumber + 16 : parse_bin(x) = AInstruction(x) /\ AInstruction(x) \in Code
  /\ \A w \in Code : w # Empty
  <1>1. \A x : parse_bin(x) = AInstruction(x % 65536)
    BY DEF parse_bin
  <1>2. \A x \in 0 .. MaxNumber + 16 : parse_bin(x) = AInstruction(x)
    BY <1>1, WordSize
  <1>3. \A x \in 0 .. MaxNumber + 16 : AInstruction(x) \in ACode
    BY WordSize DEF ACode
  <1>4. \A w \in ACode : w.kind = "A"
    BY DEF ACode, AInstruction
  <1>5. \A w \in CCode : w.kind = "C"
    BY DEF CCode
  <1>6. Empty.kind = "empty"
    BY DEF Empty
  <1> QED
    BY <1>2, <1>3, <1>4, <1>5, <1>6 DEF Code

(* An entry of the table holds what the program means by its key.           *)
LEMMA EntryMeaning ==
  ASSUME AllWellFormed, IInv, pass # 1, NEW k \in Entered
  PROVE  /\ symbols[k].address = Meaning(source, symbols[k].key)
         /\ symbols[k].address \in 0 .. MaxNumber + 16
  <1> DEFINE s == symbols[k].key
             n == Len(source)
  <1>1. /\ source \in Sources /\ n \in Nat /\ n <= MaxNumber /\ DOMAIN source = 1 .. n
        /\ \A i \in 1 .. n : source[i] \in ProgramLine
        /\ at \in 1 .. n + 1 /\ MaxNumber \in Nat /\ s \in UserSymbol
    <2>1. source \in Sources /\ at \in 1 .. n + 1 /\ s \in UserSymbol
      BY DEF IInv, Ranges, Table
    <2> QED
      BY <2>1, Programs, WordSize
  <1>2. CASE s \in Labels(source)
    <2>1. PICK i \in DOMAIN source : source[i].kind = "label" /\ source[i].sym = s
      BY <1>2 DEF Labels
    <2>2. source[i] = label(s) /\ i \in 1 .. n /\ i \in Nat /\ i >= 1
      <3>1. source[i] \in ProgramLine /\ i \in 1 .. n
        BY <1>1
      <3>2. source[i] = label(s)
        BY <2>1, <3>1, LineFields
      <3> HIDE DEF n, s
      <3> QED
        BY <1>1, <3>1, <3>2
    <2>3. PICK l \in Entered : symbols[l] = [key |-> s, address |-> RomAddress(source, i)]
      BY <2>1 DEF IInv, LabelsEntered
    <2>4. l = k /\ symbols[k].address = RomAddress(source, i)
      BY <2>3 DEF IInv, Table
    <2>5. \A j \in DOMAIN source : source[j] = label(s) => j = i
      BY <1>1, <2>1, <2>2, Programs
    <2>6. (CHOOSE j \in DOMAIN source : source[j] = label(s)) = i
      BY <1>1, <2>2, <2>5
    <2>7. RomAddress(source, i) \in 0 .. i - 1
      BY <2>2, RomSteps
    <2>8. symbols[k].address \in 0 .. MaxNumber + 16
      BY <1>1, <2>2, <2>4, <2>7
    <2> QED
      BY <1>2, <2>4, <2>6, <2>8 DEF Meaning
  <1>3. CASE s \notin Labels(source)
    <2>1. PICK f \in 1 .. Done : /\ source[f] = at_symbol(s)
                                 /\ \A j \in 1 .. f - 1 : source[j] # at_symbol(s)
                                 /\ symbols[k].address = 16 + Cardinality(VariablesBefore(source, f))
      BY <1>3 DEF IInv, VariablesEntered
    <2>2. f \in 1 .. n /\ f \in 1 .. n + 1
      BY <1>1 DEF Done
    <2>3. FirstUse(source, s) = f
      <3>1. \A i \in DOMAIN source :
              source[i] = at_symbol(s) /\ (\A j \in 1 .. i - 1 : source[j] # at_symbol(s)) => i = f
        BY <1>1, <2>1, <2>2
      <3> QED
        BY <1>1, <2>1, <2>2, <3>1 DEF FirstUse
    <2>4. Cardinality(VariablesBefore(source, f)) \in 0 .. n
      BY <1>1, <2>2, VariableSteps
    <2>5. symbols[k].address \in 0 .. MaxNumber + 16
      BY <1>1, <2>1, <2>4
    <2> QED
      BY <1>1, <1>3, <2>1, <2>3, <2>5 DEF Meaning
  <1> QED
    BY <1>2, <1>3

LEMMA KnownMeaning ==
  ASSUME AllWellFormed, IInv, NEW i \in 1 .. 22
  PROVE  /\ symbols[i - 1].address = Meaning(source, Predefined[i])
         /\ symbols[i - 1].address \in 0 .. MaxNumber + 16
  <1>1. i - 1 \in 0 .. 21 /\ (i - 1) + 1 = i /\ i \in 1 .. 23
    OBVIOUS
  <1>2. symbols[i - 1].address = PredefinedAddress(i) /\ PredefinedAddress(i) \in 0 .. MaxNumber
    BY <1>1, PredefinedOnce DEF IInv, Table
  <1>3. Predefined[i] \notin UserSymbol
    BY <1>1, PredefinedOnce
  <1>4. Labels(source) \subseteq UserSymbol
    <2> SUFFICES ASSUME NEW j \in DOMAIN source, source[j].kind = "label" PROVE source[j].sym \in UserSymbol
      BY DEF Labels
    <2>1. source[j] \in ProgramLine
      BY Programs DEF IInv, Ranges
    <2> QED
      BY <2>1, LineFields
  <1>5. (CHOOSE j \in 1 .. NPredefined : Predefined[j] = Predefined[i]) = i
    BY <1>1, PredefinedOnce
  <1>6. Meaning(source, Predefined[i]) = PredefinedAddress(i)
    BY <1>3, <1>4, <1>5 DEF Meaning
  <1>7. PredefinedAddress(i) \in 0 .. MaxNumber + 16
    BY <1>2, WordSize
  <1> QED
    BY <1>2, <1>6, <1>7

(* A symbol that is looked up in vain is a variable, used here first.       *)
LEMMA NewVariable ==
  ASSUME AllWellFormed, IInv, pass = 2, ~AtEnd, Line.kind = "symbol", Entries(Line.sym) = {}
  PROVE  /\ Line.sym \in UserSymbol \cap SymbolsOf(source) /\ IsVariable(source, at)
         /\ source[at] = at_symbol(Line.sym)
         /\ \A k \in Entered : symbols[k].key # Line.sym
         /\ \A j \in 1 .. at - 1 : source[j] # at_symbol(Line.sym)
         /\ label_address = Meaning(source, Line.sym)
         /\ label_address = 16 + Cardinality(VariablesBefore(source, at))
         /\ label_address \in 0 .. MaxNumber + 16
  <1> DEFINE s == Line.sym
             n == Len(source)
  <1>1. /\ source \in Sources /\ n \in Nat /\ n <= MaxNumber /\ DOMAIN source = 1 .. n
        /\ \A i \in 1 .. n : source[i] \in ProgramLine
        /\ at \in 1 .. n /\ MaxNumber \in Nat /\ at \in 1 .. n + 1
        /\ Done = at - 1 /\ (at - 1) + 1 = at
    BY Programs, Position, WordSize DEF IInv, Ranges, Done
  <1>2. Line = source[at] /\ source[at] = at_symbol(s) /\ s \in UserSymbol \cup Known
    BY <1>1, LineFields DEF Line
  <1>3. s \in UserSymbol
    <2> SUFFICES ASSUME s \in Known PROVE FALSE
      BY <1>2
    <2>1. PICK i \in 1 .. 22 : s = Predefined[i]
      BY PredefinedOnce DEF Known
    <2> QED
      BY <2>1, Search DEF IInv
  <1>4. \A k \in Entered : symbols[k].key # s
    BY Search DEF IInv
  <1>5. s \notin Labels(source)
    <2> SUFFICES ASSUME NEW i \in DOMAIN source, source[i].kind = "label", source[i].sym = s PROVE FALSE
      BY DEF Labels
    <2>1. PICK k \in Entered : symbols[k] = [key |-> s, address |-> RomAddress(source, i)]
      BY DEF IInv, LabelsEntered
    <2> QED
      BY <1>4, <2>1
  <1>6. IsVariable(source, at) /\ s \in SymbolsOf(source)
    BY <1>1, <1>2, <1>3, <1>5 DEF IsVariable, SymbolsOf
  <1>7. ASSUME NEW j \in 1 .. at - 1, source[j] = at_symbol(s) PROVE FALSE
    <2>1. IsVariable(source, j) /\ source[j].sym = s
      BY <1>3, <1>5, <1>7, Kinds DEF IsVariable
    <2>2. PICK k \in Entered : symbols[k].key = s
      BY <1>1, <2>1 DEF IInv, VariablesEntered
    <2> QED
      BY <1>4, <2>2
  <1>8. FirstUse(source, s) = at
    <2>1. \A i \in DOMAIN source :
            source[i] = at_symbol(s) /\ (\A j \in 1 .. i - 1 : source[j] # at_symbol(s)) => i = at
      <3> SUFFICES ASSUME NEW i \in 1 .. n, source[i] = at_symbol(s),
                          \A j \in 1 .. i - 1 : source[j] # at_symbol(s)
                   PROVE  i = at
        BY <1>1
      <3>1. i \notin 1 .. at - 1
        BY <1>7
      <3>2. at \notin 1 .. i - 1
        BY <1>2
      <3> HIDE DEF n
      <3> QED
        BY <1>1, <3>1, <3>2
    <2> QED
      BY <1>1, <1>2, <1>7, <2>1 DEF FirstUse
  <1>9. label_address = 16 + Cardinality(VariablesBefore(source, at))
    BY <1>1 DEF IInv, VariablesEntered
  <1>10. Cardinality(VariablesBefore(source, at)) \in 0 .. n
    BY <1>1, VariableSteps
  <1>11. label_address \in 0 .. MaxNumber + 16
    BY <1>1, <1>9, <1>10
  <1>12. Meaning(source, s) = 16 + Cardinality(VariablesBefore(source, at))
    BY <1>3, <1>5, <1>8 DEF Meaning
  <1> QED
    BY <1>2, <1>3, <1>4, <1>6, <1>7, <1>9, <1>11, <1>12

(* A line that reads the table and does not change it.                      *)
LEMMA KeepsTable ==
  ASSUME AllWellFormed, IInv, pass = 2, ~AtEnd, UNCHANGED <<source, pass, symbols, symbol_count, label_address>>,
         at' = at + 1,
         IsVariable(source, at) => \E k \in Entered : symbols[k].key = Line.sym
  PROVE  Table' /\ LabelsEntered' /\ VariablesEntered'
  <1>1. /\ source \in Sources /\ at \in 1 .. Len(source) /\ Len(source) \in Nat /\ Entered' = Entered
        /\ Done = at - 1 /\ Done' = at /\ (at - 1) + 1 = at /\ Line = source[at]
        /\ DOMAIN source = 1 .. Len(source)
    BY Position DEF IInv, Ranges, Done, Entered, Line
  <1>2. Table'
    BY <1>1 DEF IInv, Table
  <1>3. LabelsEntered'
    BY <1>1 DEF IInv, LabelsEntered
  <1>4. VariablesBefore(source, at + 1) = VariablesBefore(source, at)
    <2>1. CASE ~IsVariable(source, at)
      BY <1>1, <2>1, VariableSteps
    <2>2. CASE IsVariable(source, at)
      <3>1. PICK k \in Entered : symbols[k].key = Line.sym
        BY <2>2
      <3>2. symbols[k].key \notin Labels(source)
        BY <1>1, <2>2, <3>1 DEF IsVariable
      <3>3. PICK f \in 1 .. at - 1 : source[f] = at_symbol(Line.sym)
        BY <1>1, <3>1, <3>2 DEF IInv, VariablesEntered
      <3>4. IsVariable(source, f) /\ source[f].sym = Line.sym
        BY <1>1, <2>2, <3>3, Kinds DEF IsVariable
      <3>5. Line.sym \in VariablesBefore(source, at)
        BY <3>4 DEF VariablesBefore
      <3> QED
        BY <1>1, <2>2, <3>5, VariableSteps
    <2> QED
      BY <2>1, <2>2
  <1>5. 1 .. at = (1 .. at - 1) \cup {at}
    BY <1>1
  <1>6. \A i \in 1 .. at : IsVariable(source, i) => \E k \in Entered : symbols[k].key = source[i].sym
    BY <1>1, <1>5 DEF IInv, VariablesEntered
  <1>7. \A k \in Entered : symbols[k].key \notin Labels(source) =>
          \E f \in 1 .. at :
            /\ source[f] = at_symbol(symbols[k].key)
            /\ \A j \in 1 .. f - 1 : source[j] # at_symbol(symbols[k].key)
            /\ symbols[k].address = 16 + Cardinality(VariablesBefore(source, f))
    BY <1>1, <1>5 DEF IInv, VariablesEntered
  <1>8. label_address = 16 + Cardinality(VariablesBefore(source, at + 1))
    BY <1>1, <1>4 DEF IInv, VariablesEntered
  <1>9. VariablesEntered'
    BY <1>1, <1>6, <1>7, <1>8 DEF VariablesEntered
  <1> QED
    BY <1>2, <1>3, <1>9

(* A line that enters a variable: the next one gets the next address.       *)
LEMMA EntersVariable ==
  ASSUME AllWellFormed, IInv, pass = 2, ~AtEnd, UNCHANGED <<source, pass>>, at' = at + 1,
         Line.kind = "symbol", Entries(Line.sym) = {},
         Enter(Line.sym, label_address), label_address' = label_address + 1
  PROVE  /\ Table' /\ LabelsEntered' /\ VariablesEntered'
         /\ symbols' \in [0 .. BUFFER - 1 -> Entry] /\ symbol_count' \in Nat /\ 22 <= symbol_count'
  <1> DEFINE s == Line.sym
             c == symbol_count
             v == Cardinality(VariablesBefore(source, at))
  <1>1. /\ source \in Sources /\ at \in 1 .. Len(source) /\ Len(source) \in Nat
        /\ Done = at - 1 /\ Done' = at /\ (at - 1) + 1 = at /\ Line = source[at]
        /\ DOMAIN source = 1 .. Len(source) /\ at \in 1 .. Len(source) + 1
    BY Position DEF IInv, Ranges, Done, Line
  <1>2. /\ s \in UserSymbol \cap SymbolsOf(source) /\ IsVariable(source, at)
        /\ source[at] = at_symbol(s)
        /\ \A k \in Entered : symbols[k].key # s
        /\ \A j \in 1 .. at - 1 : source[j] # at_symbol(s)
        /\ label_address = 16 + v /\ label_address \in Nat
    BY NewVariable, WordSize
  <1>3. /\ symbols' \in [0 .. BUFFER - 1 -> Entry]
        /\ symbol_count' \in Nat /\ 22 <= symbol_count'
        /\ Entered' = Entered \cup {c} /\ c \notin Entered
        /\ symbols'[c] = [key |-> s, address |-> label_address]
        /\ \A k \in Entered : symbols'[k] = symbols[k]
        /\ Table'
    BY <1>2, EnterSafe DEF IInv
  <1>4. LabelsEntered'
    BY <1>1, <1>3 DEF IInv, LabelsEntered
  <1>5. Cardinality(VariablesBefore(source, at + 1)) = v + 1
    <2>1. VariablesBefore(source, at + 1) = VariablesBefore(source, at) \cup {s}
      BY <1>1, <1>2, VariableSteps
    <2>2. s \notin VariablesBefore(source, at)
      <3> SUFFICES ASSUME NEW j \in 1 .. at - 1, IsVariable(source, j), source[j].sym = s PROVE FALSE
        BY DEF VariablesBefore
      <3>1. source[j] \in ProgramLine
        BY <1>1, Programs
      <3>2. source[j] = at_symbol(s)
        BY <3>1, LineFields DEF IsVariable
      <3> QED
        BY <1>2, <3>2
    <2>3. IsFiniteSet(VariablesBefore(source, at))
      BY <1>1, VariableSteps
    <2> QED
      BY <2>1, <2>2, <2>3, FS_AddElement
  <1>6. label_address' = 16 + Cardinality(VariablesBefore(source, at + 1))
    <2>1. v \in Nat
      BY <1>1, VariableSteps, FS_CardinalityType
    <2> HIDE DEF v
    <2> QED
      BY <1>2, <1>5, <2>1
  <1>7. 1 .. at = (1 .. at - 1) \cup {at}
    BY <1>1
  <1>8. ASSUME NEW i \in 1 .. at, IsVariable(source, i)
        PROVE  \E k \in Entered' : symbols'[k].key = source[i].sym
    <2>1. CASE i = at
      BY <1>1, <1>3, <2>1
    <2>2. CASE i \in 1 .. at - 1
      <3>1. PICK k \in Entered : symbols[k].key = source[i].sym
        BY <1>1, <1>8, <2>2 DEF IInv, VariablesEntered
      <3> QED
        BY <1>3, <3>1
    <2> QED
      BY <1>7, <2>1, <2>2
  <1>9. ASSUME NEW k \in Entered', symbols'[k].key \notin Labels(source)
        PROVE  \E f \in 1 .. at :
                 /\ source[f] = at_symbol(symbols'[k].key)
                 /\ \A j \in 1 .. f - 1 : source[j] # at_symbol(symbols'[k].key)
                 /\ symbols'[k].address = 16 + Cardinality(VariablesBefore(source, f))
    <2>1. CASE k = c
      <3>1. at \in 1 .. at /\ symbols'[k].key = s /\ symbols'[k].address = 16 + v
        BY <1>1, <1>2, <1>3, <2>1, SMTT(40)
      <3> QED
        BY <1>2, <3>1
    <2>2. CASE k \in Entered
      <3>1. PICK f \in 1 .. at - 1 :
              /\ source[f] = at_symbol(symbols[k].key)
              /\ \A j \in 1 .. f - 1 : source[j] # at_symbol(symbols[k].key)
              /\ symbols[k].address = 16 + Cardinality(VariablesBefore(source, f))
        BY <1>1, <1>3, <1>9, <2>2 DEF IInv, VariablesEntered
      <3>2. f \in 1 .. at
        BY <1>7
      <3> QED
        BY <1>3, <2>2, <3>1, <3>2
    <2> QED
      BY <1>3, <2>1, <2>2
  <1>10. VariablesEntered'
    BY <1>1, <1>6, <1>8, <1>9 DEF VariablesEntered
  <1> QED
    BY <1>3, <1>4, <1>10
(* What is written for a line is appended where the first pass counted it.  *)
LEMMA WriteSafe ==
  ASSUME AllWellFormed, IInv, pass = 2, ~AtEnd, UNCHANGED <<source, pass>>, at' = at + 1,
         IF IsInstruction(Line) THEN output' = Instruction(source, at) /\ output' \in Code
                                ELSE output' = Empty,
         out' = IF output' = Empty THEN out ELSE Append(out, output')
  PROVE  Written' /\ out' \in Seq(Code)
  <1>1. /\ source \in Sources /\ at \in 1 .. Len(source) /\ Len(source) \in Nat
        /\ Done = at - 1 /\ Done' = at /\ (at - 1) + 1 = at /\ Line = source[at]
        /\ out \in Seq(Code) /\ at \in Nat /\ at >= 1
    BY Position DEF IInv, Ranges, Done, Line
  <1>2. /\ Len(out) = RomAddress(source, at) /\ Len(out) \in Nat
        /\ RomAddress(source, at + 1) = IF IsInstruction(Line) THEN Len(out) + 1 ELSE Len(out)
    BY <1>1, RomSteps, LenProperties DEF IInv, Written
  <1>3. 1 .. at = (1 .. at - 1) \cup {at}
    BY <1>1
  <1>4. CASE IsInstruction(Line)
    <2>1. output' # Empty
      BY <1>4, CodeWords
    <2>2. /\ out' \in Seq(Code) /\ Len(out') = Len(out) + 1 /\ out'[Len(out) + 1] = Instruction(source, at)
          /\ \A i \in 1 .. Len(out) : out'[i] = out[i]
      BY <1>1, <1>4, <2>1, AppendProperties
    <2>3. \A i \in 1 .. at - 1 : Placed(source, i, out')
      <3> SUFFICES ASSUME NEW i \in 1 .. at - 1, IsInstruction(source[i])
                   PROVE  /\ RomAddress(source, i) < Len(out')
                          /\ out'[RomAddress(source, i) + 1] = Instruction(source, i)
        BY DEF Placed
      <3>1. RomAddress(source, i) < Len(out) /\ out[RomAddress(source, i) + 1] = Instruction(source, i)
        BY <1>1 DEF IInv, Written, Placed
      <3>2. RomAddress(source, i) \in 0 .. i - 1
        BY <1>1, RomSteps
      <3>3. RomAddress(source, i) + 1 \in 1 .. Len(out) /\ RomAddress(source, i) < Len(out) + 1
        BY <1>2, <3>1, <3>2
      <3> QED
        BY <2>2, <3>1, <3>3
    <2>4. Placed(source, at, out')
      BY <1>2, <2>2 DEF Placed
    <2>5. Line.kind \notin {"label", "blank"}
      BY <1>4 DEF IsInstruction
    <2>6. Written'
      BY <1>1, <1>2, <1>3, <1>4, <2>2, <2>3, <2>4, <2>5 DEF Written
    <2> QED
      BY <2>2, <2>6
  <1>5. CASE ~IsInstruction(Line)
    <2>1. out' = out /\ output' = Empty
      BY <1>5
    <2>2. Placed(source, at, out)
      BY <1>1, <1>5 DEF Placed
    <2>3. \A i \in 1 .. at : Placed(source, i, out)
      BY <1>1, <1>3, <2>2 DEF IInv, Written
    <2>4. Written'
      BY <1>1, <1>2, <1>5, <2>1, <2>3 DEF Written
    <2> QED
      BY <1>1, <2>1, <2>4
  <1> QED
    BY <1>4, <1>5

LEMMA TranslateSafe ==
  ASSUME AllWellFormed, IInv, Translate
  PROVE  IInv'
  <1>1. /\ pass = 2 /\ ~AtEnd /\ parser /\ at' = at + 1 /\ UNCHANGED <<source, pass, line_count>>
        /\ out' = IF output' = Empty THEN out ELSE Append(out, output')
    BY DEF Translate
  <1>2. /\ source \in Sources /\ at \in 1 .. Len(source) /\ Len(source) \in Nat /\ Line = source[at]
        /\ Line \in ProgramLine /\ at + 1 \in 1 .. Len(source) + 1 /\ Done = at - 1
    BY <1>1, Position DEF IInv, Ranges, Done, Line
  <1> DEFINE Same == UNCHANGED <<symbols, symbol_count, label_address>>
  <1>3. ASSUME Same, IsVariable(source, at) => \E k \in Entered : symbols[k].key = Line.sym,
               IF IsInstruction(Line) THEN output' = Instruction(source, at) /\ output' \in Code
                                      ELSE output' = Empty
        PROVE  IInv'
    <2>1. Table' /\ LabelsEntered' /\ VariablesEntered'
      BY <1>1, <1>3, KeepsTable
    <2>2. Written' /\ out' \in Seq(Code)
      BY <1>1, <1>3, WriteSafe
    <2>3. Ranges'
      BY <1>1, <1>2, <1>3, <2>2 DEF IInv, Ranges
    <2> QED
      BY <2>1, <2>2, <2>3 DEF IInv
  <1>4. CASE Line.kind = "blank"
    <2>1. Same /\ output' = output
      BY <1>1, <1>4 DEF parser, parse_a_command, parse_c_command
    <2>2. at > 1 /\ source[at - 1].kind \in {"label", "blank"}
      BY <1>2, <1>4, Programs
    <2>3. output = Empty
      <3>1. at - 1 > 0
        BY <1>2, <2>2
      <3> QED
        BY <1>2, <2>2, <3>1 DEF IInv, Written
    <2>4. ~IsInstruction(Line) /\ ~IsVariable(source, at)
      BY <1>2, <1>4 DEF IsInstruction, IsVariable
    <2> QED
      BY <1>3, <2>1, <2>3, <2>4
  <1>5. CASE Line.kind = "label"
    <2>1. Same /\ output' = Empty
      BY <1>1, <1>5 DEF parser, parse_a_command, parse_c_command
    <2>2. ~IsInstruction(Line) /\ ~IsVariable(source, at)
      BY <1>2, <1>5 DEF IsInstruction, IsVariable
    <2> QED
      BY <1>3, <2>1, <2>2
  <1>6. CASE Line.kind = "number"
    <2>1. Same /\ output' = parse_bin(Line.num)
      BY <1>1, <1>6 DEF parser, parse_a_command, parse_c_command
    <2>2. Line.num \in 0 .. MaxNumber + 16
      <3>1. Line.num \in 0 .. MaxNumber
        BY <1>2, <1>6, LineFields
      <3> QED
        BY <3>1, WordSize
    <2>3. output' = AInstruction(Line.num) /\ output' \in Code
      BY <2>1, <2>2, CodeWords
    <2>4. IsInstruction(Line) /\ ~IsVariable(source, at) /\ Instruction(source, at) = AInstruction(Line.num)
      BY <1>2, <1>6 DEF IsInstruction, IsVariable, Instruction
    <2> QED
      BY <1>3, <2>1, <2>3, <2>4
  <1>7. CASE Line.kind = "compute"
    <2>1. Same /\ output' = CInstruction(Line.dest, parse_comp(Line.comp), parse_jump(Line.jump))
      BY <1>1, <1>7 DEF parser, parse_a_command, parse_c_command
    <2>2. Line.dest \in SUBSET {"A", "D", "M"} /\ Line.comp \in Comps /\ Line.jump \in Jumps \cup {""}
      BY <1>2, <1>7, LineFields
    <2>3. parse_comp(Line.comp) = Line.comp /\ parse_jump(Line.jump) = Line.jump
      BY <2>2 DEF parse_comp, parse_jump
    <2>4. output' = CInstruction(Line.dest, Line.comp, Line.jump) /\ output' \in Code
      BY <2>1, <2>2, <2>3 DEF CInstruction, CCode, Code
    <2>5. /\ IsInstruction(Line) /\ ~IsVariable(source, at)
          /\ Instruction(source, at) = CInstruction(Line.dest, Line.comp, Line.jump)
      BY <1>2, <1>7 DEF IsInstruction, IsVariable, Instruction
    <2> QED
      BY <1>3, <2>1, <2>4, <2>5
  <1>8. CASE Line.kind = "symbol"
    <2> DEFINE s == Line.sym
    <2>1. IsInstruction(Line) /\ Instruction(source, at) = AInstruction(Meaning(source, s))
      BY <1>2, <1>8 DEF IsInstruction, Instruction
    <2>2. s \in UserSymbol \cup Known /\ Line = at_symbol(s)
      BY <1>2, <1>8, LineFields
    <2>3. CASE Entries(s) # {}
      <3>1. Same /\ output' = parse_bin(symbols[First(Entries(s))].address)
        BY <1>1, <1>8, <2>3 DEF parser, parse_a_command, parse_c_command
      <3>2. CASE s \in UserSymbol
        <4>1. PICK k \in Entered : symbols[k].key = s
          BY <2>3, <3>2, Search DEF IInv
        <4>2. First(Entries(s)) = k
          BY <4>1, Search DEF IInv
        <4>3. symbols[k].address = Meaning(source, s) /\ symbols[k].address \in 0 .. MaxNumber + 16
          BY <1>1, <4>1, EntryMeaning
        <4>4. output' = AInstruction(Meaning(source, s)) /\ output' \in Code
          BY <3>1, <4>2, <4>3, CodeWords
        <4> QED
          BY <1>3, <2>1, <3>1, <4>1, <4>4
      <3>3. CASE s \in Known
        <4>1. PICK i \in 1 .. 22 : s = Predefined[i]
          BY <3>3, PredefinedOnce DEF Known
        <4>2. First(Entries(s)) = i - 1
          BY <4>1, Search DEF IInv
        <4>3. symbols[i - 1].address = Meaning(source, s) /\ symbols[i - 1].address \in 0 .. MaxNumber + 16
          BY <4>1, KnownMeaning
        <4>4. output' = AInstruction(Meaning(source, s)) /\ output' \in Code
          BY <3>1, <4>2, <4>3, CodeWords
        <4>5. ~IsVariable(source, at)
          <5>1. s \notin UserSymbol
            BY <4>1, PredefinedOnce
          <5> QED
            BY <1>2, <5>1 DEF IsVariable
        <4> QED
          BY <1>3, <2>1, <3>1, <4>4, <4>5
      <3> QED
        BY <2>2, <3>2, <3>3
    <2>4. CASE Entries(s) = {}
      <3>1. Enter(s, label_address) /\ label_address' = label_address + 1 /\ output' = parse_bin(label_address)
        BY <1>1, <1>8, <2>4 DEF parser, parse_a_command, parse_c_command
      <3>2. label_address = Meaning(source, s) /\ label_address \in 0 .. MaxNumber + 16
        BY <1>1, <1>8, <2>4, NewVariable
      <3>3. output' = AInstruction(Meaning(source, s)) /\ output' \in Code
        BY <3>1, <3>2, CodeWords
      <3>4. /\ Table' /\ LabelsEntered' /\ VariablesEntered'
            /\ symbols' \in [0 .. BUFFER - 1 -> Entry] /\ symbol_count' \in Nat /\ 22 <= symbol_count'
        BY <1>1, <1>8, <2>4, <3>1, EntersVariable
      <3>5. Written' /\ out' \in Seq(Code)
        BY <1>1, <2>1, <3>3, WriteSafe
      <3>6. Ranges'
        BY <1>1, <1>2, <3>4, <3>5 DEF IInv, Ranges
      <3> QED
        BY <3>4, <3>5, <3>6 DEF IInv
    <2> QED
      BY <2>3, <2>4
  <1> QED
    BY <1>2, <1>4, <1>5, <1>6, <1>7, <1>8, LineFields

LEMMA NextIInv == AllWellFormed /\ IInv /\ [Next]_vars => IInv'
  <1> SUFFICES ASSUME AllWellFormed, IInv, [Next]_vars PROVE IInv'
    OBVIOUS
  <1>1. CASE UNCHANGED vars
    <2>1. Done' = Done /\ Entered' = Entered /\ AtEnd' = AtEnd
      BY <1>1 DEF vars, Done, Entered, AtEnd
    <2>2. Ranges'
      BY <1>1, <2>1 DEF IInv, Ranges, vars
    <2>3. Table'
      BY <1>1, <2>1 DEF IInv, Table, vars
    <2>4. LabelsEntered'
      BY <1>1, <2>1 DEF IInv, LabelsEntered, vars
    <2>5. VariablesEntered'
      BY <1>1, <2>1 DEF IInv, VariablesEntered, vars
    <2>6. Written'
      BY <1>1, <2>1 DEF IInv, Written, vars
    <2> QED
      BY <2>2, <2>3, <2>4, <2>5, <2>6 DEF IInv
  <1>2. CASE Next
    BY <1>2, ParseLabelSafe, RewindSafe, TranslateSafe, CloseSafe DEF Next
  <1> QED
    BY <1>1, <1>2

LEMMA InductiveInvariant ==
  ASSUME AllWellFormed
  PROVE  Spec => []IInv
  <1>1. Init => IInv
    BY InitIInv
  <1>2. IInv /\ [Next]_vars => IInv'
    BY NextIInv
  <1> QED
    BY <1>1, <1>2, PTL DEF Spec
-----------------------------------------------------------------------------
(* The theorems                                                            *)

(* A symbol that is not a label has one entry and one address from 16 on,   *)
(* however often and wherever it is used (assembler.c 207-216).             *)
THEOREM VariablesOnce ==
  ASSUME AllWellFormed
  PROVE  Spec => []VariablesApart
  <1>1. IInv => VariablesApart
    <2> SUFFICES ASSUME IInv PROVE VariablesApart
      OBVIOUS
    <2> DEFINE n == Len(source)
               N(f) == Cardinality(VariablesBefore(source, f))
               V == {i \in 22 .. symbol_count - 1 : symbols[i].key \notin Labels(source)}
               m == Cardinality(SymbolsOf(source))
    <2>1. /\ source \in Sources /\ n \in Nat /\ at \in 1 .. n + 1 /\ DOMAIN source = 1 .. n
          /\ Done \in 0 .. n /\ Done + 1 \in 1 .. n + 1
      <3>1. source \in Sources /\ at \in 1 .. n + 1 /\ n \in Nat /\ DOMAIN source = 1 .. n
        BY Position DEF IInv, Ranges
      <3> QED
        BY <3>1 DEF Done
    <2>2. \A f \in 1 .. n + 1 : N(f) \in 0 .. m /\ m \in Nat
      BY <2>1, VariableSteps, FS_CardinalityType
    <2>3. ASSUME NEW k \in V
          PROVE  \E f \in 1 .. Done :
                   /\ source[f] = at_symbol(symbols[k].key) /\ IsVariable(source, f)
                   /\ \A j \in 1 .. f - 1 : source[j] # source[f]
                   /\ symbols[k].address = 16 + N(f) /\ N(f) < N(Done + 1)
      <3>1. k \in Entered /\ symbols[k].key \in UserSymbol
        BY DEF Entered, IInv, Table
      <3>2. PICK f \in 1 .. Done : /\ source[f] = at_symbol(symbols[k].key)
                                   /\ \A j \in 1 .. f - 1 : source[j] # at_symbol(symbols[k].key)
                                   /\ symbols[k].address = 16 + N(f)
        BY <3>1 DEF IInv, VariablesEntered
      <3>3. IsVariable(source, f)
        BY <3>1, <3>2, Kinds DEF IsVariable
      <3>4. f \in 1 .. n /\ f < Done + 1
        BY <2>1
      <3>5. N(f) < N(Done + 1)
        BY <2>1, <3>2, <3>3, <3>4, VariablesRise
      <3> QED
        BY <3>2, <3>3, <3>5
    <2>4. label_address = 16 + N(Done + 1)
      BY DEF IInv, VariablesEntered
    <2>5. ASSUME NEW k \in V PROVE symbols[k].address \in 16 .. label_address - 1
      <3>1. PICK f \in 1 .. Done : symbols[k].address = 16 + N(f) /\ N(f) < N(Done + 1)
        BY <2>3
      <3>2. N(f) \in Nat /\ N(Done + 1) \in Nat
        BY <2>1, <2>2
      <3> HIDE DEF N
      <3> QED
        BY <2>4, <3>1, <3>2
    <2>6. ASSUME NEW k \in V, NEW l \in V, k # l
          PROVE  symbols[k].key # symbols[l].key /\ symbols[k].address # symbols[l].address
      <3>1. symbols[k].key # symbols[l].key
        BY <2>6 DEF IInv, Table, Entered
      <3>2. PICK f \in 1 .. Done : /\ source[f] = at_symbol(symbols[k].key) /\ IsVariable(source, f)
                                   /\ \A j \in 1 .. f - 1 : source[j] # source[f]
                                   /\ symbols[k].address = 16 + N(f)
        BY <2>3
      <3>3. PICK g \in 1 .. Done : /\ source[g] = at_symbol(symbols[l].key) /\ IsVariable(source, g)
                                   /\ \A j \in 1 .. g - 1 : source[j] # source[g]
                                   /\ symbols[l].address = 16 + N(g)
        BY <2>3
      <3>4. f # g
        BY <3>1, <3>2, <3>3, Kinds
      <3>5. f \in 1 .. n /\ g \in 1 .. n /\ f \in 1 .. n + 1 /\ g \in 1 .. n + 1 /\ (f < g \/ g < f)
        BY <2>1, <3>4
      <3>6. N(f) < N(g) \/ N(g) < N(f)
        BY <2>1, <3>2, <3>3, <3>5, VariablesRise
      <3>7. N(f) \in Nat /\ N(g) \in Nat
        BY <2>2, <3>5
      <3> HIDE DEF N
      <3> QED
        BY <3>1, <3>2, <3>3, <3>6, <3>7
    <2>7. TypeOK
      <3>1. symbol_count <= 22 + m
        BY TableRoom DEF IInv
      <3>2. symbol_count \in 22 .. 22 + m
        BY <2>1, <2>2, <3>1 DEF IInv, Ranges
      <3>3. label_address \in 16 .. 16 + m
        <4>1. N(Done + 1) \in 0 .. m /\ m \in Nat
          BY <2>1, <2>2
        <4> HIDE DEF N, m
        <4> QED
          BY <2>4, <4>1
      <3> QED
        BY <3>2, <3>3 DEF IInv, Ranges, TypeOK
    <2> QED
      BY <2>5, <2>6, <2>7 DEF VariablesApart
  <1> QED
    BY <1>1, InductiveInvariant, PTL

(* The address the first pass gave a label is that of the instruction the   *)
(* second pass writes behind it (assembler.c 91-99, 125).                   *)
THEOREM LabelsRight ==
  ASSUME AllWellFormed
  PROVE  Spec => []LabelsPointAtOutput
  <1>1. IInv => LabelsPointAtOutput
    <2> SUFFICES ASSUME IInv, pass = 2, ~AtEnd, Line.kind = "label"
                 PROVE  symbols[First(Entries(Line.sym))].address = Len(out)
      BY DEF LabelsPointAtOutput
    <2>1. /\ at \in 1 .. Len(source) /\ DOMAIN source = 1 .. Len(source) /\ Len(source) \in Nat
          /\ Line = source[at]
      BY Position DEF IInv, Line
    <2>2. PICK k \in Entered : symbols[k] = [key |-> Line.sym, address |-> RomAddress(source, at)]
      BY <2>1 DEF IInv, LabelsEntered
    <2>3. First(Entries(Line.sym)) = k
      BY <2>2, Search DEF IInv
    <2>4. Done + 1 = at
      BY <2>1 DEF Done
    <2> QED
      BY <2>2, <2>3, <2>4 DEF IInv, Written
  <1> QED
    BY <1>1, InductiveInvariant, PTL

(* Every instruction of a well-formed program is written, in its place and  *)
(* with the value of its symbol: labels as the line they stand before,      *)
(* variables numbered by their first use (assembler.c 62-140).              *)
THEOREM AssembledRight ==
  ASSUME AllWellFormed
  PROVE  Spec => []Assembled
  <1>1. IInv => Assembled
    <2> SUFFICES ASSUME IInv PROVE Assembled
      OBVIOUS
    <2>1. at \in 1 .. Len(source) + 1 /\ DOMAIN source = 1 .. Len(source) /\ Len(source) \in Nat
      BY Position DEF IInv, Ranges
    <2>2. pass = 2 => Done = at - 1
      BY DEF Done
    <2>3. pass = 3 => Done = Len(source) /\ Done + 1 = Len(source) + 1
      BY <2>1, Position DEF IInv, Ranges, Done
    <2> QED
      BY <2>1, <2>2, <2>3 DEF IInv, Written, Assembled
  <1> QED
    BY <1>1, InductiveInvariant, PTL
=============================================================================
