----------------------------- MODULE Assembler ------------------------------
(***************************************************************************)
(* The two passes of nandtotetris/projects/06/assembler.c over a source    *)
(* file, one line per step: the first collects the labels, the second      *)
(* resolves symbols, allocates variables and writes the code.              *)
(***************************************************************************)
EXTENDS HackAssembly

CONSTANTS
  Sources,       \* the programs to assemble
  BUFFER,        \* entries of the symbol table
  Garbage        \* what a buffer holds that was never written

VARIABLES
  source,        \* the file, never changed
  pass, at,      \* 1, 2, then 3 when both files are closed; the next line
  symbols,       \* the table of keys and addresses
  symbol_count,
  line_count,
  label_address, \* the address of the next variable
  output,        \* the buffer that main passes to parser
  out            \* what was written to Prog.hack

vars == <<source, pass, at, symbols, symbol_count, line_count, label_address, output, out>>

Empty == [kind |-> "empty"]

SymbolsOf(src) == {src[i].sym : i \in {j \in DOMAIN src : src[j].kind \in {"label", "symbol"}}}

(* The table is an array of BUFFER entries and has to fit: nothing in the   *)
(* code checks it.                                                         *)
ASSUME AssemblerAssumption ==
  /\ \A src \in Sources :
       \A i \in DOMAIN src : src[i].kind \in {"blank", "label", "symbol", "number", "compute"}
  /\ BUFFER \in Nat /\ BUFFER >= NPredefined
  /\ \A src \in Sources : 22 + Cardinality(SymbolsOf(src)) <= BUFFER
  /\ Garbage # Empty /\ Garbage.kind \notin {"A", "C"}

AtEnd == at > Len(source)
Line  == source[at]

-----------------------------------------------------------------------------

(* The 23 predefined symbols are stored and 22 are counted; main's output  *)
(* is an automatic array, whose first byte may or may not be zero.         *)
Init ==
  /\ source \in Sources
  /\ pass = 1 /\ at = 1
  /\ symbols = [i \in 0 .. BUFFER - 1 |->
                  IF i < NPredefined
                  THEN [key |-> Predefined[i + 1], address |-> PredefinedAddress(i + 1)]
                  ELSE [key |-> "", address |-> 0]]
  /\ symbol_count = 22
  /\ line_count = 0
  /\ label_address = 16
  /\ output \in {Empty, Garbage}
  /\ out = <<>>

(* A new entry at the end of the table.                                    *)
Enter(key, address) ==
  /\ symbols' = [symbols EXCEPT ![symbol_count] = [key |-> key, address |-> address]]
  /\ symbol_count' = symbol_count + 1

(* Mutant: a label is counted as a line of code.                           *)
parse_label_counted ==
  /\ pass = 1 /\ ~AtEnd
  /\ \/ /\ Line.kind = "blank"
        /\ UNCHANGED <<symbols, symbol_count, line_count>>
     \/ /\ Line.kind = "label"
        /\ Enter(Line.sym, line_count)
        /\ line_count' = line_count + 1
     \/ /\ IsInstruction(Line)
        /\ line_count' = line_count + 1
        /\ UNCHANGED <<symbols, symbol_count>>
  /\ at' = at + 1
  /\ UNCHANGED <<source, pass, label_address, output, out>>

parse_label ==
  /\ pass = 1 /\ ~AtEnd
  /\ \/ /\ Line.kind = "blank"
        /\ UNCHANGED <<symbols, symbol_count, line_count>>
     \/ /\ Line.kind = "label"
        /\ Enter(Line.sym, line_count)
        /\ UNCHANGED line_count
     \/ /\ IsInstruction(Line)
        /\ line_count' = line_count + 1
        /\ UNCHANGED <<symbols, symbol_count>>
  /\ at' = at + 1
  /\ UNCHANGED <<source, pass, label_address, output, out>>

(* fseek to the start of the file.                                         *)
Rewind ==
  /\ pass = 1 /\ AtEnd
  /\ pass' = 2 /\ at' = 1
  /\ UNCHANGED <<source, symbols, symbol_count, line_count, label_address, output, out>>

-----------------------------------------------------------------------------

(* Mutant: the search stops before the last entry.                         *)
EntriesButLast(key) == {i \in 0 .. symbol_count - 2 : symbols[i].key = key}

(* The table is searched from its start: the first of them counts.         *)
Entries(key) == {i \in 0 .. symbol_count - 1 : symbols[i].key = key}
First(S)     == CHOOSE i \in S : \A j \in S : i <= j

(* The word of an A-instruction is the low 16 bits of its number.          *)
parse_bin(n) == AInstruction(n % 65536)

(* Mutant: the address is read after the increment.                        *)
AllocateLate ==
  \/ /\ Line.kind = "number"
     /\ output' = parse_bin(Line.num)
     /\ UNCHANGED <<symbols, symbol_count, label_address>>
  \/ /\ Line.kind = "symbol" /\ Entries(Line.sym) # {}
     /\ output' = parse_bin(symbols[First(Entries(Line.sym))].address)
     /\ UNCHANGED <<symbols, symbol_count, label_address>>
  \/ /\ Line.kind = "symbol" /\ Entries(Line.sym) = {}
     /\ Enter(Line.sym, label_address)
     /\ label_address' = label_address + 1
     /\ output' = parse_bin(label_address + 1)

parse_a_command ==
  \/ /\ Line.kind = "number"
     /\ output' = parse_bin(Line.num)
     /\ UNCHANGED <<symbols, symbol_count, label_address>>
  \/ /\ Line.kind = "symbol" /\ Entries(Line.sym) # {}
     /\ output' = parse_bin(symbols[First(Entries(Line.sym))].address)
     /\ UNCHANGED <<symbols, symbol_count, label_address>>
  \/ /\ Line.kind = "symbol" /\ Entries(Line.sym) = {}
     /\ Enter(Line.sym, label_address)
     /\ label_address' = label_address + 1
     /\ output' = parse_bin(label_address)

(* A text that is none of the mnemonics leaves the bits at zero: that is   *)
(* D&A for a computation and no jump.                                      *)
parse_comp(c) == IF c \in Comps THEN c ELSE "D&A"
parse_jump(j) == IF j \in Jumps THEN j ELSE ""

parse_c_command ==
  /\ Line.kind = "compute"
  /\ output' = CInstruction(Line.dest, parse_comp(Line.comp), parse_jump(Line.jump))
  /\ UNCHANGED <<symbols, symbol_count, label_address>>

(* A blank line leaves the buffer as it is, a label empties it.            *)
parser ==
  \/ /\ Line.kind = "blank"
     /\ UNCHANGED <<symbols, symbol_count, label_address, output>>
  \/ /\ Line.kind = "label"
     /\ output' = Empty
     /\ UNCHANGED <<symbols, symbol_count, label_address>>
  \/ parse_a_command
  \/ parse_c_command

Translate ==
  /\ pass = 2 /\ ~AtEnd
  /\ parser
  /\ out' = IF output' = Empty THEN out ELSE Append(out, output')
  /\ at' = at + 1
  /\ UNCHANGED <<source, pass, line_count>>

Close ==
  /\ pass = 2 /\ AtEnd
  /\ pass' = 3
  /\ UNCHANGED <<source, at, symbols, symbol_count, line_count, label_address, output, out>>

Next == parse_label \/ Rewind \/ Translate \/ Close

Spec == Init /\ [][Next]_vars

-----------------------------------------------------------------------------
(* The positions and counters stay in range: a symbol takes one entry of   *)
(* the table and at most one address, however often it is used.            *)
TypeOK ==
  /\ source \in Sources
  /\ pass \in 1 .. 3 /\ at \in 1 .. Len(source) + 1
  /\ DOMAIN symbols = 0 .. BUFFER - 1
  /\ symbol_count \in 22 .. 22 + Cardinality(SymbolsOf(source))
  /\ line_count \in 0 .. Len(source)
  /\ label_address \in 16 .. 16 + Cardinality(SymbolsOf(source))

(* What the first pass counted is what the second writes: when it comes to *)
(* a label, the label's address is that of the next word it will write.    *)
LabelsPointAtOutput ==
  pass = 2 /\ ~AtEnd /\ Line.kind = "label" =>
    symbols[First(Entries(Line.sym))].address = Len(out)

(* Variables have addresses of their own, outside the registers, and no    *)
(* symbol is entered a second time by the second pass.                     *)
VariablesApart ==
  LET V == {i \in 22 .. symbol_count - 1 : symbols[i].key \notin Labels(source)}
  IN /\ TypeOK
     /\ \A i \in V : symbols[i].address \in 16 .. label_address - 1
     /\ \A i, j \in V : i # j => /\ symbols[i].address # symbols[j].address
                                 /\ symbols[i].key # symbols[j].key

(* Every instruction read so far was written, where the labels expect it   *)
(* and with its symbol resolved as the whole program defines it.           *)
Assembled ==
  /\ pass = 2 => \A i \in 1 .. at - 1 : Placed(source, i, out)
  /\ pass = 3 => /\ \A i \in DOMAIN source : Placed(source, i, out)
                 /\ Len(out) = RomAddress(source, Len(source) + 1)

-----------------------------------------------------------------------------
(* A line without an instruction writes nothing: projects/06/Add.hack has   *)
(* the six instructions of add/Add.asm, a file that begins with comments.   *)
BlankWritesNothing == pass = 2 => Len(out) = RomAddress(source, at)
=============================================================================
