---------------------------- MODULE MCAssembler -----------------------------
(***************************************************************************)
(* Small instances of Assembler: every program of up to four lines over a  *)
(* few symbols, and two with lines as the repository's own files contain   *)
(* them.                                                                   *)
(***************************************************************************)
EXTENDS Assembler, TLC

MCUserSymbol == {"X", "Y", "v"}
MCGarbage    == [kind |-> "garbage"]

MCLine == {blank, label("X"), label("Y"), at_symbol("X"), at_symbol("Y"), at_symbol("v"),
           at_symbol("R2"), at_number(9), compute({"D"}, "D+A", "")}

Programs(n) == {src \in UNION {[1 .. k -> MCLine] : k \in 1 .. n} : WellFormed(src)}

MCSources == Programs(4)

(* A file header, and an instruction with a comment line after it.         *)
CommentSources == {<<blank, at_number(2), compute({"D"}, "A", "")>>,
                   <<at_number(2), blank, compute({"D"}, "A", "")>>}
=============================================================================
