--------------------------- MODULE MCHttpRequest ---------------------------
(***************************************************************************)
(* A small instance of HttpRequest: every request of up to two fields,     *)
(* whole or cut, with a body shorter than, as long as or longer than what  *)
(* is announced; and files of up to two blocks, one change of which may     *)
(* come at any moment.                                                     *)
(***************************************************************************)
EXTENDS HttpRequest

Fields == {Field("Content-Length", n) : n \in {-1, 1, 3}}
            \cup {Field("content-length", 2), Field("Host", 1), BadField}

MCInputs ==
  {Input(line, fields, blank, bytes) :
     line \in {Line("HEAD")}, fields \in SeqOf(Fields, 2),
     blank \in BOOLEAN, bytes \in 0 .. 2}
    \cup {Input(line, fields, TRUE, 1) :
            line \in {Line(m) : m \in {"GET", "get", "POST", "PUT"}} \cup {BadLine},
            fields \in SeqOf({Field("Host", 1), Field("Content-Length", 1)}, 1)}
=============================================================================
