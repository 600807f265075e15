---------------------------- MODULE HttpRequest -----------------------------
(***************************************************************************)
(* The HTTP server of lesson_14/httpd.c: a process that reads one request  *)
(* from its input, answers it on its output and exits.  The request comes  *)
(* a line at a time from a client that may stop anywhere or go away; any   *)
(* allocation may fail, and the file may come, go, grow and shrink at any  *)
(* moment, while it is open, too.                                          *)
(***************************************************************************)
EXTENDS Integers, Sequences, FiniteSets, SequencesExt

CONSTANTS
  Inputs,                    \* the requests a client may have for it
  MAX_REQUEST_BODY_LENGTH,
  Blocks,                    \* bound: blocks in a file
  MaxTouch                   \* bound: how often the file changes

VARIABLES
  input,     \* all that the client means to send
  sent,      \* how much of it has been sent: lines, then bytes of the body
  closed,    \* the client ended its input
  gone,      \* the client no longer reads
  file,      \* what the path names: "absent", "other" or "regular"
  size,      \* the blocks in it, each of them one read
  touched,   \* how often any of that changed
  changed,   \* history: what is read changed after lstat
  pc,        \* where the program is
  pos,       \* how much of the input it has read
  req,       \* the request as read so far
  heap,      \* the blocks it has allocated and not freed
  info,      \* what lstat said: "none" before, "missing" or "regular"
  promised,  \* the size it gave, which the header announces
  left,      \* reads left of the open file, -1 if none is open
  out,       \* what is in the buffer of the output stream
  got,       \* what has reached the client
  code       \* the exit status

client  == <<input, sent, closed, gone, file, size, touched, changed>>
program == <<pc, pos, req, heap, info, promised, left, out, got, code>>
vars    == <<client, program>>

(***************************************************************************)
(* Requests.  Their lines are what fgets returns: a line longer than the   *)
(* buffer is several.  A method and a name are texts, of which the code    *)
(* only asks whether they are equal to its own; a value is what atol makes *)
(* of it.                                                                  *)
(***************************************************************************)
Line(method)       == [ok |-> TRUE, method |-> method]
BadLine            == [ok |-> FALSE, method |-> ""]
Field(name, value) == [ok |-> TRUE, name |-> name, value |-> value]
BadField           == [ok |-> FALSE, name |-> "", value |-> 0]
Input(line, fields, blank, bytes) ==
  [line |-> line, fields |-> fields, blank |-> blank, bytes |-> bytes]

ASSUME HttpRequestAssumption ==
  /\ {MAX_REQUEST_BODY_LENGTH, Blocks, MaxTouch} \subseteq Nat
  /\ Inputs \subseteq [line   : [ok : BOOLEAN, method : STRING],
                       fields : Seq([ok : BOOLEAN, name : STRING, value : Int]),
                       blank  : BOOLEAN, bytes : Nat]

(* The blank line and the body, after the request line and the fields.     *)
HeaderEnd(in) == 2 + Len(in.fields)
Length(in)    == 1 + Len(in.fields) + (IF in.blank THEN 1 + in.bytes ELSE 0)

upcase(method)        == IF method = "get" THEN "GET" ELSE method
strcasecmp(name)      == name \in {"Content-Length", "content-length"}

-----------------------------------------------------------------------------
(* The heap.  What is freed or read without being allocated corrupts it.   *)
Corrupt     == <<"corrupt", 0>>
Block(b)    == <<b, 0>>
Of(i)       == {<<"field", i>>, <<"name", i>>, <<"value", i>>}
Touch(h, b) == IF b \in h THEN h ELSE h \cup {Corrupt}
Free(h, b)  == Touch(h, b) \ {b}

NoRequest == [method |-> "", header |-> <<>>, length |-> 0]

Init ==
  /\ input \in Inputs /\ sent = 0 /\ closed = FALSE /\ gone = FALSE
  /\ file \in {"absent", "other", "regular"} /\ size \in 0 .. Blocks
  /\ touched = 0 /\ changed = FALSE
  /\ pc = "start" /\ pos = 0 /\ req = NoRequest /\ heap = {}
  /\ info = "none" /\ promised = 0 /\ left = -1 /\ out = <<>> /\ got = <<>> /\ code = -1

(* The client and the file system.                                         *)
Send ==
  /\ sent < Length(input) /\ ~closed
  /\ sent' = sent + 1
  /\ UNCHANGED <<input, closed, gone, file, size, touched, changed, program>>

CloseInput ==
  /\ ~closed /\ closed' = TRUE
  /\ UNCHANGED <<input, sent, gone, file, size, touched, changed, program>>

Leave ==
  /\ ~gone /\ gone' = TRUE /\ closed' = TRUE
  /\ UNCHANGED <<input, sent, file, size, touched, changed, program>>

(* Another file at the path, or another size of it: the program sees that  *)
(* only until it has opened the file.                                      *)
ChangePath ==
  /\ touched < MaxTouch /\ touched' = touched + 1
  /\ file' \in {"absent", "other", "regular"} /\ size' \in 0 .. Blocks
  /\ file' # file \/ size' # size
  /\ changed' = (changed \/ pc = "open")
  /\ UNCHANGED <<input, sent, closed, gone, program>>

(* The open file grows, or shrinks.                                        *)
ChangeOpen ==
  /\ touched < MaxTouch /\ touched' = touched + 1
  /\ left >= 0 /\ left' \in (0 .. Blocks) \ {left}
  /\ changed' = TRUE
  /\ UNCHANGED <<input, sent, closed, gone, file, size, pc, pos, req, heap, info, promised, out, got, code>>

-----------------------------------------------------------------------------
(* exit closes the streams, and so hands over what is still in the buffer. *)
Exits(status) ==
  /\ pc' = "exited" /\ code' = status /\ left' = -1
  /\ got' = IF gone THEN got ELSE got \o out
  /\ out' = <<>>

log_exit == Exits(1) /\ UNCHANGED <<client, pos, req, heap, info, promised>>

Quiet == UNCHANGED <<client, info, promised, left, out, got, code>>

(* The next line is there, or the input has ended before it.               *)
HasLine == pos < sent
EndOfInput == closed /\ pos = sent

Start ==
  /\ pc = "start"
  /\ \/ pc' = "line" /\ heap' = heap \cup {Block("req")} /\ Quiet /\ UNCHANGED <<pos, req>>
     \/ log_exit

read_request_line ==
  /\ pc = "line"
  /\ \/ /\ HasLine /\ input.line.ok
        /\ req' = [req EXCEPT !.method = upcase(input.line.method)]
        /\ heap' = heap \cup {Block("method"), Block("path")}
        /\ pos' = 1 /\ pc' = "fields" /\ Quiet
     \/ HasLine /\ log_exit       \* it cannot be parsed, or memory is short
     \/ EndOfInput /\ log_exit

(* Mutant: a new field goes to the end of the list.                        *)
PushLast(header, f) == Append(header, f)
Push(header, f)     == <<f>> \o header       \* the last field comes first

(* Mutant: the end of the input is not looked for.                         *)
read_header_field_hung ==
  /\ pc = "fields" /\ HasLine
  /\ \/ /\ pos <= Len(input.fields) /\ input.fields[pos].ok
        /\ req' = [req EXCEPT !.header = Push(@, pos)]
        /\ heap' = heap \cup Of(pos)
        /\ pos' = pos + 1 /\ UNCHANGED pc /\ Quiet
     \/ pos = 1 + Len(input.fields) /\ pos' = pos + 1 /\ pc' = "body" /\ Quiet /\ UNCHANGED <<req, heap>>
     \/ pos <= Len(input.fields) /\ log_exit

(* A field is known by its place in the input.                             *)
read_header_field ==
  /\ pc = "fields"
  /\ \/ /\ HasLine /\ pos <= Len(input.fields) /\ input.fields[pos].ok
        /\ req' = [req EXCEPT !.header = Push(@, pos)]
        /\ heap' = heap \cup Of(pos)
        /\ pos' = pos + 1 /\ UNCHANGED pc /\ Quiet
     \/ /\ HasLine /\ pos = 1 + Len(input.fields)
        /\ pos' = pos + 1 /\ pc' = "body" /\ Quiet /\ UNCHANGED <<req, heap>>
     \/ HasLine /\ pos <= Len(input.fields) /\ log_exit
     \/ EndOfInput /\ log_exit

lookup_header_field_value(header) ==
  SelectInSeq(header, LAMBDA f : strcasecmp(input.fields[f].name))

content_length ==
  LET i == lookup_header_field_value(req.header)
  IN IF i = 0 THEN 0 ELSE input.fields[req.header[i]].value

TakesBody == content_length > 0 /\ content_length <= MAX_REQUEST_BODY_LENGTH

AllocateBody ==
  /\ pc = "body"
  /\ \/ /\ content_length = 0
        /\ pc' = "respond" /\ Quiet /\ UNCHANGED <<pos, req, heap>>
     \/ /\ TakesBody
        /\ req' = [req EXCEPT !.length = content_length]
        /\ heap' = heap \cup {Block("body")}
        /\ pc' = "read" /\ Quiet /\ UNCHANGED pos
     \/ content_length # 0 /\ log_exit

(* fread waits for all of the body, or the end of the input.               *)
ReadBody ==
  /\ pc = "read"
  /\ \/ /\ sent - pos >= req.length
        /\ pos' = pos + req.length
        /\ pc' = "respond" /\ Quiet /\ UNCHANGED <<req, heap>>
     \/ closed /\ sent - pos < req.length /\ log_exit

-----------------------------------------------------------------------------
(* Answers, as the sequence of what is printed.                            *)
Common(status) == <<status, "Date", "Server", "Connection">>
Page(status)   == Common(status) \o <<"Content-Type", "blank", "html">>

method_not_allowed == Page("405")
not_implemented    == Page("501")
NotFoundAlways(method) == Page("404")     \* mutant: HEAD has the page too
not_found(method)  == IF method = "HEAD" THEN Front(Page("404")) ELSE Page("404")
FileHeader         == Common("200") \o <<"Content-Length", "Content-Type", "blank">>

(* What is printed stays in the buffer, or the buffer is full and goes out *)
(* to a client that still reads.                                           *)
Write(text) ==
  \/ out' = out \o text /\ UNCHANGED got
  \/ ~gone /\ got' = got \o out \o text /\ out' = <<>>

get_fileinfo ==
  /\ pc = "respond" /\ req.method \in {"GET", "HEAD"}
  /\ \/ /\ file = "regular" /\ info' = "regular" /\ promised' = size
        /\ heap' = heap \cup {Block("info"), Block("fspath")}
        /\ Write(FileHeader)
        /\ pc' = IF req.method = "HEAD" THEN "flush" ELSE "open"
        /\ UNCHANGED <<client, pos, req, left, code>>
     \/ /\ file # "regular" /\ info' = "missing"
        /\ Write(not_found(req.method))
        /\ pc' = "flush"
        /\ UNCHANGED <<client, pos, req, heap, promised, left, code>>
     \/ log_exit                                   \* memory is short

Refuse ==
  /\ pc = "respond" /\ req.method \notin {"GET", "HEAD"}
  /\ Write(IF req.method = "POST" THEN method_not_allowed ELSE not_implemented)
  /\ pc' = "flush"
  /\ UNCHANGED <<client, pos, req, heap, info, promised, left, code>>

(* What the path names by now is opened, whatever its size is by now.      *)
Open ==
  /\ pc = "open"
  /\ \/ /\ file # "absent" /\ left' = size
        /\ pc' = "copy" /\ UNCHANGED <<client, pos, req, heap, info, promised, out, got, code>>
     \/ file = "absent" /\ log_exit

Copy ==
  /\ pc = "copy"
  /\ \/ /\ left > 0 /\ left' = left - 1
        /\ Write(<<"data">>)
        /\ UNCHANGED <<client, pc, pos, req, heap, info, promised, code>>
     \/ /\ left = 0 /\ left' = -1 /\ pc' = "flush"
        /\ UNCHANGED <<client, pos, req, heap, info, promised, out, got, code>>
     \/ log_exit                                   \* the read fails

(* SIGPIPE: a write to a client that has gone.                             *)
signal_exit ==
  /\ gone /\ out # <<>> /\ pc \in {"open", "copy", "flush"}
  /\ log_exit

(* fflush, and the end of do_file_response.                                *)
Flush ==
  /\ pc = "flush" /\ (~gone \/ out = <<>>)
  /\ got' = got \o out /\ out' = <<>>
  /\ heap' = IF info = "regular" THEN Free(Free(heap, Block("fspath")), Block("info")) ELSE heap
  /\ pc' = "free"
  /\ UNCHANGED <<client, pos, req, info, promised, left, code>>

(* The loop over the fields, by what is left of the list.  Mutant: a field  *)
(* is freed before its successor is read from it.                          *)
FreeFieldEarly(h, f) ==
  Touch(Free(Free(Free(h, <<"name", f>>), <<"value", f>>), <<"field", f>>), <<"field", f>>)
FreeField(h, f) ==
  Free(Free(Free(Touch(h, <<"field", f>>), <<"name", f>>), <<"value", f>>), <<"field", f>>)

free_field ==
  /\ pc = "free" /\ req.header # <<>>
  /\ heap' = FreeField(heap, Head(req.header))
  /\ req' = [req EXCEPT !.header = Tail(@)]
  /\ Quiet /\ UNCHANGED <<pc, pos>>

FreeBody(h) == IF req.length # 0 THEN Free(h, Block("body")) ELSE h

free_request ==
  /\ pc = "free" /\ req.header = <<>>
  /\ heap' = Free(FreeBody(Free(Free(heap, Block("method")), Block("path"))), Block("req"))
  /\ Exits(0)
  /\ UNCHANGED <<client, pos, req, info, promised>>

-----------------------------------------------------------------------------

Program == \/ Start \/ read_request_line \/ read_header_field \/ AllocateBody \/ ReadBody
           \/ get_fileinfo \/ Refuse \/ Open \/ Copy \/ Flush \/ signal_exit
           \/ free_field \/ free_request

Next == Program \/ Send \/ CloseInput \/ Leave \/ ChangePath \/ ChangeOpen

(* The program is scheduled; nothing is assumed of its client.             *)
Spec == Init /\ [][Next]_vars /\ WF_vars(Program)

-----------------------------------------------------------------------------
(* The request, as its text says: the method, the length its last           *)
(* Content-Length announces, and whether it can be answered.               *)
Lengths   == {i \in DOMAIN input.fields : strcasecmp(input.fields[i].name)}
Announced == IF Lengths = {} THEN 0 ELSE input.fields[Max(Lengths)].value
Accepted  == /\ input.line.ok /\ input.blank
             /\ \A i \in DOMAIN input.fields : input.fields[i].ok
             /\ Announced \in 0 .. MAX_REQUEST_BODY_LENGTH /\ Announced <= input.bytes

Status == CASE req.method \in {"GET", "HEAD"} -> IF info = "regular" THEN "200" ELSE "404"
            [] req.method = "POST"            -> "405"
            [] OTHER                          -> "501"

BodyOf(answer) == SubSeq(answer, SelectInSeq(answer, LAMBDA t : t = "blank") + 1, Len(answer))

(* Each variable in its range; the stack of the program is empty until it   *)
(* has a request, and an exit status is there once it has exited.          *)
TypeOK ==
  /\ input \in Inputs /\ sent \in 0 .. Length(input) /\ pos \in 0 .. sent
  /\ closed \in BOOLEAN /\ gone \in BOOLEAN /\ touched \in 0 .. MaxTouch /\ changed \in BOOLEAN
  /\ {size, promised} \subseteq 0 .. Blocks
  /\ file \in {"absent", "other", "regular"} /\ info \in {"none", "missing", "regular"}
  /\ pc \in {"start", "line", "fields", "body", "read", "respond", "open", "copy", "flush", "free", "exited"}
  /\ req.length \in 0 .. MAX_REQUEST_BODY_LENGTH
  /\ left \in -1 .. Blocks /\ (left >= 0 => pc = "copy")
  /\ code \in -1 .. 1 /\ (code >= 0 <=> pc = "exited")

(* Nothing is freed twice or used after it was freed, and all that was      *)
(* allocated for the request and its answer is freed when it is answered.  *)
HeapBalanced == TypeOK /\ Corrupt \notin heap /\ (code = 0 => heap = {})

(* Where the status is 0, the client has one answer, the one the method and *)
(* lstat ask for: one header, no body for HEAD, and for GET the blocks of   *)
(* the file, as many as the header announces unless the file that is read   *)
(* changed between lstat and its end.  A file that is replaced after it has *)
(* been opened, or that changed before lstat, is no excuse.  A request that *)
(* has anything wrong with it is not answered at all.                      *)
AnsweredWhole ==
  /\ ~Accepted => got \o out = <<>>
  /\ code = 0 =>
       /\ got # <<>> /\ got[1] = Status
       /\ \A t \in {"Date", "Content-Type", "blank"} : Cardinality({i \in DOMAIN got : got[i] = t}) = 1
       /\ req.method = "HEAD" => BodyOf(got) = <<>>
       /\ req.method # "HEAD" /\ Status # "200" => BodyOf(got) = <<"html">>
       /\ req.method # "HEAD" /\ Status = "200" =>
            /\ BodyOf(got) = [i \in 1 .. Len(BodyOf(got)) |-> "data"]
            /\ changed \/ Len(BodyOf(got)) = promised

(* What is read is the request and no more: the last Content-Length counts, *)
(* whatever others stand before it, and a body that is too long is not even *)
(* allocated.                                                              *)
ReadsItsBody ==
  /\ code = 0 => pos = HeaderEnd(input) + Announced
  /\ Block("body") \in heap => Announced \in 1 .. MAX_REQUEST_BODY_LENGTH

(* The program ends once its input has ended, or the whole request is there *)
(* even if the client keeps its end open.                                  *)
RequestEnds == (closed \/ (Accepted /\ sent = Length(input))) ~> (pc = "exited")
=============================================================================
