-------------------------- MODULE HttpRequestProofs ---------------------------
(***************************************************************************)
(* What HttpRequest promises, for every set of requests and every bound:   *)
(* the heap is balanced, the body that is read is the one announced, and   *)
(* the client has one whole answer or none.                                *)
(***************************************************************************)
EXTENDS HttpRequest, SequenceTheorems, FiniteSetTheorems, WellFoundedInduction, TLAPS

Places  == {"start", "line", "fields", "body", "read", "respond", "open", "copy", "flush", "free", "exited"}
Parsing == {"start", "line", "fields", "body"}
Parsed  == {"respond", "open", "copy", "flush", "free"}

(* The items an answer is made of.                                         *)
Items == {"200", "404", "405", "501", "Date", "Server", "Connection",
          "Content-Length", "Content-Type", "blank", "html", "data"}

(* TypeOK with the request and the two ends of the output stream.          *)
Typed ==
  /\ TypeOK
  /\ req = [method |-> req.method, header |-> req.header, length |-> req.length]
  /\ req.header \in Seq(Nat)
  /\ out \in Seq(Items) /\ got \in Seq(Items)

(* The list of the fields, the last first, and how far it is built: the     *)
(* fields on it are those in front of the place in the input.              *)
Listed ==
  /\ \A i \in 1 .. Len(req.header) : req.header[i] = Len(req.header) + 1 - i
  /\ pc \in {"start", "line"} => pos = 0 /\ req.header = <<>>
  /\ pc = "fields" => pos = 1 + Len(req.header) /\ pos <= 1 + Len(input.fields)
  /\ pc \in {"body", "read"} => pos = HeaderEnd(input) /\ Len(req.header) = Len(input.fields)

(* What has been accepted of the request so far.                            *)
Judged ==
  /\ pc \in Places \ {"start", "line", "exited"} => input.line.ok
  /\ pc = "fields" => \A i \in 1 .. Len(req.header) : input.fields[i].ok
  /\ pc \in {"body", "read"} => input.blank /\ \A i \in DOMAIN input.fields : input.fields[i].ok
  /\ pc \in Parsing => req.length = 0
  /\ pc = "read" => req.length # 0
  /\ req.length # 0 => req.length = Announced
  /\ pc \in Parsed \/ code = 0 =>
       Accepted /\ req.length = Announced /\ pos = HeaderEnd(input) + Announced

(* The blocks of n fields, and all that is allocated at a place.            *)
FieldBlocks(n) == {"field", "name", "value"} \X (1 .. n)
Held ==
  (IF pc = "start" THEN {} ELSE {Block("req")})
    \cup (IF pc \in {"start", "line"} THEN {} ELSE {Block("method"), Block("path")})
    \cup FieldBlocks(Len(req.header))
    \cup (IF req.length = 0 THEN {} ELSE {Block("body")})
    \cup (IF pc \in {"open", "copy", "flush"} /\ info = "regular"
          THEN {Block("info"), Block("fspath")} ELSE {})

Allocated ==
  /\ pc # "exited" => heap = Held
  /\ pc = "exited" => Corrupt \notin heap /\ (Block("body") \in heap => req.length # 0)
  /\ code = 0 => heap = {}

(* What is printed for the request and n blocks of the file, and how much   *)
(* of it has been.                                                         *)
Data(n) == [i \in 1 .. n |-> "data"]
Answer(n) ==
  CASE req.method \in {"GET", "HEAD"} /\ info # "regular" -> not_found(req.method)
    [] req.method = "HEAD" /\ info = "regular"            -> FileHeader
    [] req.method = "GET" /\ info = "regular"             -> FileHeader \o Data(n)
    [] req.method = "POST"                                -> method_not_allowed
    [] OTHER                                              -> not_implemented

(* One answer, with the announced length unless the file changed.          *)
Answered(s) == \E n \in Nat : (changed \/ n = promised) /\ s = Answer(n)

(* A part of one, with what is left of the file still to come.             *)
Copied == \E n \in Nat : (changed \/ n + left = promised) /\ got \o out = FileHeader \o Data(n)

Printed ==
  /\ pc \in Parsing \cup {"read", "respond"} => got = <<>> /\ out = <<>> /\ info = "none"
  /\ pc \in {"open", "copy"} => req.method = "GET" /\ info = "regular"
  /\ pc = "open" => got \o out = FileHeader /\ (changed \/ size = promised)
  /\ pc = "copy" => left >= 0 /\ Copied
  /\ pc \in {"flush", "free"} => Answered(got \o out)
  /\ pc \in {"free", "exited"} => out = <<>>
  /\ pc = "exited" => Accepted \/ got = <<>>
  /\ code = 0 => Answered(got)

IInv == Typed /\ Listed /\ Judged /\ Allocated /\ Printed

-----------------------------------------------------------------------------
LEMMA InputTyped ==
  ASSUME input \in Inputs
  PROVE  /\ input.line.ok \in BOOLEAN /\ input.line.method \in STRING
         /\ input.fields \in Seq([ok : BOOLEAN, name : STRING, value : Int])
         /\ input.blank \in BOOLEAN /\ input.bytes \in Nat
         /\ Len(input.fields) \in Nat /\ DOMAIN input.fields = 1 .. Len(input.fields)
         /\ Length(input) \in Nat /\ HeaderEnd(input) \in Nat
<1> DEFINE Inp == [line   : [ok : BOOLEAN, method : STRING],
                   fields : Seq([ok : BOOLEAN, name : STRING, value : Int]),
                   blank  : BOOLEAN, bytes : Nat]
<1>1. input \in Inp
  BY HttpRequestAssumption
<1>2. /\ input.line \in [ok : BOOLEAN, method : STRING]
      /\ input.fields \in Seq([ok : BOOLEAN, name : STRING, value : Int])
      /\ input.blank \in BOOLEAN /\ input.bytes \in Nat
  BY <1>1
<1>3. input.line.ok \in BOOLEAN /\ input.line.method \in STRING
  BY <1>2
<1>4. Len(input.fields) \in Nat /\ DOMAIN input.fields = 1 .. Len(input.fields)
  BY <1>2, LenProperties
<1> QED
  BY <1>2, <1>3, <1>4 DEF Length, HeaderEnd

(* A set of numbers that has a member has a least one.                     *)
LEMMA Least ==
  ASSUME NEW S \in SUBSET Nat, S # {}
  PROVE  \E m \in S : \A k \in S : m <= k
<1> DEFINE Below == OpToRel(<, Nat)
<1>1. IsWellFoundedOn(Below, Nat)
  BY NatLessThanWellFounded
<1>2. ASSUME NEW k \in Nat, NEW m \in Nat, k < m PROVE <<k, m>> \in Below
  <2> DEFINE pair == <<k, m>>
  <2>1. pair \in Nat \X Nat /\ pair[1] < pair[2]
    BY <1>2
  <2> QED
    BY <2>1 DEF OpToRel
<1> HIDE DEF Below
<1>3. PICK m \in S : \A k \in S : ~(<<k, m>> \in Below)
  BY <1>1, WFMin
<1>4. ASSUME NEW k \in S PROVE m <= k
  <2>1. k \in Nat /\ m \in Nat
    BY <1>3
  <2>2. ~(<<k, m>> \in Below)
    BY <1>3
  <2>3. ~(k < m)
    BY <1>2, <2>1, <2>2
  <2> QED
    BY <2>1, <2>3
<1> QED
  BY <1>4
(* The last Content-Length of the request is the first on the list.        *)
LEMMA LengthRead ==
  ASSUME input \in Inputs, req.header \in Seq(Nat),
         Len(req.header) = Len(input.fields),
         \A i \in 1 .. Len(req.header) : req.header[i] = Len(req.header) + 1 - i
  PROVE  content_length = Announced /\ Announced \in Int
<1> DEFINE n == Len(input.fields)
           S == {i \in 1 .. Len(req.header) : strcasecmp(input.fields[req.header[i]].name)}
<1>1. /\ n \in Nat /\ DOMAIN input.fields = 1 .. n
      /\ \A i \in 1 .. n : input.fields[i].value \in Int
  <2>1. \A i \in 1 .. n : input.fields[i] \in [ok : BOOLEAN, name : STRING, value : Int]
    BY InputTyped, ElementOfSeq
  <2> QED
    BY <2>1, InputTyped
<1>2. lookup_header_field_value(req.header) = IF S # {} THEN Min(S) ELSE 0
  BY DEF lookup_header_field_value, SelectInSeq
<1>3. \A i \in 1 .. n : i \in S <=> n + 1 - i \in Lengths
  <2> SUFFICES ASSUME NEW i \in 1 .. n PROVE i \in S <=> n + 1 - i \in Lengths
    OBVIOUS
  <2>1. i \in 1 .. Len(req.header) /\ req.header[i] = n + 1 - i
    OBVIOUS
  <2>2. n + 1 - i \in DOMAIN input.fields
    BY <1>1
  <2> QED
    BY <2>1, <2>2 DEF Lengths
<1>4. S \in SUBSET Nat /\ S \subseteq 1 .. n /\ Lengths \subseteq 1 .. n
  BY <1>1 DEF Lengths
<1> HIDE DEF S
<1>5. CASE S = {}
  <2>1. Lengths = {}
    <3> SUFFICES ASSUME NEW k \in Lengths PROVE FALSE
      OBVIOUS
    <3>1. k \in 1 .. n /\ n + 1 - k \in 1 .. n /\ n + 1 - (n + 1 - k) = k
      BY <1>1, <1>4
    <3> QED
      BY <1>3, <1>5, <3>1
  <2> QED
    BY <1>2, <1>5, <2>1 DEF content_length, Announced
<1>6. CASE S # {}
  <2>1. PICK m \in S : \A k \in S : m <= k
    BY <1>4, <1>6, Least
  <2>2. m \in 1 .. n /\ n + 1 - m \in 1 .. n
    BY <1>1, <1>4
  <2>3. Min(S) = m
    <3>1. \A k \in S : k \in Int
      BY <1>4
    <3> QED
      BY <2>1, <3>1 DEF Min
  <2>4. n + 1 - m \in Lengths
    BY <1>3, <2>2
  <2>5. ASSUME NEW k \in Lengths PROVE n + 1 - m >= k
    <3>1. k \in 1 .. n /\ n + 1 - k \in 1 .. n /\ n + 1 - (n + 1 - k) = k
      BY <1>1, <1>4
    <3>2. n + 1 - k \in S
      BY <1>3, <3>1
    <3> QED
      BY <1>1, <2>1, <2>2, <3>1, <3>2
  <2>6. Max(Lengths) = n + 1 - m
    <3>1. \A k \in Lengths : k \in Int
      BY <1>4
    <3> QED
      BY <1>1, <2>2, <2>4, <2>5, <3>1 DEF Max
  <2>7. req.header[m] = n + 1 - m /\ m # 0
    BY <2>2
  <2>8. content_length = input.fields[n + 1 - m].value
    BY <1>2, <1>6, <2>3, <2>7 DEF content_length
  <2>9. Announced = input.fields[n + 1 - m].value
    BY <2>4, <2>6 DEF Announced
  <2> QED
    BY <1>1, <2>2, <2>8, <2>9
<1> QED
  BY <1>5, <1>6

-----------------------------------------------------------------------------
(* The answers, item by item.                                              *)
LEMMA SevenItems ==
  ASSUME NEW a \in Items, NEW b \in Items, NEW c \in Items, NEW d \in Items,
         NEW e \in Items, NEW f \in Items, NEW g \in Items
  PROVE  <<a, b, c, d>> \o <<e, f, g>> = <<a, b, c, d, e, f, g>>
<1> DEFINE s == <<a, b, c, d>>
           t == <<e, f, g>>
           u == <<a, b, c, d, e, f, g>>
           v == s \o t
<1>1. /\ s \in Seq(Items) /\ Len(s) = 4
      /\ t \in Seq(Items) /\ Len(t) = 3
      /\ u \in Seq(Items) /\ Len(u) = 7
  OBVIOUS
<1>2. /\ u[1] = s[1] /\ u[2] = s[2] /\ u[3] = s[3] /\ u[4] = s[4]
      /\ u[5] = t[1] /\ u[6] = t[2] /\ u[7] = t[3]
  OBVIOUS
<1> HIDE DEF s, t, u
<1>3. /\ v \in Seq(Items) /\ Len(v) = 7
      /\ \A i \in 1 .. 7 : v[i] = IF i <= 4 THEN s[i] ELSE t[i - 4]
  <2>1. /\ v \in Seq(Items) /\ Len(v) = Len(s) + Len(t)
        /\ \A i \in 1 .. Len(s) + Len(t) : v[i] = IF i <= Len(s) THEN s[i] ELSE t[i - Len(s)]
    BY <1>1, ConcatProperties, Zenon
  <2> HIDE DEF v
  <2> QED
    BY <1>1, <2>1
<1> HIDE DEF v
<1>4. \A i \in 1 .. 7 : v[i] = u[i]
  BY <1>2, <1>3
<1>5. v = u
  BY <1>1, <1>3, <1>4, SeqEqual
<1> QED
  BY <1>5 DEF s, t, u, v

LEMMA PageIs ==
  ASSUME NEW s \in Items
  PROVE  Page(s) = <<s, "Date", "Server", "Connection", "Content-Type", "blank", "html">>
<1>1. /\ "Date" \in Items /\ "Server" \in Items /\ "Connection" \in Items
      /\ "Content-Type" \in Items /\ "blank" \in Items /\ "html" \in Items
  BY DEF Items
<1> QED
  <2>1. <<s, "Date", "Server", "Connection">> \o <<"Content-Type", "blank", "html">>
          = <<s, "Date", "Server", "Connection", "Content-Type", "blank", "html">>
    BY <1>1, SevenItems
  <2> QED
    BY <2>1 DEF Page, Common

LEMMA FileHeaderIs ==
  FileHeader = <<"200", "Date", "Server", "Connection", "Content-Length", "Content-Type", "blank">>
<1>1. /\ "200" \in Items /\ "Date" \in Items /\ "Server" \in Items /\ "Connection" \in Items
      /\ "Content-Length" \in Items /\ "Content-Type" \in Items /\ "blank" \in Items
  BY DEF Items
<1> QED
  <2>1. <<"200", "Date", "Server", "Connection">> \o <<"Content-Length", "Content-Type", "blank">>
          = <<"200", "Date", "Server", "Connection", "Content-Length", "Content-Type", "blank">>
    BY <1>1, SevenItems
  <2> QED
    BY <2>1 DEF FileHeader, Common

LEMMA FrontIs ==
  ASSUME NEW s \in Items
  PROVE  Front(Page(s)) = <<s, "Date", "Server", "Connection", "Content-Type", "blank">>
<1> DEFINE p == <<s, "Date", "Server", "Connection", "Content-Type", "blank", "html">>
           q == <<s, "Date", "Server", "Connection", "Content-Type", "blank">>
           v == SubSeq(p, 1, 6)
<1>1. /\ p \in Seq(Items) /\ Len(p) = 7
      /\ q \in Seq(Items) /\ Len(q) = 6
      /\ \A i \in 1 .. 6 : p[i] = q[i] /\ p[i] \in Items
  BY DEF Items
<1> HIDE DEF p, q
<1>2. v \in Seq(Items) /\ Len(v) = 6 /\ \A i \in 1 .. 6 : v[i] = p[i]
  BY <1>1, SubSeqProperties
<1> HIDE DEF v
<1>3. v = q
  BY <1>1, <1>2, SeqEqual
<1>4. Front(p) = v
  BY <1>1 DEF Front, v
<1> QED
  BY <1>3, <1>4, PageIs DEF p, q

LEMMA DataTyped ==
  ASSUME NEW n \in Nat
  PROVE  Data(n) \in Seq(Items) /\ Len(Data(n)) = n /\ \A i \in 1 .. n : Data(n)[i] = "data"
<1>1. "data" \in Items
  BY DEF Items
<1> QED
  BY <1>1 DEF Data

LEMMA DataLonger ==
  ASSUME NEW n \in Nat, NEW s \in Seq(Items)
  PROVE  s \o Data(n + 1) = (s \o Data(n)) \o <<"data">>
<1> DEFINE d == Data(n)
           e == Data(n + 1)
           t == <<"data">>
           v == d \o t
<1>1. /\ d \in Seq(Items) /\ Len(d) = n /\ \A i \in 1 .. n : d[i] = "data"
      /\ e \in Seq(Items) /\ Len(e) = n + 1 /\ \A i \in 1 .. n + 1 : e[i] = "data"
  BY DataTyped
<1>2. t \in Seq(Items) /\ Len(t) = 1 /\ t[1] = "data"
  BY DEF Items
<1> HIDE DEF d, e, t
<1>3. /\ v \in Seq(Items) /\ Len(v) = Len(d) + Len(t)
      /\ \A i \in 1 .. Len(d) + Len(t) : v[i] = IF i <= Len(d) THEN d[i] ELSE t[i - Len(d)]
  BY <1>1, <1>2, ConcatProperties, Zenon
<1> HIDE DEF v
<1>4. \A i \in 1 .. n + 1 : v[i] = e[i]
  BY <1>1, <1>2, <1>3
<1>5. v = e
  BY <1>1, <1>2, <1>3, <1>4, SeqEqual
<1>6. (s \o d) \o t = s \o (d \o t)
  <2>1. d \in Seq(Items) /\ t \in Seq(Items) /\ s \in Seq(Items)
    BY <1>1, <1>2
  <2> QED
    BY <2>1, ConcatAssociative, SMTT(40)
<1> QED
  BY <1>5, <1>6 DEF d, e, t, v

(* Where an answer has its three marks, and nowhere else.                  *)
LEMMA Marks ==
  ASSUME NEW a \in Seq(Items),
         NEW d \in 1 .. Len(a), NEW c \in 1 .. Len(a), NEW k \in 1 .. Len(a),
         \A j \in 1 .. Len(a) : a[j] = "Date" <=> j = d,
         \A j \in 1 .. Len(a) : a[j] = "Content-Type" <=> j = c,
         \A j \in 1 .. Len(a) : a[j] = "blank" <=> j = k
  PROVE  /\ \A t \in {"Date", "Content-Type", "blank"} : Cardinality({j \in DOMAIN a : a[j] = t}) = 1
         /\ BodyOf(a) = SubSeq(a, k + 1, Len(a))
<1>1. DOMAIN a = 1 .. Len(a) /\ Len(a) \in Nat
  BY LenProperties
<1>2. /\ {j \in DOMAIN a : a[j] = "Date"} = {d}
      /\ {j \in DOMAIN a : a[j] = "Content-Type"} = {c}
      /\ {j \in DOMAIN a : a[j] = "blank"} = {k}
  BY <1>1
<1>3. Cardinality({d}) = 1 /\ Cardinality({c}) = 1 /\ Cardinality({k}) = 1
  BY FS_Singleton
<1>4. Min({k}) = k
  BY <1>1 DEF Min
<1>5. SelectInSeq(a, LAMBDA t : t = "blank") = k
  <2>1. {j \in 1 .. Len(a) : a[j] = "blank"} = {k}
    BY <1>1, <1>2
  <2> QED
    BY <1>4, <2>1 DEF SelectInSeq
<1> QED
  BY <1>2, <1>3, <1>5 DEF BodyOf

LEMMA LastItem ==
  ASSUME NEW a \in Seq(Items), NEW n \in 1 .. Len(a)
  PROVE  SubSeq(a, n, n) = <<a[n]>>
<1> DEFINE b == SubSeq(a, n, n)
           c == <<a[n]>>
<1>1. n \in Int /\ a[n] \in Items
  BY LenProperties, ElementOfSeq
<1>2. \A i \in n .. n : a[i] \in Items
  BY <1>1
<1>3. b \in Seq(Items) /\ Len(b) = 1 /\ b[1] = a[n]
  BY <1>1, <1>2, SubSeqProperties
<1>4. c \in Seq(Items) /\ Len(c) = 1 /\ c[1] = a[n]
  BY <1>1
<1> HIDE DEF b, c
<1>5. b = c
  BY <1>3, <1>4, SeqEqual
<1> QED
  BY <1>5 DEF b, c

LEMMA PageWhole ==
  ASSUME NEW s \in {"404", "405", "501"}
  PROVE  /\ Page(s) \in Seq(Items) /\ Page(s) # <<>> /\ Page(s)[1] = s
         /\ \A t \in {"Date", "Content-Type", "blank"} :
              Cardinality({j \in DOMAIN Page(s) : Page(s)[j] = t}) = 1
         /\ BodyOf(Page(s)) = <<"html">>
<1> DEFINE a == <<s, "Date", "Server", "Connection", "Content-Type", "blank", "html">>
<1>1. Page(s) = a
  BY PageIs DEF Items
<1>2. /\ a \in Seq(Items) /\ Len(a) = 7 /\ a # <<>>
      /\ a[1] = s /\ a[2] = "Date" /\ a[3] = "Server" /\ a[4] = "Connection"
      /\ a[5] = "Content-Type" /\ a[6] = "blank" /\ a[7] = "html"
  BY DEF Items
<1> HIDE DEF a
<1>3. /\ \A j \in 1 .. 7 : a[j] = "Date" <=> j = 2
      /\ \A j \in 1 .. 7 : a[j] = "Content-Type" <=> j = 5
      /\ \A j \in 1 .. 7 : a[j] = "blank" <=> j = 6
  BY <1>2
<1>4. /\ \A t \in {"Date", "Content-Type", "blank"} : Cardinality({j \in DOMAIN a : a[j] = t}) = 1
      /\ BodyOf(a) = SubSeq(a, 7, 7)
  <2>1. /\ 2 \in 1 .. Len(a) /\ 5 \in 1 .. Len(a) /\ 6 \in 1 .. Len(a)
        /\ \A j \in 1 .. Len(a) : a[j] = "Date" <=> j = 2
        /\ \A j \in 1 .. Len(a) : a[j] = "Content-Type" <=> j = 5
        /\ \A j \in 1 .. Len(a) : a[j] = "blank" <=> j = 6
    BY <1>2, <1>3
  <2>2. /\ \A t \in {"Date", "Content-Type", "blank"} : Cardinality({j \in DOMAIN a : a[j] = t}) = 1
        /\ BodyOf(a) = SubSeq(a, 6 + 1, Len(a))
    BY <1>2, <2>1, Marks, Zenon
  <2> QED
    BY <1>2, <2>2
<1>5. SubSeq(a, 7, 7) = <<"html">>
  <2>1. 7 \in 1 .. Len(a)
    BY <1>2
  <2> QED
    BY <1>2, <2>1, LastItem
<1> QED
  BY <1>1, <1>2, <1>4, <1>5

LEMMA HeadWhole ==
  /\ Front(Page("404")) \in Seq(Items) /\ Front(Page("404")) # <<>> /\ Front(Page("404"))[1] = "404"
  /\ \A t \in {"Date", "Content-Type", "blank"} :
       Cardinality({j \in DOMAIN Front(Page("404")) : Front(Page("404"))[j] = t}) = 1
  /\ BodyOf(Front(Page("404"))) = <<>>
<1> DEFINE a == <<"404", "Date", "Server", "Connection", "Content-Type", "blank">>
<1>1. Front(Page("404")) = a
  BY FrontIs DEF Items
<1>2. /\ a \in Seq(Items) /\ Len(a) = 6 /\ a # <<>>
      /\ a[1] = "404" /\ a[2] = "Date" /\ a[3] = "Server" /\ a[4] = "Connection"
      /\ a[5] = "Content-Type" /\ a[6] = "blank"
  BY DEF Items
<1> HIDE DEF a
<1>3. /\ 2 \in 1 .. Len(a) /\ 5 \in 1 .. Len(a) /\ 6 \in 1 .. Len(a)
      /\ \A j \in 1 .. Len(a) : a[j] = "Date" <=> j = 2
      /\ \A j \in 1 .. Len(a) : a[j] = "Content-Type" <=> j = 5
      /\ \A j \in 1 .. Len(a) : a[j] = "blank" <=> j = 6
  BY <1>2
<1>4. /\ \A t \in {"Date", "Content-Type", "blank"} : Cardinality({j \in DOMAIN a : a[j] = t}) = 1
      /\ BodyOf(a) = SubSeq(a, 6 + 1, Len(a))
  BY <1>2, <1>3, Marks, Zenon
<1>5. SubSeq(a, 6 + 1, Len(a)) = <<>>
  BY <1>2, SubSeqEmpty
<1> QED
  BY <1>1, <1>2, <1>4, <1>5

(* The header of a file, and the file behind it.                           *)
LEMMA FileWhole ==
  ASSUME NEW n \in Nat
  PROVE  LET a == FileHeader \o Data(n)
         IN /\ a \in Seq(Items) /\ a # <<>> /\ a[1] = "200"
            /\ \A t \in {"Date", "Content-Type", "blank"} : Cardinality({j \in DOMAIN a : a[j] = t}) = 1
            /\ BodyOf(a) = Data(n)
<1> DEFINE h == FileHeader
           d == Data(n)
           a == h \o d
<1>1. /\ h \in Seq(Items) /\ Len(h) = 7
      /\ h[1] = "200" /\ h[2] = "Date" /\ h[3] = "Server" /\ h[4] = "Connection"
      /\ h[5] = "Content-Length" /\ h[6] = "Content-Type" /\ h[7] = "blank"
  BY FileHeaderIs DEF Items
<1>2. d \in Seq(Items) /\ Len(d) = n /\ \A i \in 1 .. n : d[i] = "data"
  BY DataTyped
<1> HIDE DEF h, d
<1>3. /\ a \in Seq(Items) /\ Len(a) = Len(h) + Len(d)
      /\ \A i \in 1 .. Len(h) + Len(d) : a[i] = IF i <= Len(h) THEN h[i] ELSE d[i - Len(h)]
  <2>1. h \in Seq(Items) /\ d \in Seq(Items)
    BY <1>1, <1>2
  <2> QED
    BY <2>1, ConcatProperties, Zenon
<1> HIDE DEF a
<1>4. /\ Len(a) = 7 + n
      /\ \A i \in 1 .. 7 : a[i] = h[i]
      /\ \A i \in 8 .. 7 + n : a[i] = "data"
  BY <1>1, <1>2, <1>3
<1>5. /\ 2 \in 1 .. Len(a) /\ 6 \in 1 .. Len(a) /\ 7 \in 1 .. Len(a)
      /\ \A j \in 1 .. Len(a) : a[j] = "Date" <=> j = 2
      /\ \A j \in 1 .. Len(a) : a[j] = "Content-Type" <=> j = 6
      /\ \A j \in 1 .. Len(a) : a[j] = "blank" <=> j = 7
  <2>1. \A j \in 1 .. Len(a) : j \in 1 .. 7 \/ j \in 8 .. 7 + n
    BY <1>4
  <2>2. /\ \A j \in 1 .. 7 : a[j] = "Date" <=> j = 2
        /\ \A j \in 1 .. 7 : a[j] = "Content-Type" <=> j = 6
        /\ \A j \in 1 .. 7 : a[j] = "blank" <=> j = 7
    BY <1>1, <1>4
  <2> QED
    BY <1>4, <2>1, <2>2
<1>6. /\ \A t \in {"Date", "Content-Type", "blank"} : Cardinality({j \in DOMAIN a : a[j] = t}) = 1
      /\ BodyOf(a) = SubSeq(a, 7 + 1, Len(a))
  BY <1>3, <1>5, Marks, Zenon
<1>7. SubSeq(a, 8, 7 + n) = d
  <2> DEFINE b == SubSeq(a, 8, 7 + n)
  <2>1. \A i \in 8 .. 7 + n : a[i] \in Items
    BY <1>4 DEF Items
  <2>2. /\ b \in Seq(Items) /\ Len(b) = IF 8 <= 7 + n THEN 7 + n - 8 + 1 ELSE 0
        /\ \A i \in 1 .. 7 + n - 8 + 1 : b[i] = a[8 + i - 1]
    BY <2>1, SubSeqProperties
  <2> HIDE DEF b
  <2>3. Len(b) = n /\ \A i \in 1 .. n : b[i] = "data"
    BY <1>4, <2>2
  <2>4. b = d
    BY <1>2, <2>2, <2>3, SeqEqual
  <2> QED
    BY <2>4 DEF b
<1>8. a # <<>> /\ a[1] = "200"
  BY <1>1, <1>3, <1>4
<1>9. BodyOf(a) = d
  BY <1>4, <1>6, <1>7
<1> QED
  BY <1>3, <1>6, <1>8, <1>9 DEF a, h, d

LEMMA NoData == ASSUME NEW s \in Seq(Items) PROVE s \o Data(0) = s
<1>1. Data(0) \in Seq(Items) /\ Len(Data(0)) = 0
  BY DataTyped
<1>2. Data(0) = <<>>
  BY <1>1, EmptySeq
<1> QED
  BY <1>2, ConcatEmptySeq

(* The answer to any request is a whole one.                               *)
LEMMA AnswerWhole ==
  ASSUME NEW n \in Nat
  PROVE  LET a == Answer(n)
         IN /\ a \in Seq(Items) /\ a # <<>> /\ a[1] = Status
            /\ \A t \in {"Date", "Content-Type", "blank"} : Cardinality({j \in DOMAIN a : a[j] = t}) = 1
            /\ BodyOf(a) = IF req.method = "HEAD" THEN <<>>
                           ELSE IF Status = "200" THEN Data(n) ELSE <<"html">>
<1> DEFINE a == Answer(n)
           Whole == /\ a \in Seq(Items) /\ a # <<>> /\ a[1] = Status
                    /\ \A t \in {"Date", "Content-Type", "blank"} : Cardinality({j \in DOMAIN a : a[j] = t}) = 1
                    /\ BodyOf(a) = IF req.method = "HEAD" THEN <<>>
                                   ELSE IF Status = "200" THEN Data(n) ELSE <<"html">>
<1> SUFFICES Whole
  OBVIOUS
<1> HIDE DEF a
<1>1. CASE req.method \in {"GET", "HEAD"} /\ info # "regular"
  <2>1. CASE req.method = "GET"
    <3>1. a = Page("404") /\ Status = "404"
      BY <1>1, <2>1 DEF a, Answer, not_found, Status
    <3> QED
      BY <2>1, <3>1, PageWhole
  <2>2. CASE req.method = "HEAD"
    <3>1. a = Front(Page("404")) /\ Status = "404"
      BY <1>1, <2>2 DEF a, Answer, not_found, Status
    <3> QED
      BY <2>2, <3>1, HeadWhole
  <2> QED
    BY <1>1, <2>1, <2>2
<1>2. CASE req.method = "HEAD" /\ info = "regular"
  <2>1. a = FileHeader \o Data(0) /\ Status = "200"
    <3>1. FileHeader \in Seq(Items)
      BY FileHeaderIs DEF Items
    <3> QED
      BY <1>2, <3>1, NoData DEF a, Answer, Status
  <2>2. Data(0) = <<>>
    BY DataTyped, EmptySeq
  <2>3. Status = "200" /\ 0 \in Nat
    BY <2>1
  <2>4. /\ a \in Seq(Items) /\ a # <<>> /\ a[1] = "200"
        /\ \A t \in {"Date", "Content-Type", "blank"} :
             Cardinality({j \in DOMAIN a : a[j] = t}) = 1
        /\ BodyOf(a) = Data(0)
    BY <2>1, <2>3, FileWhole, Zenon
  <2> QED
    BY <1>2, <2>2, <2>3, <2>4
<1>3. CASE req.method = "GET" /\ info = "regular"
  <2>1. a = FileHeader \o Data(n) /\ Status = "200"
    BY <1>3 DEF a, Answer, Status
  <2> QED
    BY <1>3, <2>1, FileWhole
<1>4. CASE req.method = "POST"
  <2>1. a = Page("405") /\ Status = "405"
    BY <1>4 DEF a, Answer, Status, method_not_allowed
  <2> QED
    BY <1>4, <2>1, PageWhole
<1>5. CASE req.method \notin {"GET", "HEAD", "POST"}
  <2>1. a = Page("501") /\ Status = "501"
    BY <1>5 DEF a, Answer, Status, not_implemented
  <2> QED
    BY <1>5, <2>1, PageWhole
<1> QED
  BY <1>1, <1>2, <1>3, <1>4, <1>5

-----------------------------------------------------------------------------
LEMMA SameInput ==
  ASSUME input' = input
  PROVE  /\ Accepted' = Accepted /\ Announced' = Announced
         /\ HeaderEnd(input)' = HeaderEnd(input) /\ Length(input)' = Length(input)
BY DEF Accepted, Announced, Lengths, HeaderEnd, Length

LEMMA InitIInv == Init => IInv
<1> SUFFICES ASSUME Init PROVE IInv
  OBVIOUS
<1> USE DEF Init
<1>1. input \in Inputs /\ Length(input) \in Nat
  BY InputTyped
<1>2. Typed
  <2>1. MAX_REQUEST_BODY_LENGTH \in Nat /\ Blocks \in Nat /\ MaxTouch \in Nat
    BY HttpRequestAssumption
  <2>2. TypeOK
    <3>1. input \in Inputs /\ sent \in 0 .. Length(input) /\ pos \in 0 .. sent
      BY <1>1
    <3>2. closed = FALSE /\ gone = FALSE /\ touched = 0 /\ req.length = 0 /\ left = -1
      BY DEF NoRequest
    <3>3. closed \in BOOLEAN /\ gone \in BOOLEAN
      BY <3>2
    <3>4. touched \in 0 .. MaxTouch 
      BY <2>1, <3>2
    <3>5. req.length \in 0 .. MAX_REQUEST_BODY_LENGTH
      BY <2>1, <3>2
    <3>6. left \in -1 .. Blocks
      BY <2>1, <3>2
    <3>7. {size, promised} \subseteq 0 .. Blocks /\ changed \in BOOLEAN
      <4>1. size \in 0 .. Blocks /\ promised = 0 /\ changed = FALSE
        OBVIOUS
      <4>2. 0 \in 0 .. Blocks
        BY <2>1
      <4> QED
        BY ONLY <4>1, <4>2
    <3> QED
      BY <3>1, <3>3, <3>4, <3>5, <3>6, <3>7 DEF TypeOK
  <2>3. req = [method |-> req.method, header |-> req.header, length |-> req.length] /\ req.header = <<>>
    BY DEF NoRequest
  <2> QED
    BY <2>2, <2>3, EmptySeq DEF Typed
<1>3. Len(req.header) = 0 /\ req.header = <<>> /\ req.length = 0
  BY EmptySeq DEF NoRequest
<1>4. Listed
  BY <1>3 DEF Listed
<1>5. Judged
  BY <1>3 DEF Judged, Places, Parsing, Parsed
<1>6. Allocated
  BY <1>3 DEF Allocated, Held, FieldBlocks
<1>7. Printed
  BY DEF Printed, Parsing
<1> QED
  BY <1>2, <1>4, <1>5, <1>6, <1>7 DEF IInv

(* An answer stays one while the request and what was announced stay.       *)
LEMMA AnswerStays ==
  ASSUME req'.method = req.method, info' = info, promised' = promised, changed' = changed,
         Answered(got \o out), got' \o out' = got \o out
  PROVE  Answered(got \o out)'
<1>1. PICK n \in Nat : (changed \/ n = promised) /\ got \o out = Answer(n)
  BY DEF Answered
<1>2. Answer(n)' = Answer(n)
  BY DEF Answer
<1> QED
  BY <1>1, <1>2 DEF Answered

(* What the client and the file system do leaves the program where it is.   *)
LEMMA Outside ==
  ASSUME IInv, UNCHANGED <<input, pc, pos, req, heap, info, promised, out, got, code>>,
         changed => changed', left' = left \/ (changed' /\ left' >= 0),
         pc = "open" => size' = size \/ changed'
  PROVE  Listed' /\ Judged' /\ Allocated' /\ Printed'
<1>1. Listed'
  BY SameInput DEF IInv, Listed
<1>2. Judged'
  BY SameInput DEF IInv, Judged
<1>3. Allocated'
  BY DEF IInv, Allocated, Held
<1>4. \A n : Answer(n)' = Answer(n)
  BY DEF Answer
<1>5. Answered(got \o out) => Answered(got \o out)'
  BY <1>4 DEF Answered
<1>6. Answered(got) => Answered(got)'
  BY <1>4 DEF Answered
<1>7. Copied => Copied'
  BY DEF Copied
<1>8. pc' = "open" => got' \o out' = FileHeader /\ (changed' \/ size' = promised')
  BY DEF IInv, Printed
<1>9. pc' = "copy" => left' >= 0 /\ Copied'
  BY <1>7 DEF IInv, Printed
<1>10. Printed'
  BY <1>5, <1>6, <1>8, <1>9, SameInput DEF IInv, Printed
<1> QED
  BY <1>1, <1>2, <1>3, <1>10

LEMMA EnvironmentKeeps ==
  ASSUME IInv, Send \/ CloseInput \/ Leave \/ ChangePath \/ ChangeOpen \/ UNCHANGED vars
  PROVE  IInv'
<1>1. /\ UNCHANGED <<input, pc, pos, req, heap, info, promised, out, got, code>>
      /\ left' = left \/ (changed' /\ left >= 0 /\ left' \in 0 .. Blocks)
      /\ changed' = changed \/ changed' = (changed \/ pc = "open") \/ changed' = TRUE
      /\ pc = "open" => size' = size \/ changed'
  BY DEF Send, CloseInput, Leave, ChangePath, ChangeOpen, vars, client, program
<1>2. Length(input) \in Nat /\ Length(input)' = Length(input)
  BY <1>1, InputTyped, SameInput DEF IInv, Typed, TypeOK
<1>3. /\ changed \in BOOLEAN /\ changed' \in BOOLEAN /\ (changed => changed')
      /\ left' = left \/ (changed' /\ left' >= 0)
      /\ left' \in -1 .. Blocks /\ (left' >= 0 => pc' = "copy")
  <2>1. Blocks \in Nat
    BY HttpRequestAssumption
  <2>2. changed \in BOOLEAN /\ left \in -1 .. Blocks /\ (left >= 0 => pc = "copy")
    BY DEF IInv, Typed, TypeOK
  <2>3. changed' \in BOOLEAN /\ (changed => changed')
    BY <1>1, <2>2, Zenon
  <2>4. /\ left' = left \/ (changed' /\ left' >= 0)
        /\ left' \in -1 .. Blocks /\ (left' >= 0 => pc' = "copy")
    <3>1. CASE left' = left
      BY <1>1, <2>2, <3>1
    <3>2. CASE changed' /\ left >= 0 /\ left' \in 0 .. Blocks
      BY <1>1, <2>1, <2>2, <3>2
    <3> QED
      BY <1>1, <3>1, <3>2
  <2> QED
    BY <2>2, <2>3, <2>4
<1>4. Listed' /\ Judged' /\ Allocated' /\ Printed'
  BY <1>1, <1>3, Outside
<1>5. touched' \in 0 .. MaxTouch /\ {size', promised'} \subseteq 0 .. Blocks
  <2>1. MaxTouch \in Nat /\ touched \in 0 .. MaxTouch /\ {size, promised} \subseteq 0 .. Blocks
    BY HttpRequestAssumption DEF IInv, Typed, TypeOK
  <2>2. touched' = touched \/ (touched < MaxTouch /\ touched' = touched + 1)
    BY DEF Send, CloseInput, Leave, ChangePath, ChangeOpen, vars, client, program
  <2>3. size' = size \/ size' \in 0 .. Blocks
    BY DEF Send, CloseInput, Leave, ChangePath, ChangeOpen, vars, client, program
  <2> QED
    BY <1>1, <2>1, <2>2, <2>3
<1>6. /\ sent' \in 0 .. Length(input)' /\ pos' \in 0 .. sent'
      /\ closed' \in BOOLEAN /\ gone' \in BOOLEAN /\ file' \in {"absent", "other", "regular"}
  <2>1. /\ sent \in 0 .. Length(input) /\ pos \in 0 .. sent
        /\ closed \in BOOLEAN /\ gone \in BOOLEAN /\ file \in {"absent", "other", "regular"}
    BY DEF IInv, Typed, TypeOK
  <2>2. sent' = sent \/ (sent < Length(input) /\ sent' = sent + 1)
    BY DEF Send, CloseInput, Leave, ChangePath, ChangeOpen, vars, client, program
  <2>3. /\ closed' = closed \/ closed' = TRUE
        /\ gone' = gone \/ gone' = TRUE
        /\ file' = file \/ file' \in {"absent", "other", "regular"}
    BY DEF Send, CloseInput, Leave, ChangePath, ChangeOpen, vars, client, program
  <2>4. sent' \in 0 .. Length(input)' /\ pos' \in 0 .. sent'
    <3>1. pos' = pos /\ Length(input)' = Length(input) /\ Length(input) \in Nat
      BY <1>1, <1>2
    <3> QED
      BY ONLY <3>1, <2>1, <2>2
  <2> QED
    BY ONLY <2>1, <2>3, <2>4
<1>7. Typed'
  BY <1>1, <1>3, <1>5, <1>6 DEF IInv, Typed, TypeOK
<1> QED
  BY <1>4, <1>7 DEF IInv

(* A step of the program keeps the types if its own variables keep them.   *)
LEMMA TypedStep ==
  ASSUME Typed, UNCHANGED client, pos' \in 0 .. sent, pc' \in Places,
         req' = [method |-> req'.method, header |-> req'.header, length |-> req'.length],
         req'.header \in Seq(Nat), req'.length \in 0 .. MAX_REQUEST_BODY_LENGTH,
         info' \in {"none", "missing", "regular"}, promised' \in 0 .. Blocks,
         left' \in -1 .. Blocks, left' >= 0 => pc' = "copy",
         code' \in -1 .. 1, code' >= 0 <=> pc' = "exited",
         out' \in Seq(Items), got' \in Seq(Items)
  PROVE  Typed'
<1>1. /\ input' = input /\ sent' = sent /\ closed' = closed /\ gone' = gone /\ file' = file
      /\ size' = size /\ touched' = touched /\ changed' = changed
  BY DEF client
<1>2. Length(input)' = Length(input)
  BY <1>1, SameInput
<1>3. input' \in Inputs /\ sent' \in 0 .. Length(input)' /\ pos' \in 0 .. sent' /\ touched' \in 0 .. MaxTouch
  BY <1>1, <1>2 DEF Typed, TypeOK
<1>4. closed' \in BOOLEAN /\ gone' \in BOOLEAN /\ file' \in {"absent", "other", "regular"}
  BY <1>1 DEF Typed, TypeOK
<1>5. changed' \in BOOLEAN /\ {size', promised'} \subseteq 0 .. Blocks
  BY <1>1 DEF Typed, TypeOK
<1> QED
  BY <1>3, <1>4, <1>5 DEF Typed, TypeOK, Places

(* Wherever the program gives up, nothing has been printed yet or the       *)
(* request is one that has an answer.                                      *)
LEMMA ExitKeeps ==
  ASSUME IInv, pc # "exited", log_exit
  PROVE  IInv'
<1> USE DEF log_exit, Exits
<1>1. input' = input /\ pos' = pos /\ req' = req /\ heap' = heap /\ info' = info /\ promised' = promised
      /\ pc' = "exited" /\ code' = 1 /\ left' = -1 /\ out' = <<>>
  BY DEF client
<1>2. got' \in Seq(Items) /\ (got = <<>> /\ out = <<>> => got' = <<>>)
  BY ConcatProperties, ConcatEmptySeq DEF IInv, Typed
<1>3. Typed'
  <2>1. -1 \in -1 .. Blocks /\ 1 \in -1 .. 1
    BY HttpRequestAssumption
  <2>2. /\ pos' \in 0 .. sent /\ req' = [method |-> req'.method, header |-> req'.header, length |-> req'.length]
        /\ req'.header \in Seq(Nat) /\ req'.length \in 0 .. MAX_REQUEST_BODY_LENGTH
        /\ info' \in {"none", "missing", "regular"} /\ promised' \in 0 .. Blocks
    BY <1>1 DEF IInv, Typed, TypeOK
  <2>3. pc' \in Places /\ out' \in Seq(Items)
    BY <1>1, EmptySeq DEF Places
  <2> QED
    BY <1>1, <1>2, <2>1, <2>2, <2>3, TypedStep DEF IInv
<1>4. Listed'
  BY <1>1 DEF IInv, Listed
<1>5. Judged'
  BY <1>1, SameInput DEF IInv, Judged, Parsing, Parsed
<1>6. Allocated'
  <2>1. heap = Held
    BY DEF IInv, Allocated
  <2>2. Corrupt \notin heap
    BY <2>1 DEF Held, FieldBlocks, Corrupt, Block
  <2>3. Block("body") \in heap => req.length # 0
    BY <2>1 DEF Held, FieldBlocks, Block
  <2> QED
    BY <1>1, <2>2, <2>3 DEF Allocated
<1>7. Printed'
  <2>1. Accepted \/ (got = <<>> /\ out = <<>>)
    BY DEF IInv, Typed, TypeOK, Judged, Printed, Parsing, Parsed
  <2>2. Accepted' = Accepted
    BY <1>1, SameInput
  <2> QED
    BY <1>1, <1>2, <2>1, <2>2 DEF Printed, Parsing
<1> QED
  BY <1>3, <1>4, <1>5, <1>6, <1>7 DEF IInv

(* Nothing is printed before there is a whole request.                      *)
LEMMA QuietStep ==
  ASSUME IInv, Quiet, pc \in Parsing \cup {"read"}, pc' \in Parsing \cup {"read", "respond"},
         pos' \in 0 .. sent,
         req' = [method |-> req'.method, header |-> req'.header, length |-> req'.length],
         req'.header \in Seq(Nat), req'.length \in 0 .. MAX_REQUEST_BODY_LENGTH
  PROVE  /\ Typed' /\ Printed'
         /\ input' = input /\ info' = "none" /\ code' = -1
<1>1. UNCHANGED client /\ info' = info /\ promised' = promised /\ left' = left /\ out' = out /\ got' = got /\ code' = code
  BY DEF Quiet
<1>2. pc # "exited" /\ pc # "copy" /\ pc' # "exited" /\ pc' # "copy" /\ pc' \in Places
  BY DEF Parsing, Places
<1>3. code = -1 /\ left = -1
  <2>1. /\ code \in -1 .. 1 /\ ~(code >= 0)
        /\ left \in -1 .. Blocks /\ ~(left >= 0)
    BY <1>2 DEF IInv, Typed, TypeOK
  <2>2. Blocks \in Nat
    BY HttpRequestAssumption
  <2> QED
    BY ONLY <2>1, <2>2
<1>4. info = "none" /\ got = <<>> /\ out = <<>>
  BY DEF IInv, Printed
<1>5. info' \in {"none", "missing", "regular"} /\ promised' \in 0 .. Blocks
  BY <1>1, <1>4 DEF IInv, Typed, TypeOK
<1>6. left' \in -1 .. Blocks /\ (left' >= 0 => pc' = "copy") /\ code' \in -1 .. 1 /\ (code' >= 0 <=> pc' = "exited")
  BY <1>1, <1>2, <1>3, HttpRequestAssumption DEF IInv, Typed, TypeOK
<1>7. out' \in Seq(Items) /\ got' \in Seq(Items)
  BY <1>1 DEF IInv, Typed
<1>8. Typed'
  BY <1>1, <1>2, <1>5, <1>6, <1>7, TypedStep DEF IInv
<1>9. Printed'
  <2>1. pc' \notin {"open", "copy", "flush", "free", "exited"}
    BY DEF Parsing
  <2>2. ~(code' = 0)
    BY <1>1, <1>3
  <2> QED
    BY <1>1, <1>4, <2>1, <2>2 DEF Printed
<1> QED
  BY <1>1, <1>3, <1>4, <1>8, <1>9 DEF client

LEMMA StartKeeps == ASSUME IInv, Start PROVE IInv'
<1>1. pc = "start" /\ pos = 0 /\ req.header = <<>> /\ req.length = 0 /\ heap = Held
  BY DEF Start, IInv, Listed, Judged, Allocated, Parsing
<1>2. CASE log_exit
  BY <1>1, <1>2, ExitKeeps
<1>3. CASE pc' = "line" /\ heap' = heap \cup {Block("req")} /\ Quiet /\ UNCHANGED <<pos, req>>
  <2>1. pos' \in 0 .. sent /\ req' = req
    BY <1>3 DEF IInv, Typed, TypeOK
  <2>2. Typed' /\ Printed' /\ input' = input /\ info' = "none" /\ code' = -1
    BY <1>1, <1>3, <2>1, QuietStep DEF IInv, Typed, TypeOK, Parsing
  <2>3. Listed'
    BY <1>1, <1>3, <2>2 DEF IInv, Listed
  <2>4. Judged'
    BY <1>1, <1>3, <2>1, <2>2 DEF Judged, Places, Parsing, Parsed
  <2>5. Allocated'
    BY <1>1, <1>3, <2>1, <2>2 DEF Allocated, Held
  <2> QED
    BY <2>2, <2>3, <2>4, <2>5 DEF IInv
<1> QED
  BY <1>2, <1>3 DEF Start

LEMMA RequestLineKeeps == ASSUME IInv, read_request_line PROVE IInv'
<1>1. pc = "line" /\ pos = 0 /\ req.header = <<>> /\ req.length = 0 /\ heap = Held
  BY DEF read_request_line, IInv, Listed, Judged, Allocated, Parsing
<1>2. CASE log_exit
  BY <1>1, <1>2, ExitKeeps
<1>3. CASE /\ HasLine /\ input.line.ok
           /\ req' = [req EXCEPT !.method = upcase(input.line.method)]
           /\ heap' = heap \cup {Block("method"), Block("path")}
           /\ pos' = 1 /\ pc' = "fields" /\ Quiet
  <2>1. req' = [method |-> req'.method, header |-> req.header, length |-> req.length]
    BY <1>3 DEF IInv, Typed
  <2>2. pos' \in 0 .. sent
    <3>1. Length(input) \in Nat
      BY InputTyped DEF IInv, Typed, TypeOK
    <3> QED
      BY <1>1, <1>3, <3>1 DEF HasLine, IInv, Typed, TypeOK
  <2>3. req'.header = req.header /\ req'.length = req.length
    BY <2>1
  <2>4. req'.header \in Seq(Nat) /\ req'.length \in 0 .. MAX_REQUEST_BODY_LENGTH
    BY <2>3 DEF IInv, Typed, TypeOK
  <2>5. Typed' /\ Printed' /\ input' = input /\ info' = "none" /\ code' = -1
    BY <1>1, <1>3, <2>1, <2>2, <2>3, <2>4, QuietStep DEF Parsing
  <2>6. Len(req.header) = 0 /\ Len(input.fields) \in Nat
    BY <1>1, EmptySeq, InputTyped DEF IInv, Typed, TypeOK
  <2>7. Listed'
    BY <1>1, <1>3, <2>3, <2>5, <2>6 DEF Listed
  <2>8. Judged'
    BY <1>1, <1>3, <2>3, <2>5, <2>6 DEF Judged, Places, Parsing, Parsed
  <2>9. Allocated'
    <3>1. heap = {Block("req")} \cup FieldBlocks(0)
      BY <1>1, <2>6 DEF Held
    <3>2. Held' = {Block("req")} \cup {Block("method"), Block("path")} \cup FieldBlocks(0)
      BY <1>1, <1>3, <2>3, <2>6 DEF Held
    <3> QED
      BY <1>3, <2>5, <3>1, <3>2 DEF Allocated
  <2> QED
    BY <2>5, <2>7, <2>8, <2>9 DEF IInv
<1> QED
  BY <1>2, <1>3 DEF read_request_line

LEMMA PushIs ==
  ASSUME NEW h \in Seq(Nat), NEW f \in Nat
  PROVE  /\ Push(h, f) \in Seq(Nat) /\ Len(Push(h, f)) = Len(h) + 1 /\ Len(h) \in Nat
         /\ Push(h, f)[1] = f /\ \A i \in 2 .. Len(h) + 1 : Push(h, f)[i] = h[i - 1]
<1> DEFINE s == <<f>>
           v == s \o h
<1>1. s \in Seq(Nat) /\ Len(s) = 1 /\ s[1] = f
  OBVIOUS
<1> HIDE DEF s
<1>2. /\ v \in Seq(Nat) /\ Len(v) = Len(s) + Len(h)
      /\ \A i \in 1 .. Len(s) + Len(h) : v[i] = IF i <= Len(s) THEN s[i] ELSE h[i - Len(s)]
  BY <1>1, ConcatProperties, Zenon
<1>3. Len(h) \in Nat
  BY LenProperties
<1> HIDE DEF v
<1>4. Len(v) = Len(h) + 1 /\ v[1] = f /\ \A i \in 2 .. Len(h) + 1 : v[i] = h[i - 1]
  BY <1>1, <1>2, <1>3
<1> QED
  BY <1>2, <1>3, <1>4 DEF Push, v, s

LEMMA OneFieldMore ==
  ASSUME NEW n \in Nat
  PROVE  FieldBlocks(n + 1) = FieldBlocks(n) \cup Of(n + 1)
BY DEF FieldBlocks, Of

LEMMA HeaderFieldKeeps == ASSUME IInv, read_header_field PROVE IInv'
<1> DEFINE n == Len(req.header)
<1>1. /\ pc = "fields" /\ pos = 1 + n /\ pos <= 1 + Len(input.fields)
      /\ req.length = 0 /\ heap = Held /\ input.line.ok
      /\ \A i \in 1 .. n : input.fields[i].ok
      /\ \A i \in 1 .. n : req.header[i] = n + 1 - i
  BY DEF read_header_field, IInv, Listed, Judged, Allocated, Parsing, Places
<1>2. /\ n \in Nat /\ req.header \in Seq(Nat) /\ Len(input.fields) \in Nat
      /\ DOMAIN input.fields = 1 .. Len(input.fields)
      /\ input.bytes \in Nat /\ input.blank \in BOOLEAN /\ Length(input) \in Nat
      /\ sent \in 0 .. Length(input) /\ pos \in 0 .. sent
      /\ req = [method |-> req.method, header |-> req.header, length |-> req.length]
  BY LenProperties, InputTyped DEF IInv, Typed, TypeOK
<1>3. CASE log_exit
  BY <1>1, <1>3, ExitKeeps
<1>4. CASE /\ HasLine /\ pos <= Len(input.fields) /\ input.fields[pos].ok
           /\ req' = [req EXCEPT !.header = Push(@, pos)]
           /\ heap' = heap \cup Of(pos)
           /\ pos' = pos + 1 /\ UNCHANGED pc /\ Quiet
  <2> DEFINE h == Push(req.header, pos)
  <2>1. /\ h \in Seq(Nat) /\ Len(h) = n + 1 /\ h[1] = pos
        /\ \A i \in 2 .. n + 1 : h[i] = req.header[i - 1]
    <3>1. pos \in Nat
      BY <1>1, <1>2
    <3> QED
      BY <1>2, <3>1, PushIs, Zenon
  <2> HIDE DEF h
  <2>2. req' = [method |-> req.method, header |-> h, length |-> req.length]
    BY <1>2, <1>4 DEF h
  <2>3. req'.method = req.method /\ req'.header = h /\ req'.length = 0
    BY <1>1, <2>2
  <2>4. pos' \in 0 .. sent /\ req'.length \in 0 .. MAX_REQUEST_BODY_LENGTH
    BY <1>2, <1>4, <2>3, HttpRequestAssumption DEF HasLine
  <2>5. Typed' /\ Printed' /\ input' = input /\ info' = "none" /\ code' = -1
    BY <1>1, <1>4, <2>1, <2>2, <2>3, <2>4, QuietStep DEF Parsing
  <2>6. \A i \in 1 .. n + 1 : h[i] = n + 2 - i
    <3>1. SUFFICES ASSUME NEW i \in 1 .. n + 1 PROVE h[i] = n + 2 - i
      OBVIOUS
    <3>2. CASE i = 1
      BY <1>1, <1>2, <2>1, <3>2
    <3>3. CASE i # 1
      <4>1. i \in 2 .. n + 1 /\ i - 1 \in 1 .. n
        BY <1>2, <3>3
      <4> QED
        BY <1>1, <1>2, <2>1, <4>1
    <3> QED
      BY <3>2, <3>3
  <2>7. Listed'
    <3>1. Len(req'.header) = n + 1 /\ pos' = 1 + Len(req'.header) /\ pos' <= 1 + Len(input.fields)
      BY <1>1, <1>2, <1>4, <2>1, <2>3
    <3>2. \A i \in 1 .. Len(req'.header) : req'.header[i] = Len(req'.header) + 1 - i
      BY <1>2, <2>3, <2>6, <3>1
    <3> QED
      BY <1>1, <1>4, <2>5, <3>1, <3>2 DEF Listed
  <2>8. \A i \in 1 .. n + 1 : input.fields[i].ok
    BY <1>1, <1>2, <1>4, SMTT(40)
  <2>9. Judged'
    BY <1>1, <1>4, <2>1, <2>3, <2>5, <2>8, SMTT(40) DEF Judged, Places, Parsing, Parsed
  <2>10. Allocated'
    <3>1. heap = {Block("req")} \cup {Block("method"), Block("path")} \cup FieldBlocks(n)
      BY <1>1 DEF Held
    <3>2. Held' = {Block("req")} \cup {Block("method"), Block("path")} \cup FieldBlocks(n + 1)
      BY <1>1, <1>4, <2>1, <2>3 DEF Held
    <3>3. FieldBlocks(n + 1) = FieldBlocks(n) \cup Of(pos)
      BY <1>1, <1>2, OneFieldMore
    <3> QED
      BY <1>1, <1>4, <2>5, <3>1, <3>2, <3>3 DEF Allocated
  <2> QED
    BY <2>5, <2>7, <2>9, <2>10 DEF IInv
<1>5. CASE /\ HasLine /\ pos = 1 + Len(input.fields)
           /\ pos' = pos + 1 /\ pc' = "body" /\ Quiet /\ UNCHANGED <<req, heap>>
  <2>1. pos' \in 0 .. sent /\ req' = req /\ req.length \in 0 .. MAX_REQUEST_BODY_LENGTH
    BY <1>1, <1>2, <1>5, HttpRequestAssumption DEF HasLine
  <2>2. Typed' /\ Printed' /\ input' = input /\ info' = "none" /\ code' = -1
    BY <1>1, <1>2, <1>5, <2>1, QuietStep DEF Parsing
  <2>3. n = Len(input.fields) /\ pos' = HeaderEnd(input) /\ input.blank
    BY <1>1, <1>2, <1>5 DEF HasLine, HeaderEnd, Length
  <2>4. Listed'
    BY <1>1, <1>5, <2>1, <2>2, <2>3, SameInput DEF Listed
  <2>5. Judged'
    <3>1. \A i \in DOMAIN input.fields : input.fields[i].ok
      BY <1>1, <1>2, <2>3
    <3> QED
      BY <1>1, <1>5, <2>1, <2>2, <2>3, <3>1 DEF Judged, Places, Parsing, Parsed
  <2>6. Allocated'
    BY <1>1, <1>5, <2>1, <2>2 DEF Allocated, Held
  <2> QED
    BY <2>2, <2>4, <2>5, <2>6 DEF IInv
<1> QED
  BY <1>3, <1>4, <1>5 DEF read_header_field

LEMMA AllocateBodyKeeps == ASSUME IInv, AllocateBody PROVE IInv'
<1>1. /\ pc = "body" /\ pos = HeaderEnd(input) /\ Len(req.header) = Len(input.fields)
      /\ req.length = 0 /\ heap = Held
      /\ input.line.ok /\ input.blank /\ \A i \in DOMAIN input.fields : input.fields[i].ok
      /\ \A i \in 1 .. Len(req.header) : req.header[i] = Len(req.header) + 1 - i
  BY DEF AllocateBody, IInv, Listed, Judged, Allocated, Parsing, Places
<1>2. /\ req.header \in Seq(Nat) /\ input \in Inputs /\ pos \in 0 .. sent
      /\ req = [method |-> req.method, header |-> req.header, length |-> req.length]
  BY DEF IInv, Typed, TypeOK
<1>3. input.bytes \in Nat /\ HeaderEnd(input) \in Nat /\ MAX_REQUEST_BODY_LENGTH \in Nat
  BY <1>2, InputTyped, HttpRequestAssumption
<1>4. content_length = Announced /\ Announced \in Int
  BY <1>1, <1>2, LengthRead
<1>5. CASE log_exit
  BY <1>1, <1>5, ExitKeeps
<1>6. CASE content_length = 0 /\ pc' = "respond" /\ Quiet /\ UNCHANGED <<pos, req, heap>>
  <2>1. req.length \in 0 .. MAX_REQUEST_BODY_LENGTH
    BY <1>1, <1>3
  <2>2. Typed' /\ Printed' /\ input' = input /\ info' = "none" /\ code' = -1
    BY <1>1, <1>2, <1>6, <2>1, QuietStep DEF Parsing
  <2>3. Accepted /\ Announced = 0 /\ pos = HeaderEnd(input) + Announced
    BY <1>1, <1>3, <1>4, <1>6 DEF Accepted
  <2>4. Listed'
    BY <1>1, <1>6, <2>2 DEF Listed
  <2>5. Judged'
    BY <1>1, <1>6, <2>2, <2>3, SameInput DEF Judged, Places, Parsing, Parsed
  <2>6. Allocated'
    BY <1>1, <1>6, <2>2 DEF Allocated, Held
  <2> QED
    BY <2>2, <2>4, <2>5, <2>6 DEF IInv
<1>7. CASE /\ TakesBody
           /\ req' = [req EXCEPT !.length = content_length]
           /\ heap' = heap \cup {Block("body")}
           /\ pc' = "read" /\ Quiet /\ UNCHANGED pos
  <2>1. Announced \in 1 .. MAX_REQUEST_BODY_LENGTH
    BY <1>3, <1>4, <1>7 DEF TakesBody
  <2>2. req' = [method |-> req.method, header |-> req.header, length |-> Announced]
    BY <1>2, <1>4, <1>7
  <2>3. req'.method = req.method /\ req'.header = req.header /\ req'.length = Announced
    BY <2>2
  <2>4. req'.length \in 0 .. MAX_REQUEST_BODY_LENGTH /\ req'.length # 0
    BY <1>3, <2>1, <2>3
  <2>5. Typed' /\ Printed' /\ input' = input /\ info' = "none" /\ code' = -1
    BY <1>1, <1>2, <1>7, <2>2, <2>3, <2>4, QuietStep DEF Parsing
  <2>6. Listed'
    BY <1>1, <1>7, <2>3, <2>5, SameInput DEF Listed
  <2>7. Judged'
    BY <1>1, <1>7, <2>3, <2>4, <2>5, SameInput DEF Judged, Places, Parsing, Parsed
  <2>8. Allocated'
    <3>1. heap = {Block("req")} \cup {Block("method"), Block("path")} \cup FieldBlocks(Len(req.header))
      BY <1>1 DEF Held
    <3>2. Held' = {Block("req")} \cup {Block("method"), Block("path")} \cup FieldBlocks(Len(req.header))
                    \cup {Block("body")}
      BY <1>7, <2>3, <2>4 DEF Held
    <3> QED
      BY <1>7, <2>5, <3>1, <3>2 DEF Allocated
  <2> QED
    BY <2>5, <2>6, <2>7, <2>8 DEF IInv
<1> QED
  BY <1>5, <1>6, <1>7 DEF AllocateBody

LEMMA ReadBodyKeeps == ASSUME IInv, ReadBody PROVE IInv'
<1>1. /\ pc = "read" /\ pos = HeaderEnd(input) /\ Len(req.header) = Len(input.fields)
      /\ req.length # 0 /\ req.length = Announced /\ heap = Held
      /\ input.line.ok /\ input.blank /\ \A i \in DOMAIN input.fields : input.fields[i].ok
      /\ \A i \in 1 .. Len(req.header) : req.header[i] = Len(req.header) + 1 - i
  BY DEF ReadBody, IInv, Listed, Judged, Allocated, Parsing, Places
<1>2. /\ req.header \in Seq(Nat) /\ input \in Inputs /\ pos \in 0 .. sent
      /\ sent \in 0 .. Length(input) /\ req.length \in 0 .. MAX_REQUEST_BODY_LENGTH
      /\ req = [method |-> req.method, header |-> req.header, length |-> req.length]
  BY DEF IInv, Typed, TypeOK
<1>3. /\ input.bytes \in Nat /\ Len(input.fields) \in Nat /\ Length(input) \in Nat
      /\ HeaderEnd(input) \in Nat /\ MAX_REQUEST_BODY_LENGTH \in Nat
  BY <1>2, InputTyped, HttpRequestAssumption
<1>4. CASE log_exit
  BY <1>1, <1>4, ExitKeeps
<1>5. CASE /\ sent - pos >= req.length
           /\ pos' = pos + req.length
           /\ pc' = "respond" /\ Quiet /\ UNCHANGED <<req, heap>>
  <2>1. pos' \in 0 .. sent
    BY <1>2, <1>3, <1>5
  <2>2. Typed' /\ Printed' /\ input' = input /\ info' = "none" /\ code' = -1
    BY <1>1, <1>2, <1>5, <2>1, QuietStep DEF Parsing
  <2>3. Accepted
    <3>1. Length(input) = HeaderEnd(input) + input.bytes
      <4>1. input.blank /\ Len(input.fields) \in Nat /\ input.bytes \in Nat
        BY <1>1, <1>3
      <4> QED
        BY ONLY <4>1 DEF Length, HeaderEnd
    <3>2. Announced \in 0 .. MAX_REQUEST_BODY_LENGTH /\ Announced <= input.bytes
      BY <1>1, <1>2, <1>3, <1>5, <3>1
    <3> QED
      BY <1>1, <3>2 DEF Accepted
  <2>4. Listed'
    BY <1>1, <1>5, <2>2 DEF Listed
  <2>5. Judged'
    BY <1>1, <1>5, <2>2, <2>3, SameInput DEF Judged, Places, Parsing, Parsed
  <2>6. Allocated'
    BY <1>1, <1>5, <2>2 DEF Allocated, Held
  <2> QED
    BY <2>2, <2>4, <2>5, <2>6 DEF IInv
<1> QED
  BY <1>4, <1>5 DEF ReadBody

-----------------------------------------------------------------------------
(* A step of the answer, up to what it prints.                              *)
LEMMA AnswerStep ==
  ASSUME IInv, pc \in Parsed, pc' \in Parsed, UNCHANGED <<client, pos, req, code>>,
         heap' = Held', info' \in {"none", "missing", "regular"}, promised' \in 0 .. Blocks,
         left' \in -1 .. Blocks, left' >= 0 => pc' = "copy",
         out' \in Seq(Items), got' \in Seq(Items)
  PROVE  /\ Typed' /\ Listed' /\ Judged' /\ Allocated'
         /\ code' = -1 /\ req.length \in 0 .. MAX_REQUEST_BODY_LENGTH
<1>1. input' = input /\ req' = req /\ pos' = pos /\ code' = code
  BY DEF client
<1>2. pc # "exited" /\ pc' # "exited" /\ pc' \in Places /\ pc' \notin Parsing \cup {"read"}
  BY DEF Parsed, Places, Parsing
<1>3. code = -1 /\ code' \in -1 .. 1 /\ (code' >= 0 <=> pc' = "exited")
  BY <1>1, <1>2 DEF IInv, Typed, TypeOK
<1>4. /\ pos' \in 0 .. sent
      /\ req' = [method |-> req'.method, header |-> req'.header, length |-> req'.length]
      /\ req'.header \in Seq(Nat) /\ req'.length \in 0 .. MAX_REQUEST_BODY_LENGTH
  BY <1>1 DEF IInv, Typed, TypeOK
<1>5. Typed'
  BY <1>2, <1>3, <1>4, TypedStep DEF IInv
<1>6. Listed'
  BY <1>1, <1>2 DEF IInv, Listed, Parsing
<1>7. Judged'
  BY <1>1, <1>2, <1>3, SameInput DEF IInv, Judged, Parsing, Parsed, Places
<1>8. Allocated'
  BY <1>1, <1>2, <1>3 DEF Allocated
<1> QED
  BY <1>1, <1>3, <1>4, <1>5, <1>6, <1>7, <1>8

LEMMA Written ==
  ASSUME out \in Seq(Items), got \in Seq(Items), NEW text \in Seq(Items), Write(text)
  PROVE  /\ out' \in Seq(Items) /\ got' \in Seq(Items)
         /\ got' \o out' = (got \o out) \o text
<1>1. CASE out' = out \o text /\ UNCHANGED got
  BY <1>1, ConcatProperties, ConcatAssociative, SMTT(40)
<1>2. CASE got' = got \o out \o text /\ out' = <<>>
  <2>1. got \o out \in Seq(Items) /\ (got \o out) \o text \in Seq(Items)
    BY ConcatProperties
  <2> QED
    BY <1>2, <2>1, EmptySeq, ConcatEmptySeq
<1> QED
  BY <1>1, <1>2 DEF Write

LEMMA FileinfoKeeps == ASSUME IInv, get_fileinfo PROVE IInv'
<1>1. /\ pc = "respond" /\ req.method \in {"GET", "HEAD"} /\ heap = Held
      /\ got = <<>> /\ out = <<>> /\ info = "none" /\ Accepted
  BY DEF get_fileinfo, IInv, Judged, Allocated, Printed, Parsed
<1>2. /\ left \in -1 .. Blocks /\ ~(left >= 0) /\ out \in Seq(Items) /\ got \in Seq(Items)
      /\ {size, promised} \subseteq 0 .. Blocks /\ Blocks \in Nat
  BY <1>1, HttpRequestAssumption DEF IInv, Typed, TypeOK
<1>3. FileHeader \in Seq(Items)
  BY FileHeaderIs DEF Items
<1>4. not_found(req.method) \in Seq(Items)
  BY PageWhole, HeadWhole DEF not_found
<1>5. CASE log_exit
  BY <1>1, <1>5, ExitKeeps
<1>6. CASE /\ file = "regular" /\ info' = "regular" /\ promised' = size
           /\ heap' = heap \cup {Block("info"), Block("fspath")}
           /\ Write(FileHeader)
           /\ pc' = IF req.method = "HEAD" THEN "flush" ELSE "open"
           /\ UNCHANGED <<client, pos, req, left, code>>
  <2>1. out' \in Seq(Items) /\ got' \in Seq(Items) /\ got' \o out' = FileHeader
    BY <1>1, <1>2, <1>3, <1>6, Written, ConcatEmptySeq
  <2>2. heap' = Held'
    BY <1>1, <1>6 DEF Held
  <2>3. /\ Typed' /\ Listed' /\ Judged' /\ Allocated' /\ code' = -1
    BY <1>1, <1>2, <1>6, <2>1, <2>2, AnswerStep DEF Parsed
  <2>4. Printed'
    <3>1. promised' \in Nat
      BY <1>2, <1>6
    <3>2. req.method = "HEAD" => Answer(promised)' = FileHeader
      BY <1>6 DEF Answer
    <3>3. req.method = "HEAD" => Answered(got \o out)'
      BY <2>1, <3>1, <3>2 DEF Answered
    <3> QED
      BY <1>1, <1>6, <2>1, <2>3, <3>3 DEF Printed, Parsing, client
  <2> QED
    BY <2>3, <2>4 DEF IInv
<1>7. CASE /\ file # "regular" /\ info' = "missing"
           /\ Write(not_found(req.method))
           /\ pc' = "flush"
           /\ UNCHANGED <<client, pos, req, heap, promised, left, code>>
  <2>1. out' \in Seq(Items) /\ got' \in Seq(Items) /\ got' \o out' = not_found(req.method)
    BY <1>1, <1>2, <1>4, <1>7, Written, ConcatEmptySeq
  <2>2. heap' = Held'
    BY <1>1, <1>7 DEF Held
  <2>3. /\ Typed' /\ Listed' /\ Judged' /\ Allocated' /\ code' = -1
    BY <1>1, <1>2, <1>7, <2>1, <2>2, AnswerStep DEF Parsed
  <2>4. Printed'
    <3>1. promised' \in Nat
      BY <1>2, <1>7
    <3>2. Answer(promised)' = not_found(req.method)
      BY <1>1, <1>7 DEF Answer
    <3>3. Answered(got \o out)'
      BY <2>1, <3>1, <3>2 DEF Answered
    <3> QED
      BY <1>1, <1>7, <2>3, <3>3 DEF Printed, Parsing
  <2> QED
    BY <2>3, <2>4 DEF IInv
<1> QED
  BY <1>5, <1>6, <1>7 DEF get_fileinfo

LEMMA RefuseKeeps == ASSUME IInv, Refuse PROVE IInv'
<1>1. /\ pc = "respond" /\ req.method \notin {"GET", "HEAD"} /\ heap = Held
      /\ got = <<>> /\ out = <<>> /\ info = "none" /\ Accepted
      /\ pc' = "flush" /\ UNCHANGED <<client, pos, req, heap, info, promised, left, code>>
  BY DEF Refuse, IInv, Judged, Allocated, Printed, Parsed
<1>2. /\ left \in -1 .. Blocks /\ ~(left >= 0) /\ out \in Seq(Items) /\ got \in Seq(Items)
      /\ promised \in 0 .. Blocks /\ promised \in Nat
  BY <1>1, HttpRequestAssumption DEF IInv, Typed, TypeOK
<1>3. PICK text \in Seq(Items) : Write(text) /\ text = Answer(promised)
  <2>1. method_not_allowed \in Seq(Items) /\ not_implemented \in Seq(Items)
    BY PageWhole DEF method_not_allowed, not_implemented
  <2> QED
    BY <1>1, <2>1 DEF Refuse, Answer
<1>4. out' \in Seq(Items) /\ got' \in Seq(Items) /\ got' \o out' = Answer(promised)
  BY <1>1, <1>2, <1>3, Written, ConcatEmptySeq
<1>5. heap' = Held'
  BY <1>1 DEF Held
<1>6. /\ Typed' /\ Listed' /\ Judged' /\ Allocated' /\ code' = -1
  BY <1>1, <1>2, <1>4, <1>5, AnswerStep DEF Parsed
<1>7. Printed'
  <2>1. Answer(promised)' = Answer(promised)
    BY <1>1 DEF Answer
  <2>2. Answered(got \o out)'
    BY <1>1, <1>2, <1>4, <2>1 DEF Answered
  <2> QED
    BY <1>1, <1>6, <2>2 DEF Printed, Parsing
<1> QED
  BY <1>6, <1>7 DEF IInv

LEMMA OpenKeeps == ASSUME IInv, Open PROVE IInv'
<1>1. /\ pc = "open" /\ req.method = "GET" /\ info = "regular" /\ heap = Held
      /\ got \o out = FileHeader
  BY DEF Open, IInv, Allocated, Printed
<1>2. /\ out \in Seq(Items) /\ got \in Seq(Items) /\ Blocks \in Nat
      /\ {size, promised} \subseteq 0 .. Blocks /\ (changed \/ size = promised)
  BY <1>1, HttpRequestAssumption DEF IInv, Typed, TypeOK, Printed
<1>3. CASE log_exit
  BY <1>1, <1>3, ExitKeeps
<1>4. CASE /\ file # "absent" /\ left' = size
           /\ pc' = "copy" /\ UNCHANGED <<client, pos, req, heap, info, promised, out, got, code>>
  <2>1. left' \in -1 .. Blocks /\ left' >= 0 /\ (changed' \/ 0 + left' = promised')
    BY <1>2, <1>4 DEF client
  <2>2. FileHeader \o Data(0) = FileHeader
    <3>1. FileHeader \in Seq(Items)
      BY FileHeaderIs DEF Items
    <3> QED
      BY <3>1, NoData
  <2>3. heap' = Held'
    BY <1>1, <1>4 DEF Held
  <2>4. /\ Typed' /\ Listed' /\ Judged' /\ Allocated' /\ code' = -1
    BY <1>1, <1>2, <1>4, <2>1, <2>3, AnswerStep DEF Parsed
  <2>5. Copied'
    <3>1. 0 \in Nat /\ got' \o out' = FileHeader \o Data(0)
      BY <1>1, <1>4, <2>2
    <3> QED
      BY <2>1, <3>1 DEF Copied
  <2>6. Printed'
    BY <1>1, <1>4, <2>1, <2>4, <2>5 DEF Printed, Parsing
  <2> QED
    BY <2>4, <2>6 DEF IInv
<1> QED
  BY <1>3, <1>4 DEF Open

LEMMA CopyKeeps == ASSUME IInv, Copy PROVE IInv'
<1>1. /\ pc = "copy" /\ req.method = "GET" /\ info = "regular" /\ heap = Held
      /\ left >= 0 /\ Copied
  BY DEF Copy, IInv, Allocated, Printed
<1>2. PICK n \in Nat : (changed \/ n + left = promised) /\ got \o out = FileHeader \o Data(n)
  BY <1>1 DEF Copied
<1>3. /\ left \in -1 .. Blocks /\ promised \in 0 .. Blocks /\ out \in Seq(Items) /\ got \in Seq(Items) /\ Blocks \in Nat
  BY HttpRequestAssumption DEF IInv, Typed, TypeOK
<1>4. CASE log_exit
  BY <1>1, <1>4, ExitKeeps
<1>5. CASE /\ left > 0 /\ left' = left - 1
           /\ Write(<<"data">>)
           /\ UNCHANGED <<client, pc, pos, req, heap, info, promised, code>>
  <2>1. <<"data">> \in Seq(Items)
    BY DEF Items
  <2>2. /\ out' \in Seq(Items) /\ got' \in Seq(Items)
        /\ got' \o out' = (FileHeader \o Data(n)) \o <<"data">>
    BY <1>2, <1>3, <1>5, <2>1, Written
  <2>3. /\ n + 1 \in Nat /\ (changed' \/ (n + 1) + left' = promised')
        /\ left' \in -1 .. Blocks /\ left' >= 0
    BY <1>2, <1>3, <1>5 DEF client
  <2>4. FileHeader \in Seq(Items)
    BY FileHeaderIs DEF Items
  <2>5. got' \o out' = FileHeader \o Data(n + 1)
    BY <2>2, <2>4, DataLonger
  <2>6. heap' = Held'
    BY <1>1, <1>5 DEF Held
  <2>7. /\ Typed' /\ Listed' /\ Judged' /\ Allocated' /\ code' = -1
    BY <1>1, <1>3, <1>5, <2>2, <2>3, <2>6, AnswerStep DEF Parsed
  <2>8. Copied'
    BY <2>3, <2>5 DEF Copied
  <2>9. Printed'
    BY <1>1, <1>5, <2>3, <2>7, <2>8 DEF Printed, Parsing
  <2> QED
    BY <2>7, <2>9 DEF IInv
<1>6. CASE /\ left = 0 /\ left' = -1 /\ pc' = "flush"
           /\ UNCHANGED <<client, pos, req, heap, info, promised, out, got, code>>
  <2>1. left' \in -1 .. Blocks /\ ~(left' >= 0) /\ (changed' \/ n = promised')
    BY <1>2, <1>3, <1>6 DEF client
  <2>2. heap' = Held'
    BY <1>1, <1>6 DEF Held
  <2>3. /\ Typed' /\ Listed' /\ Judged' /\ Allocated' /\ code' = -1
    BY <1>1, <1>3, <1>6, <2>1, <2>2, AnswerStep DEF Parsed
  <2>4. Answer(n)' = FileHeader \o Data(n)
    BY <1>1, <1>6 DEF Answer
  <2>5. Answered(got \o out)'
    BY <1>2, <1>6, <2>1, <2>4 DEF Answered
  <2>6. Printed'
    BY <1>1, <1>6, <2>1, <2>3, <2>5 DEF Printed, Parsing
  <2> QED
    BY <2>3, <2>6 DEF IInv
<1> QED
  BY <1>4, <1>5, <1>6 DEF Copy

LEMMA SignalKeeps == ASSUME IInv, signal_exit PROVE IInv'
BY ExitKeeps DEF signal_exit

LEMMA FlushKeeps == ASSUME IInv, Flush PROVE IInv'
<1>1. /\ pc = "flush" /\ pc' = "free" /\ heap = Held /\ Answered(got \o out)
      /\ got' = got \o out /\ out' = <<>>
      /\ UNCHANGED <<client, pos, req, info, promised, left, code>>
  BY DEF Flush, IInv, Allocated, Printed
<1>2. /\ left \in -1 .. Blocks /\ ~(left >= 0) /\ out \in Seq(Items) /\ got \in Seq(Items)
      /\ info \in {"none", "missing", "regular"} /\ promised \in 0 .. Blocks
  BY <1>1 DEF IInv, Typed, TypeOK
<1>3. got' \in Seq(Items) /\ out' \in Seq(Items) /\ got' \o out' = got \o out
  <2>1. got \o out \in Seq(Items)
    BY <1>2, ConcatProperties
  <2> QED
    BY <1>1, <2>1, EmptySeq, ConcatEmptySeq
<1>4. heap' = Held'
  <2> DEFINE kept == {Block("req")} \cup {Block("method"), Block("path")} \cup FieldBlocks(Len(req.header))
                       \cup (IF req.length = 0 THEN {} ELSE {Block("body")})
  <2>1. Held' = kept
    BY <1>1 DEF Held
  <2>2. Block("info") \notin kept /\ Block("fspath") \notin kept /\ Block("info") # Block("fspath")
    BY DEF Block, FieldBlocks
  <2>3. heap = kept \cup (IF info = "regular" THEN {Block("info"), Block("fspath")} ELSE {})
    BY <1>1 DEF Held
  <2> HIDE DEF kept
  <2>4. CASE info = "regular"
    <3>1. Free(heap, Block("fspath")) = kept \cup {Block("info")}
      BY <2>2, <2>3, <2>4 DEF Free, Touch
    <3>2. Free(kept \cup {Block("info")}, Block("info")) = kept
      BY <2>2 DEF Free, Touch
    <3> QED
      BY <1>1, <2>1, <2>4, <3>1, <3>2 DEF Flush
  <2>5. CASE info # "regular"
    BY <1>1, <2>1, <2>3, <2>5 DEF Flush
  <2> QED
    BY <2>4, <2>5
<1>5. /\ Typed' /\ Listed' /\ Judged' /\ Allocated' /\ code' = -1
  BY <1>1, <1>2, <1>3, <1>4, AnswerStep DEF Parsed
<1>6. Printed'
  <2>1. Answered(got \o out)'
    BY <1>1, <1>3, AnswerStays DEF client
  <2> QED
    BY <1>1, <1>5, <2>1 DEF Printed, Parsing
<1> QED
  BY <1>5, <1>6 DEF IInv

LEMMA FieldFreed ==
  ASSUME NEW n, NEW rest, rest \cap Of(n) = {}
  PROVE  FreeField(rest \cup Of(n), n) = rest
<1> DEFINE f == <<"field", n>>
           g == <<"name", n>>
           v == <<"value", n>>
<1>1. Of(n) = {f, g, v} /\ f # g /\ f # v /\ g # v
  BY DEF Of
<1>2. FreeField(rest \cup Of(n), n) = Free(Free(Free(Touch(rest \cup Of(n), f), g), v), f)
  BY DEF FreeField
<1> HIDE DEF f, g, v
<1>3. Touch(rest \cup Of(n), f) = rest \cup {f, g, v}
  BY <1>1 DEF Touch
<1>4. Free(rest \cup {f, g, v}, g) = rest \cup {f, v}
  BY <1>1 DEF Free, Touch
<1>5. Free(rest \cup {f, v}, v) = rest \cup {f}
  BY <1>1 DEF Free, Touch
<1>6. Free(rest \cup {f}, f) = rest
  BY <1>1 DEF Free, Touch
<1> QED
  BY <1>2, <1>3, <1>4, <1>5, <1>6

LEMMA FreeFieldKeeps == ASSUME IInv, free_field PROVE IInv'
<1> DEFINE n == Len(req.header)
           others == {Block("req")} \cup {Block("method"), Block("path")}
                       \cup (IF req.length = 0 THEN {} ELSE {Block("body")})
           rest == others \cup FieldBlocks(n - 1)
<1>1. /\ pc = "free" /\ req.header # <<>> /\ heap = Held /\ Answered(got \o out) /\ out = <<>>
      /\ heap' = FreeField(heap, Head(req.header))
      /\ req' = [req EXCEPT !.header = Tail(@)]
      /\ UNCHANGED <<client, info, promised, left, out, got, code, pc, pos>>
      /\ Accepted /\ req.length = Announced /\ pos = HeaderEnd(input) + Announced
      /\ \A i \in 1 .. n : req.header[i] = n + 1 - i
  BY DEF free_field, Quiet, IInv, Listed, Judged, Allocated, Printed, Parsed
<1>2. /\ req.header \in Seq(Nat) /\ req.length \in 0 .. MAX_REQUEST_BODY_LENGTH
      /\ req = [method |-> req.method, header |-> req.header, length |-> req.length]
      /\ left \in -1 .. Blocks /\ ~(left >= 0) /\ code = -1 /\ pos \in 0 .. sent
      /\ out \in Seq(Items) /\ got \in Seq(Items) /\ info \in {"none", "missing", "regular"}
      /\ promised \in 0 .. Blocks
  BY <1>1 DEF IInv, Typed, TypeOK
<1>3. /\ n \in Nat \ {0} /\ Tail(req.header) \in Seq(Nat) /\ Len(Tail(req.header)) = n - 1
      /\ \A i \in 1 .. n - 1 : Tail(req.header)[i] = req.header[i + 1]
      /\ Head(req.header) = req.header[1]
  BY <1>1, <1>2, HeadTailProperties, EmptySeq
<1>4. req' = [method |-> req.method, header |-> Tail(req.header), length |-> req.length]
  <2>1. /\ req' = [req EXCEPT !.header = Tail(@)]
        /\ req = [method |-> req.method, header |-> req.header, length |-> req.length]
    BY <1>1, <1>2
  <2> QED
    BY ONLY <2>1
<1>5. req'.method = req.method /\ req'.header = Tail(req.header) /\ req'.length = req.length
  BY <1>4
<1>6. Head(req.header) = n
  <2>1. Head(req.header) = req.header[1] /\ n \in Nat \ {0} /\ \A i \in 1 .. n : req.header[i] = n + 1 - i
    BY <1>1, <1>3
  <2> HIDE DEF n
  <2> QED
    BY ONLY <2>1
<1>7. Typed'
  <2>1. /\ pos' \in 0 .. sent /\ pc' \in Places
        /\ left' \in -1 .. Blocks /\ ~(left' >= 0)
        /\ out' \in Seq(Items) /\ got' \in Seq(Items) /\ info' \in {"none", "missing", "regular"}
        /\ promised' \in 0 .. Blocks
    BY <1>1, <1>2 DEF Places
  <2>2. code' \in -1 .. 1 /\ ~(code' >= 0) /\ pc' # "exited"
    BY <1>1, <1>2
  <2> QED
    BY <1>1, <1>2, <1>3, <1>4, <1>5, <2>1, <2>2, TypedStep DEF IInv
<1>8. input' = input
  BY <1>1 DEF client
<1>9. Listed'
  <2>1. \A i \in 1 .. n - 1 : Tail(req.header)[i] = n - i
    <3> SUFFICES ASSUME NEW i \in 1 .. n - 1 PROVE Tail(req.header)[i] = n - i
      OBVIOUS
    <3>1. i + 1 \in 1 .. n /\ n + 1 - (i + 1) = n - i
      <4>1. n \in Nat
        BY <1>3
      <4> HIDE DEF n
      <4> QED
        BY <4>1
    <3>2. req.header[i + 1] = n + 1 - (i + 1)
      BY <1>1, <3>1
    <3> QED
      BY <1>3, <3>1, <3>2
  <2> QED
    BY <1>1, <1>3, <1>5, <2>1 DEF Listed
<1>10. Judged'
  BY <1>1, <1>2, <1>5, <1>8, SameInput DEF IInv, Judged, Parsing, Parsed, Places
<1>11. Allocated'
  <2>1. heap = rest \cup Of(n)
    <3>1. heap = others \cup FieldBlocks(n)
      BY <1>1 DEF Held
    <3>2. FieldBlocks((n - 1) + 1) = FieldBlocks(n - 1) \cup Of((n - 1) + 1)
      <4>1. n - 1 \in Nat
        BY <1>3
      <4> QED
        BY <4>1, OneFieldMore, Zenon
    <3>3. (n - 1) + 1 = n
      BY <1>3
    <3> QED
      BY <3>1, <3>2, <3>3
  <2>2. rest \cap Of(n) = {}
    BY <1>3 DEF Block, FieldBlocks, Of
  <2>3. heap' = rest
    BY <1>1, <1>6, <2>1, <2>2, FieldFreed
  <2>4. Held' = rest
    BY <1>1, <1>3, <1>5 DEF Held
  <2> QED
    BY <1>1, <1>2, <2>3, <2>4 DEF Allocated
<1>12. Printed'
  <2>1. Answered(got \o out)'
    BY <1>1, <1>5, AnswerStays DEF client
  <2> QED
    BY <1>1, <1>2, <2>1 DEF Printed, Parsing
<1> QED
  BY <1>7, <1>9, <1>10, <1>11, <1>12 DEF IInv

LEMMA FreeRequestKeeps == ASSUME IInv, free_request PROVE IInv'
<1>1. /\ pc = "free" /\ req.header = <<>> /\ heap = Held /\ Answered(got \o out) /\ out = <<>>
      /\ heap' = Free(FreeBody(Free(Free(heap, Block("method")), Block("path"))), Block("req"))
      /\ UNCHANGED <<client, pos, req, info, promised>>
      /\ pc' = "exited" /\ code' = 0 /\ left' = -1 /\ out' = <<>>
      /\ got' = IF gone THEN got ELSE got \o out
      /\ Accepted /\ req.length = Announced /\ pos = HeaderEnd(input) + Announced
  BY DEF free_request, Exits, IInv, Judged, Allocated, Printed, Parsed
<1>2. /\ req.header \in Seq(Nat) /\ req.length \in 0 .. MAX_REQUEST_BODY_LENGTH
      /\ req = [method |-> req.method, header |-> req.header, length |-> req.length]
      /\ got \in Seq(Items) /\ pos \in 0 .. sent /\ info \in {"none", "missing", "regular"}
      /\ promised \in 0 .. Blocks
  BY DEF IInv, Typed, TypeOK
<1>3. got' = got \o out /\ got' \o out' = got' /\ got' \in Seq(Items) /\ out' \in Seq(Items)
  BY <1>1, <1>2, ConcatEmptySeq, EmptySeq
<1>4. input' = input
  BY <1>1 DEF client
<1>5. Typed'
  <2>1. -1 \in -1 .. Blocks /\ 0 \in -1 .. 1 /\ ~(-1 >= 0)
    BY HttpRequestAssumption
  <2>2. pc' \in Places /\ pc' = "exited" /\ code' >= 0
    BY <1>1 DEF Places
  <2>3. /\ pos' \in 0 .. sent /\ info' \in {"none", "missing", "regular"} /\ promised' \in 0 .. Blocks
        /\ req' = [method |-> req'.method, header |-> req'.header, length |-> req'.length]
        /\ req'.header \in Seq(Nat) /\ req'.length \in 0 .. MAX_REQUEST_BODY_LENGTH
    BY <1>1, <1>2
  <2>4. left' \in -1 .. Blocks /\ ~(left' >= 0) /\ code' \in -1 .. 1
    BY <1>1, <2>1
  <2> QED
    BY <1>1, <1>3, <2>2, <2>3, <2>4, TypedStep DEF IInv
<1>6. Listed'
  BY <1>1 DEF IInv, Listed
<1>7. Judged'
  BY <1>1, <1>4, SameInput DEF IInv, Judged, Parsing, Parsed, Places
<1>8. Allocated'
  <2> DEFINE m == Block("method")
             p == Block("path")
             r == Block("req")
             b == Block("body")
  <2>1. FieldBlocks(Len(req.header)) = {}
    BY <1>1, EmptySeq DEF FieldBlocks
  <2>2. heap = {r, m, p} \cup (IF req.length = 0 THEN {} ELSE {b})
    BY <1>1, <2>1 DEF Held
  <2>3. m # p /\ m # r /\ p # r /\ b # m /\ b # p /\ b # r
    BY DEF Block
  <2> HIDE DEF m, p, r, b
  <2>4. Free(Free(heap, m), p) = {r} \cup (IF req.length = 0 THEN {} ELSE {b})
    BY <2>2, <2>3 DEF Free, Touch
  <2>5. FreeBody({r} \cup (IF req.length = 0 THEN {} ELSE {b})) = {r}
    BY <2>3 DEF FreeBody, Free, Touch, b
  <2>6. Free({r}, r) = {}
    BY DEF Free, Touch
  <2>7. heap' = {}
    BY <1>1, <2>4, <2>5, <2>6 DEF m, p, r
  <2> QED
    BY <1>1, <2>7 DEF Allocated
<1>9. Printed'
  <2>1. Answered(got)'
    <3>1. Answered(got \o out)'
      BY <1>1, <1>3, AnswerStays DEF client
    <3> QED
      BY <1>3, <3>1 DEF Answered
  <2> QED
    BY <1>1, <1>3, <1>4, <2>1, SameInput DEF Printed, Parsing
<1> QED
  BY <1>5, <1>6, <1>7, <1>8, <1>9 DEF IInv

-----------------------------------------------------------------------------
LEMMA Inductive == Spec => []IInv
<1>1. IInv /\ [Next]_vars => IInv'
  <2> SUFFICES ASSUME IInv, [Next]_vars PROVE IInv'
    OBVIOUS
  <2>1. CASE Program
    BY <2>1, StartKeeps, RequestLineKeeps, HeaderFieldKeeps, AllocateBodyKeeps, ReadBodyKeeps,
       FileinfoKeeps, RefuseKeeps, OpenKeeps, CopyKeeps, FlushKeeps, SignalKeeps,
       FreeFieldKeeps, FreeRequestKeeps DEF Program
  <2>2. CASE Send \/ CloseInput \/ Leave \/ ChangePath \/ ChangeOpen \/ UNCHANGED vars
    BY <2>2, EnvironmentKeeps
  <2> QED
    BY <2>1, <2>2 DEF Next
<1> QED
  BY <1>1, InitIInv, PTL DEF Spec

(* Whatever the request, whatever allocation fails and wherever the client  *)
(* stops, no block is freed twice or used after it was freed, and an answer *)
(* leaves none behind.                                                     *)
THEOREM HeapSafe == Spec => []HeapBalanced
<1>1. IInv => HeapBalanced
  <2> SUFFICES ASSUME IInv PROVE HeapBalanced
    OBVIOUS
  <2>1. pc # "exited" => Corrupt \notin heap
    BY DEF IInv, Allocated, Held, FieldBlocks, Corrupt, Block
  <2>2. pc = "exited" => Corrupt \notin heap
    BY DEF IInv, Allocated
  <2> QED
    BY <2>1, <2>2 DEF HeapBalanced, IInv, Typed, Allocated
<1> QED
  BY <1>1, Inductive, PTL

(* The body that is read is as long as the last Content-Length says, and a  *)
(* body that is too long is not allocated.                                 *)
THEOREM BodyRead == Spec => []ReadsItsBody
<1>1. IInv => ReadsItsBody
  <2> SUFFICES ASSUME IInv PROVE ReadsItsBody
    OBVIOUS
  <2>1. code = 0 => pos = HeaderEnd(input) + Announced
    BY DEF IInv, Judged
  <2>2. Block("body") \in heap => req.length # 0
    <3>1. CASE pc = "exited"
      BY <3>1 DEF IInv, Allocated
    <3>2. CASE pc # "exited"
      BY <3>2 DEF IInv, Allocated, Held, FieldBlocks, Block
    <3> QED
      BY <3>1, <3>2
  <2>3. req.length # 0 => Announced \in 1 .. MAX_REQUEST_BODY_LENGTH
    BY HttpRequestAssumption, SMTT(40) DEF IInv, Judged, Typed, TypeOK
  <2> QED
    BY <2>1, <2>2, <2>3 DEF ReadsItsBody
<1> QED
  BY <1>1, Inductive, PTL

(* An answer that ends well is the one the request asks for, from its       *)
(* status to the last block of the file, and has the announced length      *)
(* unless the file that is read changed between lstat and its end; a       *)
(* request with anything wrong with it gets no part of an answer, whoever   *)
(* stops reading when.                                                     *)
THEOREM OneAnswer == Spec => []AnsweredWhole
<1>1. IInv => AnsweredWhole
  <2> SUFFICES ASSUME IInv PROVE AnsweredWhole
    OBVIOUS
  <2>1. ~Accepted => got \o out = <<>>
    <3> SUFFICES ASSUME ~Accepted PROVE got = <<>> /\ out = <<>>
      BY EmptySeq, ConcatEmptySeq
    <3> QED
      BY DEF IInv, Typed, TypeOK, Judged, Printed, Parsing, Parsed
  <2>2. CASE code = 0
    <3>1. PICK n \in Nat : (changed \/ n = promised) /\ got = Answer(n)
      BY <2>2 DEF IInv, Printed, Answered
    <3>2. /\ got # <<>> /\ got[1] = Status
          /\ \A t \in {"Date", "Content-Type", "blank"} : Cardinality({j \in DOMAIN got : got[j] = t}) = 1
          /\ BodyOf(got) = IF req.method = "HEAD" THEN <<>>
                           ELSE IF Status = "200" THEN Data(n) ELSE <<"html">>
      BY <3>1, AnswerWhole
    <3>3. Len(Data(n)) = n
      BY DataTyped
    <3> QED
      BY <2>1, <3>1, <3>2, <3>3 DEF AnsweredWhole, Data
  <2> QED
    BY <2>1, <2>2 DEF AnsweredWhole
<1> QED
  BY <1>1, Inductive, PTL

=============================================================================
