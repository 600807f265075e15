---------------------------- MODULE HttpdProofs -----------------------------
(***************************************************************************)
(* Proofs about Httpd, for every number of clients, files, children and    *)
(* waiting connections.                                                    *)
(***************************************************************************)
EXTENDS Httpd, SequenceTheorems, FiniteSetTheorems, TLAPS

Resp  == [status : {0, 200, 404, 405, 501}, length : Nat, body : Nat]
Where == {"none", "read", "respond", "open", "copy", "done", "exited"}

(* The connection in the server's hand is the only one it has open.         *)
OneInHand == \A c \in Client : "server" \in holders[c] <=> sock = c

(* A connection that waits is nobody's yet, and waits once.                 *)
Waiting ==
  /\ \A i \in DOMAIN backlog : child[backlog[i]] = "none" /\ holders[backlog[i]] = {}
  /\ \A i, j \in DOMAIN backlog : backlog[i] = backlog[j] => i = j

(* What a child has announced and written, while no file has changed since  *)
(* its lstat.                                                              *)
HonestAt(c) ==
  /\ child[c] \in {"open", "copy"} => request[c] = "GET"
  /\ child[c] = "copy" => fd[c] # None
  /\ c \in calm =>
       /\ child[c] = "open" =>
            /\ name # None
            /\ resp[c] = [status |-> 200, length |-> sizes[name], body |-> 0]
       /\ child[c] = "copy" =>
            resp[c].length = sizes[fd[c]] /\ resp[c].body <= resp[c].length
       /\ child[c] = "done" /\ resp[c].status = 200 =>
            /\ request[c] \in {"GET", "HEAD"}
            /\ resp[c].body = IF request[c] = "GET" THEN resp[c].length ELSE 0

Honest == \A c \in Client : HonestAt(c)

IInv ==
  /\ TypeOK
  /\ resp \in [Client -> Resp]
  /\ zombies = {}
  /\ OneInHand
  /\ Waiting
  /\ Honest

-----------------------------------------------------------------------------
(* The first state, and the steps of each process                          *)

LEMMA InitIInv == Init => IInv
  <1> SUFFICES ASSUME Init PROVE IInv
    OBVIOUS
  <1>1. TypeOK
    <2>1. \A c \in Client : ~Running(c) /\ holders[c] = {}
      BY DEF Init, Running
    <2>2. sock = None /\ server = "accept" /\ last = None
      BY DEF Init
    <2>3. backlog \in Seq(Client) /\ Len(backlog) <= MAX_BACKLOG
      BY HttpdAssumption, EmptySeq DEF Init
    <2>4. holders \in [Client -> SUBSET {"server", "child"}]
      BY DEF Init
    <2>5. changes \in 0 .. MaxChanges
      BY HttpdAssumption DEF Init
    <2>6. /\ request \in [Client -> Request \cup {None}]
          /\ child \in [Client -> Where]
          /\ info \in [Client -> Size \cup {None}] /\ fd \in [Client -> Ino \cup {None}]
          /\ zombies \subseteq Client /\ gone \subseteq Client /\ calm \subseteq Client
          /\ sigchld \in BOOLEAN /\ name \in Ino \cup {None} /\ sizes \in [Ino -> Size]
      BY DEF Init, Where
    <2> QED
      BY <2>1, <2>2, <2>3, <2>4, <2>5, <2>6 DEF TypeOK, Where
  <1>2. resp \in [Client -> Resp] /\ zombies = {}
    BY DEF Init, Resp, NoAnswer
  <1>3. OneInHand
    BY HttpdAssumption DEF Init, OneInHand
  <1>4. Waiting
    BY EmptySeq DEF Init, Waiting
  <1>5. Honest
    BY DEF Init, Honest, HonestAt
  <1> QED
    BY <1>1, <1>2, <1>3, <1>4, <1>5 DEF IInv

(* The end of a child: its connection is its own, and nothing waits for it. *)
LEMMA ExitSafe ==
  ASSUME IInv, NEW c \in Client, child[c] # "none", Exits(c)
  PROVE  IInv'
  <1>1. TypeOK'
    <2>1. /\ child' \in [Client -> Where] /\ holders' \in [Client -> SUBSET {"server", "child"}]
          /\ fd' \in [Client -> Ino \cup {None}] /\ zombies' = zombies /\ sigchld' \in BOOLEAN
      BY DEF IInv, TypeOK, Exits, detach_children, Where
    <2>2. \A d \in Client : Running(d)' <=> ("child" \in holders[d])'
      BY DEF IInv, TypeOK, Exits, Running
    <2> QED
      BY <2>1, <2>2 DEF IInv, TypeOK, Exits, net, files, Where
  <1>2. resp' \in [Client -> Resp] /\ zombies' = {}
    BY DEF IInv, Exits, detach_children
  <1>3. OneInHand'
    BY DEF IInv, TypeOK, Exits, OneInHand
  <1>4. Waiting'
    <2>1. \A i \in DOMAIN backlog : backlog[i] \in Client /\ backlog[i] # c
      BY ElementOfSeq, LenProperties DEF IInv, TypeOK, Waiting
    <2> QED
      BY <2>1 DEF IInv, TypeOK, Exits, Waiting, net
  <1>5. Honest'
    BY DEF IInv, TypeOK, Exits, Honest, HonestAt, net, files
  <1> QED
    BY <1>1, <1>2, <1>3, <1>4, <1>5 DEF IInv

(* The server leaves its loop: it closes the connection in its hand.        *)
LEMMA ServerExitSafe ==
  ASSUME IInv, NEW why \in {"signal", "accept", "fork"}, ServerExits(why),
         UNCHANGED <<child, zombies, net, files, work>>, sigchld' \in BOOLEAN
  PROVE  IInv'
  <1>1. TypeOK'
    <2>1. /\ holders' \in [Client -> SUBSET {"server", "child"}]
          /\ \A d \in Client : "child" \in holders'[d] <=> "child" \in holders[d]
          /\ server' = "exited" /\ sock' = None /\ last' = why
      BY DEF IInv, TypeOK, ServerExits
    <2>2. \A d \in Client : Running(d)' <=> Running(d)
      BY DEF Running
    <2> QED
      BY <2>1, <2>2 DEF IInv, TypeOK, net, files, work
  <1>2. resp' \in [Client -> Resp] /\ zombies' = {}
    BY DEF IInv, work
  <1>3. OneInHand'
    BY HttpdAssumption DEF ServerExits, OneInHand
  <1>4. Waiting'
    <2>1. \A i \in DOMAIN backlog : backlog[i] \in Client
      BY ElementOfSeq, LenProperties DEF IInv, TypeOK
    <2> QED
      BY <2>1 DEF IInv, ServerExits, Waiting, net
  <1>5. Honest'
    BY DEF IInv, Honest, HonestAt, net, files, work
  <1> QED
    BY <1>1, <1>2, <1>3, <1>4, <1>5 DEF IInv
(* A connection enters the queue when it is nowhere else.                   *)
LEMMA ConnectSafe ==
  ASSUME IInv, NEW c \in Client, Connect(c)
  PROVE  IInv'
  <1> DEFINE n == Len(backlog)
  <1>1. /\ backlog \in Seq(Client) /\ n \in Nat /\ n < MAX_BACKLOG
        /\ DOMAIN backlog = 1 .. n /\ MAX_BACKLOG \in Nat
    BY HttpdAssumption, LenProperties DEF IInv, TypeOK, Connect
  <1>2. /\ backlog' \in Seq(Client) /\ Len(backlog') = n + 1 /\ DOMAIN backlog' = 1 .. n + 1
        /\ backlog'[n + 1] = c /\ \A i \in 1 .. n : backlog'[i] = backlog[i]
    BY <1>1, AppendProperties, LenProperties DEF Connect
  <1>3. \A i \in 1 .. n : backlog[i] # c /\ backlog[i] \in Client
    BY <1>1, ElementOfSeq DEF Connect, Fresh, Queued
  <1> HIDE DEF n
  <1>4. TypeOK'
    <2>1. \A d \in Client : Running(d)' <=> Running(d)
      BY DEF Running, Connect
    <2> QED
      BY <1>1, <1>2, <2>1 DEF IInv, TypeOK, Connect, files, work
  <1>5. Waiting'
    <2>1. \A i \in 1 .. n + 1 : i \in 1 .. n \/ i = n + 1
      BY <1>1
    <2>2. \A i \in 1 .. n + 1 : child[backlog'[i]] = "none" /\ holders[backlog'[i]] = {}
      BY <1>1, <1>2, <2>1 DEF IInv, Waiting, Connect, Fresh
    <2>3. \A i, j \in 1 .. n + 1 : backlog'[i] = backlog'[j] => i = j
      BY <1>1, <1>2, <1>3, <2>1 DEF IInv, Waiting
    <2> QED
      BY <1>2, <2>2, <2>3 DEF Waiting, Connect
  <1> QED
    BY <1>4, <1>5 DEF IInv, Connect, OneInHand, Honest, HonestAt, files, work

(* What a client sends is the first thing it sends, so that a child that    *)
(* has read a request has it for good.                                     *)
LEMMA SendSafe ==
  ASSUME IInv, NEW c \in Client, NEW r \in Request, Send(c, r)
  PROVE  IInv'
  <1>1. TypeOK'
    <2>1. request' \in [Client -> Request \cup {None}]
      BY DEF IInv, TypeOK, Send
    <2>2. \A d \in Client : Running(d)' <=> Running(d)
      BY DEF Running, Send
    <2> QED
      BY <2>1, <2>2 DEF IInv, TypeOK, Send, files, work
  <1>2. Honest'
    <2>1. request[c] \notin {"GET", "HEAD"}
      BY HttpdAssumption DEF Send, Request, Method
    <2> QED
      BY <2>1 DEF IInv, TypeOK, Honest, HonestAt, Send, files, work
  <1> QED
    BY <1>1, <1>2 DEF IInv, Send, OneInHand, Waiting, work
(* A client that goes, files that change and a queue that is reset touch    *)
(* neither the processes nor what they hold.                               *)
LEMMA WorldSafe ==
  ASSUME IInv, Touch \/ Reset \/ \E c \in Client : HangUp(c)
  PROVE  IInv'
  <1>1. UNCHANGED <<server, sock, last, holders, child, zombies, sigchld, request, info, fd, resp>>
    BY DEF Touch, Reset, HangUp, net, files, work
  <1>2. \A d \in Client : Running(d)' <=> Running(d)
    BY <1>1 DEF Running
  <1>3. gone' \subseteq Client /\ calm' \subseteq Client
    BY DEF IInv, TypeOK, Touch, Reset, HangUp, net, work
  <1>4. name' \in Ino \cup {None} /\ sizes' \in [Ino -> Size] /\ changes' \in 0 .. MaxChanges
    <2>1. CASE Touch
      BY <2>1, HttpdAssumption DEF IInv, TypeOK, Touch
    <2>2. CASE ~Touch
      BY <2>2 DEF IInv, TypeOK, Reset, HangUp, files
    <2> QED
      BY <2>1, <2>2
  <1>5. backlog' = backlog \/ backlog' = <<>>
    BY DEF Touch, Reset, HangUp, net
  <1>6. backlog' \in Seq(Client) /\ Len(backlog') <= MAX_BACKLOG /\ Waiting'
    <2>1. CASE backlog' = backlog
      BY <1>1, <2>1 DEF IInv, TypeOK, Waiting
    <2>2. CASE backlog' = <<>>
      BY <2>2, EmptySeq, HttpdAssumption DEF Waiting
    <2> QED
      BY <1>5, <2>1, <2>2
  <1>7. TypeOK'
    BY <1>1, <1>2, <1>3, <1>4, <1>6 DEF IInv, TypeOK
  <1>8. Honest'
    BY <1>1 DEF IInv, Honest, HonestAt, Touch, Reset, HangUp, files, work
  <1> QED
    BY <1>1, <1>6, <1>7, <1>8 DEF IInv, OneInHand

(* The connection that waited longest comes into the server's hand, and     *)
(* waits no more.                                                          *)
LEMMA AcceptSafe ==
  ASSUME IInv, Accept
  PROVE  IInv'
  <1> DEFINE n == Len(backlog)
             c == backlog[1]
  <1>1. /\ backlog \in Seq(Client) /\ backlog # <<>> /\ n \in Nat /\ DOMAIN backlog = 1 .. n
        /\ n <= MAX_BACKLOG /\ MAX_BACKLOG \in Nat
    BY LenProperties, HttpdAssumption DEF IInv, TypeOK, Accept
  <1>2. /\ Head(backlog) = c /\ backlog' \in Seq(Client) /\ Len(backlog') = n - 1 /\ n >= 1
        /\ \A i \in 1 .. n - 1 : backlog'[i] = backlog[i + 1]
    BY <1>1, HeadTailProperties, EmptySeq DEF Accept
  <1>3. DOMAIN backlog' = 1 .. n - 1 /\ \A i \in 1 .. n - 1 : i + 1 \in 1 .. n /\ i + 1 # 1
    BY <1>1, <1>2, LenProperties
  <1>4. c \in Client /\ child[c] = "none" /\ holders[c] = {} /\ 1 \in 1 .. n
    <2>1. 1 \in 1 .. n
      BY <1>1, <1>2
    <2> QED
      BY <1>1, <2>1, ElementOfSeq DEF IInv, Waiting
  <1>5. /\ server = "accept" /\ server' = "fork" /\ sock = None /\ sock' = c /\ c # None
        /\ holders' = [holders EXCEPT ![c] = {"server"}]
        /\ UNCHANGED <<last, child, zombies, sigchld, request, gone, files, work>>
    BY <1>2, <1>4, HttpdAssumption DEF IInv, TypeOK, Accept
  <1> HIDE DEF n, c
  <1>6. TypeOK'
    <2>1. holders' \in [Client -> SUBSET {"server", "child"}]
      BY <1>4, <1>5 DEF IInv, TypeOK
    <2>2. \A d \in Client : Running(d)' <=> ("child" \in holders[d])'
      BY <1>4, <1>5 DEF IInv, TypeOK, Running
    <2>3. Len(backlog') <= MAX_BACKLOG
      BY <1>1, <1>2
    <2> QED
      BY <1>2, <1>4, <1>5, <2>1, <2>2, <2>3 DEF IInv, TypeOK, files, work
  <1>7. OneInHand'
    <2>1. \A d \in Client : "server" \notin holders[d]
      BY <1>5, HttpdAssumption DEF IInv, OneInHand
    <2> QED
      BY <1>4, <1>5, <2>1 DEF IInv, TypeOK, OneInHand
  <1>8. Waiting'
    <2>1. \A i \in 1 .. n - 1 : /\ child[backlog[i + 1]] = "none" /\ holders[backlog[i + 1]] = {}
                               /\ backlog[i + 1] # c
      BY <1>1, <1>3, <1>4 DEF IInv, Waiting, c
    <2>2. \A i \in 1 .. n - 1 : child'[backlog'[i]] = "none" /\ holders'[backlog'[i]] = {}
      <3>1. \A i \in 1 .. n - 1 : backlog[i + 1] \in Client
        BY <1>1, <1>3, ElementOfSeq DEF n
      <3> QED
        BY <1>2, <1>5, <2>1, <3>1 DEF IInv, TypeOK
    <2>3. \A i, j \in 1 .. n - 1 : backlog'[i] = backlog'[j] => i = j
      <3>1. \A i, j \in 1 .. n - 1 : backlog[i + 1] = backlog[j + 1] => i + 1 = j + 1
        BY <1>1, <1>3 DEF IInv, Waiting
      <3>2. \A i, j \in 1 .. n - 1 : i + 1 = j + 1 => i = j
        BY <1>1
      <3> QED
        BY <1>2, <3>1, <3>2
    <2> QED
      BY <1>3, <2>2, <2>3 DEF Waiting
  <1>9. Honest'
    BY <1>5 DEF IInv, Honest, HonestAt, files, work
  <1> QED
    BY <1>5, <1>6, <1>7, <1>8, <1>9 DEF IInv, work

(* fork gives the connection a second holder, unless the system refuses.    *)
LEMMA ForkSafe ==
  ASSUME IInv, Fork
  PROVE  IInv'
  <1>1. sock \in Client /\ holders \in [Client -> SUBSET {"server", "child"}]
        /\ child \in [Client -> Where] /\ "server" \in holders[sock]
    BY DEF IInv, TypeOK, Fork, OneInHand, Where
  <1>2. CASE ServerExits("fork") /\ UNCHANGED child
    BY <1>2, ServerExitSafe DEF Fork, IInv, TypeOK
  <1>3. CASE /\ child' = [child EXCEPT ![sock] = "read"]
             /\ holders' = [holders EXCEPT ![sock] = @ \cup {"child"}]
             /\ server' = "close"
             /\ UNCHANGED <<sock, last>>
    <2>1. TypeOK'
      <3>1. holders' \in [Client -> SUBSET {"server", "child"}] /\ child' \in [Client -> Where]
        BY <1>1, <1>3 DEF Where
      <3>2. \A d \in Client : Running(d)' <=> ("child" \in holders[d])'
        BY <1>1, <1>3 DEF IInv, TypeOK, Running
      <3> QED
        BY <1>1, <1>3, <3>1, <3>2 DEF IInv, TypeOK, Fork, net, files, work, Where
    <2>2. OneInHand'
      BY <1>1, <1>3 DEF IInv, OneInHand
    <2>3. Waiting'
      <3>1. \A i \in DOMAIN backlog : backlog[i] \in Client /\ backlog[i] # sock
        BY <1>1, ElementOfSeq, LenProperties DEF IInv, TypeOK, Waiting
      <3> QED
        BY <1>1, <1>3, <3>1 DEF IInv, Waiting, Fork, net
    <2>4. Honest'
      BY <1>1, <1>3 DEF IInv, Honest, HonestAt, Fork, net, files, work
    <2> QED
      BY <2>1, <2>2, <2>3, <2>4 DEF IInv, Fork, work
  <1> QED
    BY <1>2, <1>3 DEF Fork

(* The server gives up the connection before it takes the next.             *)
LEMMA CloseSafe ==
  ASSUME IInv, Close
  PROVE  IInv'
  <1>1. sock \in Client /\ holders \in [Client -> SUBSET {"server", "child"}]
    BY DEF IInv, TypeOK, Close
  <1>2. TypeOK'
    <2>1. \A d \in Client : "child" \in holders'[d] <=> "child" \in holders[d]
      BY <1>1 DEF Close
    <2>2. \A d \in Client : Running(d)' <=> Running(d)
      BY DEF Running, Close
    <2>3. holders' \in [Client -> SUBSET {"server", "child"}]
      BY <1>1 DEF Close
    <2> QED
      BY <2>1, <2>2, <2>3 DEF IInv, TypeOK, Close, net, files, work
  <1>3. OneInHand'
    BY <1>1, HttpdAssumption DEF IInv, Close, OneInHand
  <1>4. Waiting'
    <2>1. \A i \in DOMAIN backlog : backlog[i] \in Client
      BY ElementOfSeq, LenProperties DEF IInv, TypeOK
    <2> QED
      BY <1>1, <2>1 DEF IInv, Close, Waiting, net
  <1>5. Honest'
    BY DEF IInv, Honest, HonestAt, Close, net, files, work
  <1> QED
    BY <1>2, <1>3, <1>4, <1>5 DEF IInv, Close, work

(* The server ends by an error of accept or SIGTERM; SIGCHLD, whose handler *)
(* was installed to restart what it interrupts, does not end it.           *)
LEMMA SignalSafe ==
  ASSUME IInv, AcceptFails \/ signal_exit \/ noop_handler
  PROVE  IInv'
  <1>1. CASE AcceptFails
    BY <1>1, ServerExitSafe DEF AcceptFails, IInv, TypeOK
  <1>2. CASE signal_exit
    BY <1>2, ServerExitSafe DEF signal_exit, IInv, TypeOK
  <1>3. CASE noop_handler
    <2>1. sigchld' = FALSE /\ UNCHANGED <<server, sock, last, holders, child, zombies, net, files, work>>
      BY <1>3 DEF noop_handler, detach_children
    <2>2. \A d \in Client : Running(d)' <=> Running(d)
      BY <2>1 DEF Running
    <2> QED
      BY <2>1, <2>2, ZenonT(60) DEF IInv, TypeOK, OneInHand, Waiting, Honest, HonestAt, net, files, work
  <1> QED
    BY <1>1, <1>2, <1>3
(* A step of a child that does not end it: its connection stays its own.    *)
ChildMoves(c) ==
  /\ OnlyChild
  /\ child' \in [Client -> Where] /\ child[c] \in Where \ {"none", "exited"}
  /\ child'[c] \notin {"none", "exited"}
  /\ info' \in [Client -> Size \cup {None}] /\ fd' \in [Client -> Ino \cup {None}]
  /\ resp' \in [Client -> Resp] /\ calm' \subseteq Client
  /\ \A d \in Client \ {c} : /\ child'[d] = child[d] /\ fd'[d] = fd[d] /\ resp'[d] = resp[d]
                             /\ d \in calm' => d \in calm

LEMMA ChildMovesSafe ==
  ASSUME IInv, NEW c \in Client, ChildMoves(c), HonestAt(c)'
  PROVE  IInv'
  <1>1. TypeOK'
    <2>1. \A d \in Client : Running(d)' <=> Running(d)
      BY DEF Running, ChildMoves, Where
    <2> QED
      BY <2>1 DEF IInv, TypeOK, ChildMoves, OnlyChild, net, files, Where
  <1>2. Waiting'
    <2>1. \A i \in DOMAIN backlog : backlog[i] \in Client
      BY ElementOfSeq, LenProperties DEF IInv, TypeOK
    <2>2. \A i \in DOMAIN backlog : child'[backlog[i]] = "none"
      BY <2>1 DEF IInv, Waiting, ChildMoves
    <2> QED
      BY <2>2 DEF IInv, Waiting, ChildMoves, OnlyChild, net
  <1>3. Honest'
    <2>1. \A d \in Client \ {c} : HonestAt(d)'
      BY DEF IInv, Honest, HonestAt, ChildMoves, OnlyChild, net, files
    <2> QED
      BY <2>1 DEF Honest
  <1> QED
    BY <1>1, <1>2, <1>3 DEF IInv, OneInHand, ChildMoves, OnlyChild

(* One step of the copy: it never writes more than is left of the file.     *)
LEMMA UnreadBound ==
  ASSUME IInv, NEW c \in Client, child[c] = "copy"
  PROVE  /\ Unread(c) \in Nat /\ sizes[fd[c]] \in Nat /\ resp[c] \in Resp
         /\ resp[c].body <= sizes[fd[c]] => resp[c].body + Unread(c) <= sizes[fd[c]]
         /\ Unread(c) = 0 => sizes[fd[c]] <= resp[c].body
  <1>1. fd[c] \in Ino
    BY DEF IInv, TypeOK, Honest, HonestAt
  <1>2. sizes[fd[c]] \in Nat
    BY <1>1, HttpdAssumption DEF IInv, TypeOK, Size
  <1>3. resp[c] \in Resp /\ resp[c].body \in Nat /\ BLOCK_BUF_SIZE \in Nat /\ BLOCK_BUF_SIZE > 0
    BY HttpdAssumption DEF IInv, Resp
  <1> DEFINE b == resp[c].body
             s == sizes[fd[c]]
  <1> HIDE DEF b, s
  <1>4. Unread(c) = LET left == s - b
                    IN IF left < 0 THEN 0 ELSE IF left > BLOCK_BUF_SIZE THEN BLOCK_BUF_SIZE ELSE left
    BY DEF Unread, b, s
  <1>5. /\ Unread(c) \in Nat
        /\ b <= s => b + Unread(c) <= s
        /\ Unread(c) = 0 => s <= b
    BY <1>2, <1>3, <1>4 DEF b, s
  <1> QED
    BY <1>2, <1>3, <1>5 DEF b, s

LEMMA CopySafe ==
  ASSUME IInv, NEW c \in Client, Copy(c)
  PROVE  IInv'
  <1>1. child[c] = "copy"
    BY DEF Copy
  <1>2. /\ Unread(c) \in Nat /\ sizes[fd[c]] \in Nat /\ resp[c] \in Resp
        /\ resp[c].body <= sizes[fd[c]] => resp[c].body + Unread(c) <= sizes[fd[c]]
        /\ Unread(c) = 0 => sizes[fd[c]] <= resp[c].body
        /\ request[c] = "GET"
    BY <1>1, UnreadBound DEF IInv, Honest, HonestAt
  <1>3. resp \in [Client -> Resp] /\ child \in [Client -> Where] /\ fd \in [Client -> Ino \cup {None}]
        /\ info \in [Client -> Size \cup {None}] /\ calm \subseteq Client
    BY DEF IInv, TypeOK, Where
  <1>4. CASE /\ resp' = [resp EXCEPT ![c].body = @ + Unread(c)]
             /\ OnlyChild /\ UNCHANGED <<child, info, fd, calm>>
    <2> DEFINE r == [resp[c] EXCEPT !.body = resp[c].body + Unread(c)]
    <2>1. resp' = [resp EXCEPT ![c] = r]
      BY <1>4
    <2>2. /\ r \in Resp /\ r.length = resp[c].length /\ r.status = resp[c].status
          /\ r.body = resp[c].body + Unread(c)
      BY <1>2 DEF Resp
    <2> HIDE DEF r
    <2>3. /\ resp' \in [Client -> Resp] /\ resp'[c] = r
          /\ \A d \in Client \ {c} : resp'[d] = resp[d]
      BY <1>3, <2>1, <2>2
    <2>4. ChildMoves(c)
      BY <1>1, <1>3, <1>4, <2>3 DEF ChildMoves, Where
    <2>5. HonestAt(c)'
      BY <1>1, <1>2, <1>4, <2>2, <2>3 DEF IInv, Honest, HonestAt, OnlyChild, net, files
    <2> QED
      BY <2>4, <2>5, ChildMovesSafe
  <1>5. CASE /\ Unread(c) = 0 /\ At(c, "copy", "done")
             /\ fd' = [fd EXCEPT ![c] = None]
             /\ OnlyChild /\ UNCHANGED <<info, resp, calm>>
    <2>1. child' = [child EXCEPT ![c] = "done"]
      BY <1>5 DEF At
    <2>2. ChildMoves(c)
      BY <1>1, <1>3, <1>5, <2>1 DEF ChildMoves, Where
    <2>3. c \in calm => resp[c].body = resp[c].length
      <3>1. c \in calm => resp[c].length = sizes[fd[c]] /\ resp[c].body <= resp[c].length
        BY <1>1 DEF IInv, Honest, HonestAt
      <3>2. resp[c].body \in Nat /\ resp[c].length \in Nat
        BY <1>2 DEF Resp
      <3> QED
        BY <1>2, <1>5, <3>1, <3>2
    <2>4. HonestAt(c)'
      BY <1>2, <1>3, <1>5, <2>1, <2>3 DEF HonestAt, OnlyChild, net
    <2> QED
      BY <2>2, <2>4, ChildMovesSafe
  <1> QED
    BY <1>4, <1>5 DEF Copy

(* The steps of a child before the copy.                                    *)
LEMMA ChildSafe ==
  ASSUME IInv, NEW c \in Client, Child(c) \/ Killed(c)
  PROVE  IInv'
  <1>1. resp \in [Client -> Resp] /\ child \in [Client -> Where] /\ fd \in [Client -> Ino \cup {None}]
        /\ info \in [Client -> Size \cup {None}] /\ calm \subseteq Client
    BY DEF IInv, TypeOK, Where
  <1>2. CASE Exits(c) /\ child[c] # "none"
    BY <1>2, ExitSafe
  <1>3. CASE request[c] \in Method /\ At(c, "read", "respond") /\ OnlyChild /\ UNCHANGED work
    <2>1. ChildMoves(c) /\ child'[c] = "respond"
      BY <1>1, <1>3 DEF ChildMoves, At, Where, work
    <2> QED
      BY <2>1, ChildMovesSafe DEF HonestAt
  <1>4. CASE Refuse(c)
    <2> DEFINE s == IF request[c] = "POST" THEN 405 ELSE 501
               r == [status |-> s, length |-> 0, body |-> 0]
    <2>1. r \in Resp /\ r.status # 200
      BY DEF Resp
    <2>2. resp' = [resp EXCEPT ![c] = r] /\ child' = [child EXCEPT ![c] = "done"]
      BY <1>4 DEF Refuse, Answer, At
    <2> HIDE DEF r
    <2>3. ChildMoves(c)
      BY <1>1, <1>4, <2>1, <2>2 DEF Refuse, ChildMoves, Where, At
    <2>4. HonestAt(c)'
      BY <1>1, <2>1, <2>2 DEF HonestAt
    <2> QED
      BY <2>3, <2>4, ChildMovesSafe
  <1>5. CASE get_fileinfo(c) /\ name = None
    <2> DEFINE r == [status |-> 404, length |-> 0, body |-> 0]
    <2>1. r \in Resp /\ r.status # 200
      BY DEF Resp
    <2>2. resp' = [resp EXCEPT ![c] = r] /\ child' = [child EXCEPT ![c] = "done"]
      BY <1>5 DEF get_fileinfo, Answer, At
    <2> HIDE DEF r
    <2>3. ChildMoves(c)
      BY <1>1, <1>5, <2>1, <2>2 DEF get_fileinfo, ChildMoves, Where, At
    <2>4. HonestAt(c)'
      BY <1>1, <2>1, <2>2 DEF HonestAt
    <2> QED
      BY <2>3, <2>4, ChildMovesSafe
  <1>6. CASE get_fileinfo(c) /\ name # None
    <2> DEFINE r == [status |-> 200, length |-> sizes[name], body |-> 0]
    <2>1. sizes[name] \in Size /\ sizes[name] \in Nat
      BY <1>6, HttpdAssumption DEF IInv, TypeOK, Size
    <2>2. r \in Resp /\ r.body = 0 /\ request[c] \in {"GET", "HEAD"}
      BY <1>6, <2>1 DEF Resp, get_fileinfo
    <2>3. /\ resp' = [resp EXCEPT ![c] = r] /\ info' = [info EXCEPT ![c] = sizes[name]]
          /\ child' = [child EXCEPT ![c] = IF request[c] = "GET" THEN "open" ELSE "done"]
      BY <1>6 DEF get_fileinfo, Answer, At
    <2>4. r = [status |-> 200, length |-> sizes[name], body |-> 0]
      OBVIOUS
    <2> HIDE DEF r
    <2>5. ChildMoves(c)
      BY <1>1, <1>6, <2>1, <2>2, <2>3 DEF get_fileinfo, ChildMoves, Where, At
    <2>6. HonestAt(c)'
      BY <1>1, <1>6, <2>2, <2>3, <2>4 DEF HonestAt, get_fileinfo, OnlyChild, net, files
    <2> QED
      BY <2>5, <2>6, ChildMovesSafe
  <1>7. CASE name # None /\ At(c, "open", "copy") /\ fd' = [fd EXCEPT ![c] = name]
             /\ OnlyChild /\ UNCHANGED <<info, resp, calm>>
    <2>1. child' = [child EXCEPT ![c] = "copy"] /\ child[c] = "open"
      BY <1>7 DEF At
    <2>2. ChildMoves(c)
      BY <1>1, <1>7, <2>1 DEF IInv, TypeOK, ChildMoves, Where
    <2>3. /\ request[c] = "GET" /\ fd'[c] = name
          /\ c \in calm => resp[c].length = sizes[name] /\ resp[c].body = 0
      BY <1>1, <1>7, <2>1 DEF IInv, Honest, HonestAt
    <2>4. resp[c].length \in Nat
      BY <1>1 DEF Resp
    <2>5. /\ child'[c] = "copy" /\ request'[c] = "GET" /\ fd'[c] # None
          /\ c \in calm' => resp'[c].length = sizes'[fd'[c]] /\ resp'[c].body <= resp'[c].length
      BY <1>1, <1>7, <2>1, <2>3, <2>4 DEF OnlyChild, net, files
    <2>6. HonestAt(c)'
      BY <2>5 DEF HonestAt
    <2> QED
      BY <2>2, <2>6, ChildMovesSafe
  <1> QED
    BY <1>2, <1>3, <1>4, <1>5, <1>6, <1>7, CopySafe
       DEF Child, Killed, Running, read_request, Open, Finish, get_fileinfo

-----------------------------------------------------------------------------

LEMMA NextIInv == IInv /\ [Next]_vars => IInv'
  <1> SUFFICES ASSUME IInv, [Next]_vars PROVE IInv'
    OBVIOUS
  <1>1. CASE UNCHANGED vars
    <2>1. \A d \in Client : Running(d)' <=> Running(d)
      BY <1>1 DEF Running, vars
    <2> QED
      BY <1>1, <2>1 DEF IInv, TypeOK, OneInHand, Waiting, Honest, HonestAt, vars, net, files, work
  <1>2. CASE Next
    BY <1>2, AcceptSafe, ForkSafe, CloseSafe, SignalSafe, WorldSafe, ConnectSafe, SendSafe, ChildSafe
       DEF Next, Server
  <1> QED
    BY <1>1, <1>2

LEMMA InductiveInvariant == Spec => []IInv
  BY InitIInv, NextIInv, PTL DEF Spec

-----------------------------------------------------------------------------
(* The theorems                                                            *)

(* However many children are at work, the server has at most one connection *)
(* open itself (httpd.c 298-309).                                          *)
THEOREM OneDescriptor == Spec => []ServerHoldsOne
  <1>1. IInv => ServerHoldsOne
    <2> SUFFICES ASSUME IInv PROVE Cardinality({c \in Client : "server" \in holders[c]}) <= 1
      BY DEF IInv, ServerHoldsOne
    <2> DEFINE H == {c \in Client : "server" \in holders[c]}
    <2>1. H \subseteq {sock}
      BY DEF IInv, OneInHand
    <2>2. IsFiniteSet({sock}) /\ Cardinality({sock}) = 1
      BY FS_Singleton
    <2>3. Cardinality(H) <= 1
      BY <2>1, <2>2, FS_Subset
    <2> QED
      BY <2>3
  <1> QED
    BY <1>1, InductiveInvariant, PTL

(* As long as no file changes between lstat and the last read, the body is  *)
(* as long as the header said (httpd.c 585-601): the invariant holds the    *)
(* file and its length from open on, because the child keeps one descriptor.*)
THEOREM LengthHonest == Spec => []HonestLength
  <1>1. IInv => HonestLength
    BY DEF IInv, Honest, HonestAt, HonestLength
  <1> QED
    BY <1>1, InductiveInvariant, PTL

(* No child's end stops the server: none becomes a zombie, so that fork     *)
(* fails only where as many children run as the system allows, and SIGCHLD  *)
(* does not interrupt accept (httpd.c 239-248, 301-304).                    *)
THEOREM StaysUp == Spec => ServerStaysUp
  <1> DEFINE Allowed == last' # last => \/ last' = "signal"
                                        \/ last' = "accept" /\ AcceptMayFail
                                        \/ last' = "fork" /\ Cardinality(Live) >= MaxProc
  <1>1. IInv /\ [Next]_vars => [Allowed]_vars
    <2> SUFFICES ASSUME IInv, Next, last' # last PROVE Allowed
      OBVIOUS
    <2>1. AcceptFails \/ Fork \/ signal_exit
      BY DEF Next, Server, Accept, Close, noop_handler, detach_children, Reset, Touch, Connect, HangUp,
             Send, Child, read_request, Refuse, get_fileinfo, Open, Copy, Finish, Killed, Exits, OnlyChild
    <2>2. CASE Fork
      <3>1. Live \cup zombies = Live
        BY DEF IInv
      <3> QED
        BY <2>2, <3>1 DEF Fork, ServerExits
    <2> QED
      BY <2>1, <2>2 DEF AcceptFails, signal_exit, ServerExits
  <1> QED
    BY <1>1, InductiveInvariant, PTL DEF Spec, ServerStaysUp
=============================================================================
