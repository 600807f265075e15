------------------------------- MODULE Httpd --------------------------------
(***************************************************************************)
(* The HTTP server of lesson_17/httpd.c: one process that accepts          *)
(* connections and forks a child for each, the children that answer one    *)
(* request and exit, the signals between them, clients that may stay       *)
(* silent or go away, and a file that changes while it is served.          *)
(***************************************************************************)
EXTENDS Integers, Sequences, FiniteSets

CONSTANTS
  Client,            \* each has one connection, and so names it
  None,              \* no client, no file, no request
  MAX_BACKLOG,
  BLOCK_BUF_SIZE,    \* the most one read of the file returns
  MaxProc,           \* processes the system lets the server have as children
  Ino,               \* files that may come to have the requested name
  MaxSize,           \* bound: the longest of them
  MaxChanges,        \* bound: how often they change
  AcceptMayFail      \* whether accept(2) may report an error

Method   == {"GET", "HEAD", "POST", "PUT"}
Request  == Method \cup {"malformed"}

ASSUME HttpdAssumption ==
  /\ IsFiniteSet(Client) /\ IsFiniteSet(Ino) /\ None \notin Client \cup Ino \cup Request
  /\ {MAX_BACKLOG, BLOCK_BUF_SIZE, MaxProc} \subseteq Nat \ {0}
  /\ MaxSize \in Nat /\ MaxChanges \in Nat /\ AcceptMayFail \in BOOLEAN

VARIABLES
  server,    \* where the accept loop is, or "exited"
  sock,      \* the connection it is working on
  last,      \* why it exited
  backlog,   \* connections that wait to be accepted
  holders,   \* the processes that have a connection open
  request,   \* what a client has sent
  gone,      \* clients that closed their end
  child,     \* where the child of a connection is
  info,      \* the length lstat reported, None if there is no regular file
  fd,        \* the file a child has open
  resp,      \* what a child has written: status, announced length, body
  zombies,   \* children that exited and are not yet reaped
  sigchld,   \* SIGCHLD is pending for the server
  name,      \* the file with the requested name, or None
  sizes,     \* the length of every file
  changes,   \* how often the files have changed
  calm       \* history: children for whom nothing changed since their lstat

net   == <<backlog, request, gone>>
files == <<name, sizes, changes>>
work  == <<info, fd, resp, calm>>
vars  == <<server, sock, last, holders, child, zombies, sigchld, net, files, work>>

Size     == 0 .. MaxSize
NoAnswer == [status |-> 0, length |-> 0, body |-> 0]

Running(c) == child[c] \notin {"none", "exited"}
Live       == {c \in Client : Running(c)}
Queued(c)  == \E i \in DOMAIN backlog : backlog[i] = c

-----------------------------------------------------------------------------

Init ==
  /\ server = "accept" /\ sock = None /\ last = None /\ backlog = <<>>
  /\ holders = [c \in Client |-> {}]
  /\ request = [c \in Client |-> None] /\ gone = {}
  /\ child = [c \in Client |-> "none"]
  /\ info = [c \in Client |-> None] /\ fd = [c \in Client |-> None]
  /\ resp = [c \in Client |-> NoAnswer] /\ calm = {}
  /\ zombies = {} /\ sigchld = FALSE
  /\ name \in Ino \cup {None} /\ sizes \in [Ino -> Size] /\ changes = 0

(* The clients.  A child inherits the listening socket and never closes    *)
(* it, so connections are still queued while one of them lives.            *)
Fresh(c) == ~Queued(c) /\ child[c] = "none" /\ holders[c] = {} /\ c \notin gone

Connect(c) ==
  /\ Fresh(c)
  /\ server # "exited" \/ Live # {}
  /\ Len(backlog) < MAX_BACKLOG
  /\ backlog' = Append(backlog, c)
  /\ UNCHANGED <<server, sock, last, holders, child, zombies, sigchld, request, gone, files, work>>

Send(c, r) ==
  /\ Queued(c) \/ holders[c] # {}
  /\ c \notin gone /\ request[c] = None
  /\ request' = [request EXCEPT ![c] = r]
  /\ UNCHANGED <<server, sock, last, holders, child, zombies, sigchld, backlog, gone, files, work>>

HangUp(c) ==
  /\ Queued(c) \/ holders[c] # {}
  /\ c \notin gone
  /\ gone' = gone \cup {c}
  /\ UNCHANGED <<server, sock, last, holders, child, zombies, sigchld, backlog, request, files, work>>

(* The file is rewritten in place, replaced or removed.                    *)
Touch ==
  /\ changes < MaxChanges
  /\ changes' = changes + 1
  /\ calm' = {}
  /\ \/ name # None /\ name' = name /\ \E n \in Size : sizes' = [sizes EXCEPT ![name] = n]
     \/ name' \in (Ino \cup {None}) \ {name} /\ UNCHANGED sizes
  /\ UNCHANGED <<server, sock, last, holders, child, zombies, sigchld, net, info, fd, resp>>

-----------------------------------------------------------------------------
(* server_main                                                             *)

ServerExits(why) ==
  /\ server' = "exited" /\ sock' = None /\ last' = why
  /\ holders' = [c \in Client |-> holders[c] \ {"server"}]

Accept ==
  /\ server = "accept" /\ backlog # <<>>
  /\ sock' = Head(backlog) /\ backlog' = Tail(backlog)
  /\ holders' = [holders EXCEPT ![Head(backlog)] = {"server"}]
  /\ server' = "fork"
  /\ UNCHANGED <<last, child, zombies, sigchld, request, gone, files, work>>

AcceptFails ==
  /\ server = "accept" /\ AcceptMayFail
  /\ ServerExits("accept")
  /\ UNCHANGED <<child, zombies, sigchld, net, files, work>>

(* The system refuses a child when zombies and live children fill the      *)
(* limit; the server then exits.                                           *)
Fork ==
  /\ server = "fork"
  /\ \/ /\ Cardinality(Live \cup zombies) < MaxProc
        /\ child' = [child EXCEPT ![sock] = "read"]
        /\ holders' = [holders EXCEPT ![sock] = @ \cup {"child"}]
        /\ server' = "close"
        /\ UNCHANGED <<sock, last>>
     \/ /\ Cardinality(Live \cup zombies) >= MaxProc
        /\ ServerExits("fork")
        /\ UNCHANGED child
  /\ UNCHANGED <<zombies, sigchld, net, files, work>>

(* Mutants: the server keeps its copy of the connection; it waits for the   *)
(* child before it goes on.                                                *)
CloseForgotten ==
  /\ server = "close"
  /\ server' = "accept" /\ sock' = None
  /\ UNCHANGED <<last, holders, child, zombies, sigchld, net, files, work>>

CloseAfterWait ==
  /\ server = "close" /\ child[sock] = "exited"
  /\ holders' = [holders EXCEPT ![sock] = @ \ {"server"}]
  /\ server' = "accept" /\ sock' = None
  /\ UNCHANGED <<last, child, zombies, sigchld, net, files, work>>

Close ==
  /\ server = "close"
  /\ holders' = [holders EXCEPT ![sock] = @ \ {"server"}]
  /\ server' = "accept" /\ sock' = None
  /\ UNCHANGED <<last, child, zombies, sigchld, net, files, work>>

(* detach_children installs the handler of SIGCHLD with two flags:         *)
(* interrupted calls are restarted, and no child becomes a zombie.  Mutant: *)
(* the second is forgotten.                                                *)
detach_restarted == [restart |-> TRUE, nocldwait |-> FALSE]
detach_children  == [restart |-> TRUE, nocldwait |-> TRUE]

noop_handler ==
  /\ sigchld /\ sigchld' = FALSE
  /\ IF server = "accept" /\ ~detach_children.restart
     THEN ServerExits("accept")
     ELSE UNCHANGED <<server, sock, last, holders>>
  /\ UNCHANGED <<child, zombies, net, files, work>>

(* SIGTERM: log_exit.                                                      *)
signal_exit ==
  /\ server # "exited"
  /\ ServerExits("signal")
  /\ UNCHANGED <<child, zombies, sigchld, net, files, work>>

(* The kernel resets what is queued once nobody listens any more.          *)
Reset ==
  /\ server = "exited" /\ Live = {} /\ backlog # <<>>
  /\ backlog' = <<>>
  /\ gone' = gone \cup {c \in Client : Queued(c)}
  /\ UNCHANGED <<server, sock, last, holders, child, zombies, sigchld, request, files, work>>
-----------------------------------------------------------------------------
(* The child of a connection                                               *)

(* exit, by whatever way: the system closes the connection and tells the   *)
(* server.                                                                 *)
Exits(c) ==
  /\ child' = [child EXCEPT ![c] = "exited"]
  /\ holders' = [holders EXCEPT ![c] = @ \ {"child"}]
  /\ fd' = [fd EXCEPT ![c] = None]
  /\ zombies' = IF detach_children.nocldwait THEN zombies ELSE zombies \cup {c}
  /\ sigchld' = (server # "exited")
  /\ UNCHANGED <<server, sock, last, net, files, info, resp, calm>>

At(c, from, to) == child[c] = from /\ child' = [child EXCEPT ![c] = to]
OnlyChild       == UNCHANGED <<server, sock, last, holders, zombies, sigchld, net, files>>

(* A request that cannot be parsed, or ends early, is answered by nothing.  *)
read_request(c) ==
  \/ /\ request[c] \in Method
     /\ At(c, "read", "respond")
     /\ OnlyChild /\ UNCHANGED work
  \/ /\ child[c] = "read"
     /\ request[c] = "malformed" \/ (request[c] = None /\ c \in gone)
     /\ Exits(c)

Answer(c, status, length) ==
  resp' = [resp EXCEPT ![c] = [status |-> status, length |-> length, body |-> 0]]

Refuse(c) ==
  /\ request[c] \notin {"GET", "HEAD"}
  /\ At(c, "respond", "done")
  /\ Answer(c, IF request[c] = "POST" THEN 405 ELSE 501, 0)
  /\ OnlyChild /\ UNCHANGED <<info, fd, calm>>

(* lstat, and the header it decides.                                       *)
get_fileinfo(c) ==
  /\ request[c] \in {"GET", "HEAD"}
  /\ calm' = calm \cup {c}
  /\ \/ /\ name = None
        /\ At(c, "respond", "done")
        /\ Answer(c, 404, 0)
        /\ UNCHANGED info
     \/ /\ name # None
        /\ info' = [info EXCEPT ![c] = sizes[name]]
        /\ Answer(c, 200, sizes[name])
        /\ At(c, "respond", IF request[c] = "GET" THEN "open" ELSE "done")
  /\ OnlyChild /\ UNCHANGED fd

Open(c) ==
  \/ /\ name # None
     /\ At(c, "open", "copy")
     /\ fd' = [fd EXCEPT ![c] = name]
     /\ OnlyChild /\ UNCHANGED <<info, resp, calm>>
  \/ /\ name = None
     /\ child[c] = "open"
     /\ Exits(c)

Unread(c) == LET left == sizes[fd[c]] - resp[c].body
             IN IF left < 0 THEN 0 ELSE IF left > BLOCK_BUF_SIZE THEN BLOCK_BUF_SIZE ELSE left

(* Mutant: a short read is taken for the end of the file.                   *)
CopyFullBlocks(c) ==
  \/ /\ child[c] = "copy" /\ Unread(c) = BLOCK_BUF_SIZE
     /\ resp' = [resp EXCEPT ![c].body = @ + Unread(c)]
     /\ OnlyChild /\ UNCHANGED <<child, info, fd, calm>>
  \/ /\ child[c] = "copy" /\ Unread(c) < BLOCK_BUF_SIZE
     /\ At(c, "copy", "done")
     /\ fd' = [fd EXCEPT ![c] = None]
     /\ OnlyChild /\ UNCHANGED <<info, resp, calm>>

Copy(c) ==
  \/ /\ child[c] = "copy" /\ Unread(c) > 0
     /\ resp' = [resp EXCEPT ![c].body = @ + Unread(c)]
     /\ OnlyChild /\ UNCHANGED <<child, info, fd, calm>>
  \/ /\ child[c] = "copy" /\ Unread(c) = 0
     /\ At(c, "copy", "done")
     /\ fd' = [fd EXCEPT ![c] = None]
     /\ OnlyChild /\ UNCHANGED <<info, resp, calm>>

Finish(c) == child[c] = "done" /\ Exits(c)

(* SIGTERM, whose handler a child inherits; or SIGPIPE, when it writes to a *)
(* client that has gone.                                                   *)
Killed(c) == Running(c) /\ Exits(c)

-----------------------------------------------------------------------------

Server   == Accept \/ Fork \/ Close
Child(c) == read_request(c) \/ Refuse(c) \/ get_fileinfo(c) \/ Open(c) \/ Copy(c) \/ Finish(c)

Next ==
  \/ Server \/ AcceptFails \/ noop_handler \/ signal_exit \/ Reset \/ Touch
  \/ \E c \in Client : Connect(c) \/ HangUp(c) \/ Child(c) \/ Killed(c)
  \/ \E c \in Client, r \in Request : Send(c, r)

(* The server and its children are processes the system schedules; nothing *)
(* is assumed of the clients, the signals or the files.                    *)
Fairness == WF_vars(Server) /\ \A c \in Client : WF_vars(Child(c))

Spec == Init /\ [][Next]_vars /\ Fairness

-----------------------------------------------------------------------------
(* Each variable in its range; a child lives exactly as long as it holds    *)
(* its connection; the loop has a connection in hand between accept and     *)
(* close.                                                                  *)
TypeOK ==
  /\ server \in {"accept", "fork", "close", "exited"}
  /\ sock \in Client \cup {None}
  /\ last \in {None, "signal", "accept", "fork"}
  /\ (sock # None) <=> (server \in {"fork", "close"})
  /\ backlog \in Seq(Client) /\ Len(backlog) <= MAX_BACKLOG
  /\ holders \in [Client -> SUBSET {"server", "child"}]
  /\ request \in [Client -> Request \cup {None}]
  /\ child \in [Client -> {"none", "read", "respond", "open", "copy", "done", "exited"}]
  /\ \A c \in Client : Running(c) <=> "child" \in holders[c]
  /\ info \in [Client -> Size \cup {None}]
  /\ fd \in [Client -> Ino \cup {None}]
  /\ zombies \subseteq Client /\ gone \subseteq Client /\ calm \subseteq Client
  /\ sigchld \in BOOLEAN
  /\ name \in Ino \cup {None} /\ sizes \in [Ino -> Size] /\ changes \in 0 .. MaxChanges

(* The server never has two connections open: whatever its children do, it  *)
(* does not run out of descriptors.                                        *)
ServerHoldsOne == TypeOK /\ Cardinality({c \in Client : "server" \in holders[c]}) <= 1

(* If the file did not change after lstat, a GET that is answered 200 is    *)
(* followed by as many bytes as were announced, and a HEAD by none.         *)
HonestLength ==
  \A c \in Client :
    child[c] = "done" /\ c \in calm /\ resp[c].status = 200 =>
      resp[c].body = IF request[c] = "GET" THEN resp[c].length ELSE 0

(* The end of a child, at whatever moment, never ends the server: it stops  *)
(* on SIGTERM, or when as many children as the system allows are at work.   *)
ServerStaysUp ==
  [][last' # last => \/ last' = "signal"
                     \/ last' = "accept" /\ AcceptMayFail
                     \/ last' = "fork" /\ Cardinality(Live) >= MaxProc]_vars

(* A client that sends its request comes to the end of its connection once  *)
(* it was accepted, even if no other client ever says a word.               *)
EndsOnceSent ==
  \A c \in Client : (holders[c] # {} /\ request[c] # None) ~> (holders[c] = {})

(* No connection waits for ever to be accepted while the server runs.       *)
QueueServed ==
  \A c \in Client : Queued(c) ~> (~Queued(c) \/ server = "exited")
=============================================================================
