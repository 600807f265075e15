-------------------------------- MODULE Shell --------------------------------
(***************************************************************************)
(* The shell of lesson_11/sh1.c.  It cuts a line into words in place, and  *)
(* runs it in a child through popen; the command that does something here  *)
(* is the walk of DirectoryWalk.  What a command prints is never read: the  *)
(* child closes the pipe as soon as the command is started.                *)
(*                                                                         *)
(* A line is a sequence of words, blanks and pipe characters, a word taken *)
(* for one character; words next to each other are one word.  The memory   *)
(* concat_command builds the command in is fresh and all zero, and long    *)
(* enough.  The input is a terminal's: a child takes none of it back.      *)
(***************************************************************************)
EXTENDS DirectoryWalk

CONSTANTS
  Sessions,              \* [disk, input]: the files at the start, and what is typed up
                         \* to the end of the input
  LINE_BUF_SIZE, INIT_CAPA,
  MaxFds,                \* descriptors a process may have
  Program,               \* the word that runs the walk
  Roots                  \* the words that are paths

NUL      == "NUL"
Blanks   == {" ", "\n"}
Pipe     == "|"
Pointer  == 8                                  \* bytes

(* A process may have at least five descriptors; nobody types a NUL.        *)
ASSUME ShellAssumption ==
  /\ LINE_BUF_SIZE \in Nat \ {0, 1} /\ INIT_CAPA \in Nat \ {0} /\ MaxFds \in Nat \ 0 .. 4
  /\ Roots \subseteq STRING
  /\ \A s \in Sessions : s.input \in Seq(STRING \ {NUL}) /\ DOMAIN s.disk \subseteq Seq(STRING) /\ Tree(s.disk)

VARIABLES
  input,                 \* what is left of it
  buf, p,                \* the line and the parser's place
  cmd,                   \* the command being parsed: [argv, capa, block]; its words
                         \* by where they begin, and the pointers its memory holds
  cmds,
  fds,                   \* descriptors open in the shell
  shell,                 \* "prompt"; "commands", "words"; "invoke", "wait"; "exited", "overrun"
  typed,                 \* history: the line as it was read
  ran                    \* history: the commands that were run, and how many were not

line   == <<input, buf, p, cmd, cmds, typed>>
vars   == <<files, walking, line, fds, shell, ran>>

-----------------------------------------------------------------------------
Init ==
  /\ WalkInit
  /\ \E s \in Sessions : disk = s.disk /\ input = s.input
  /\ buf = <<>> /\ p = 1 /\ cmd = <<>> /\ cmds = <<>>
  /\ fds = 3 /\ shell = "prompt" /\ typed = <<>> /\ ran = [runs |-> <<>>, lost |-> 0]

(* The first place from i on whose character is in S.                      *)
Next_(i, S) == CHOOSE j \in i .. Len(buf) : buf[j] \in S /\ \A k \in i .. j - 1 : buf[k] \notin S
Others(S)   == ToSet(buf) \ S

(* fgets: a line, or as much of it as the buffer takes.                    *)
LineLength ==
  LET ends == {i \in DOMAIN input : input[i] = "\n"} \cup {Len(input), LINE_BUF_SIZE - 1}
  IN CHOOSE n \in ends : \A k \in ends : n <= k

end_of_input ==
  /\ shell = "prompt" /\ input = <<>>
  /\ shell' = "exited"
  /\ UNCHANGED <<line, fds, ran>>

read_cmd ==
  /\ shell = "prompt" /\ input # <<>>
  /\ typed' = SubSeq(input, 1, LineLength)
  /\ buf' = Append(typed', NUL)
  /\ input' = SubSeq(input, LineLength + 1, Len(input))
  /\ p' = 1 /\ cmd' = <<>> /\ cmds' = <<>>
  /\ shell' = "commands"
  /\ UNCHANGED <<fds, ran>>

parse_cmd ==
  /\ shell = "commands"
  /\ IF buf[p] = NUL
     THEN shell' = "invoke" /\ UNCHANGED cmd
     ELSE shell' = "words" /\ cmd' = [argv |-> <<>>, capa |-> INIT_CAPA, block |-> INIT_CAPA]
  /\ UNCHANGED <<input, buf, p, cmds, typed, fds, ran>>

(* xrealloc is given a number of pointers where it takes bytes.            *)
Grown(c) ==
  IF c.capa <= Len(c.argv) + 1 THEN [c EXCEPT !.capa = 2 * @, !.block = (2 * c.capa) \div Pointer] ELSE c

(* Mutant: the blank after a word is left.                                 *)
Ended_kept(q, e) == [i \in DOMAIN buf |-> IF i \in p .. q - 1 /\ i > 1 THEN " " ELSE buf[i]]

(* The blanks in front of a word, up to where it begins, become the end of *)
(* the word before it.                                                     *)
Ended(q, e) == [i \in DOMAIN buf |-> IF i \in p .. q - 1 THEN NUL ELSE buf[i]]

(* A word goes on to the next blank, over pipe characters, too.            *)
word ==
  /\ shell = "words" /\ buf[p] \notin {NUL, Pipe}
  /\ LET q == Next_(p, Others(Blanks))
         e == Next_(q, Blanks \cup {NUL})
         c == IF buf[q] = NUL THEN cmd ELSE [Grown(cmd) EXCEPT !.argv = Append(@, q)]
     IN /\ cmd' = c
        /\ shell' = IF Len(c.argv) > c.block THEN "overrun" ELSE "words"
        /\ buf' = Ended(q, e)
        /\ p' = e
  /\ UNCHANGED <<input, cmds, typed, fds, ran>>

(* A null pointer behind the words, and the command into the one place     *)
(* there is.                                                               *)
end_of_command ==
  /\ shell = "words" /\ buf[p] \in {NUL, Pipe}
  /\ IF Len(cmd.argv) + 1 > cmd.block \/ Len(cmds) = 1
     THEN shell' = "overrun" /\ UNCHANGED cmds
     ELSE shell' = "commands" /\ cmds' = Append(cmds, cmd)
  /\ UNCHANGED <<input, buf, p, cmd, typed, fds, ran>>

(* The words as concat_command joins them.                                 *)
Word(q)        == SubSeq(buf, q, Next_(q, {NUL}) - 1)
concat_command == [i \in DOMAIN cmds[1].argv |-> Word(cmds[1].argv[i])]

(* Mutant: descriptors are counted that were not opened.                   *)
Opened_unchecked == fds + 2

(* Two descriptors that are never closed; that pipe fails is not noticed.   *)
Opened == IF fds + 2 <= MaxFds THEN fds + 2 ELSE fds

fork_fails ==
  /\ shell = "invoke"
  /\ fds' = Opened
  /\ shell' = "exited"
  /\ UNCHANGED <<line, ran, walking>>

IsWalk(words) == \E r \in Roots : words = <<<<Program>>, <<r>>>>

(* Mutant: the child has its end of the pipe, too.                         *)
CanPopen_four == Opened + 4 <= MaxFds
CanPopen      == Opened + 2 <= MaxFds

(* The child: popen needs two descriptors more.                            *)
invoke_output ==
  /\ shell = "invoke"
  /\ fds' = Opened
  /\ shell' = "wait"
  /\ IF ~CanPopen
     THEN ran' = [ran EXCEPT !.lost = @ + 1] /\ UNCHANGED walking
     ELSE /\ ran' = [ran EXCEPT !.runs = Append(@, concat_command)]
          /\ IF IsWalk(concat_command) THEN myftw(concat_command[2][1]) ELSE UNCHANGED walking
  /\ UNCHANGED line

(* pclose closes the only end the walk's output can be read from before it  *)
(* waits.  The walk prints in every call of myfunc, and a write that comes  *)
(* later kills it; one that comes earlier, or is never flushed, does not.   *)
sigpipe ==
  /\ walk = "lstat" \/ (walk = "opendir" /\ ~CanOpen)
  /\ walk' = "killed"
  /\ UNCHANGED <<fullpath, stack, count, visited, steady, files>>

(* Mutant: a child that failed is waited for.                              *)
ChildOver_well == walk \in {"none", "ended"}
ChildOver      == Over

(* waitpid, free_cmd, and the next prompt.                                  *)
waitpid ==
  /\ shell = "wait" /\ ChildOver
  /\ shell' = "prompt"
  /\ UNCHANGED <<line, fds, ran>>

Sh ==
  \/ (end_of_input \/ read_cmd \/ parse_cmd \/ word \/ end_of_command \/ waitpid) /\ UNCHANGED walking
  \/ fork_fails \/ invoke_output

Blocked  == shell = "wait" /\ ~ChildOver /\ UNCHANGED vars
Finished == shell \in {"exited", "overrun"} /\ UNCHANGED vars

Next ==
  \/ Sh /\ UNCHANGED files
  \/ (dopath \/ sigpipe \/ Change) /\ UNCHANGED <<line, fds, shell, ran>>
  \/ Blocked \/ Finished

(* The shell and its child run, whatever happens to the files.             *)
Spec ==
  Init /\ [][Next]_vars
    /\ WF_vars(Sh /\ UNCHANGED files)
    /\ WF_vars(dopath /\ UNCHANGED <<line, fds, shell, ran>>)

-----------------------------------------------------------------------------
TypeOK ==
  /\ fds \in 3 .. MaxFds
  /\ shell \in {"prompt", "commands", "words", "invoke", "wait", "exited", "overrun"}
  /\ buf # <<>> => p \in DOMAIN buf /\ Len(buf) \in 2 .. LINE_BUF_SIZE /\ buf[Len(buf)] = NUL
  /\ shell = "words" => \A i \in DOMAIN cmd.argv : cmd.argv[i] < p
  /\ walk \in {"none", "lstat", "opendir", "readdir", "ended", "failed", "killed"}
  /\ ~Over => shell = "wait"

(* Where the words of a line begin, and where the one that begins at i ends. *)
Starts(t)     == {i \in DOMAIN t : t[i] \notin Blanks /\ (i = 1 \/ t[i - 1] \in Blanks)}
WordEnd(t, i) == CHOOSE j \in i .. Len(t) : /\ j = Len(t) \/ t[j + 1] \in Blanks
                                            /\ \A k \in i .. j : t[k] \notin Blanks

(* The words of a line, read off the line as it was typed.                  *)
Nth(S, n) == CHOOSE i \in S : Cardinality({k \in S : k <= i}) = n
Split(t)  == [n \in 1 .. Cardinality(Starts(t)) |->
                SubSeq(t, Nth(Starts(t), n), WordEnd(t, Nth(Starts(t), n)))]

TooMuch(t) == t[1] = Pipe \/ Len(Split(t)) >= INIT_CAPA

(* The command that is run has the words of its line, cut in the buffer    *)
(* that holds them; the parser leaves its memory exactly for a line that    *)
(* begins with a pipe character or has INIT_CAPA words.                    *)
WordsRight ==
  /\ shell \in {"invoke", "wait"} => Len(cmds) = 1 /\ concat_command = Split(typed) /\ ~TooMuch(typed)
  /\ shell = "overrun" => TooMuch(typed)

(* Every command keeps two descriptors of the shell, so that as many run    *)
(* as there is room for, two more for the child's popen; the rest of the   *)
(* session runs nothing, without a word about it.                          *)
RunsWhileRoom ==
  LET started == Len(ran.runs) + ran.lost
      room    == (MaxFds - 5) \div 2
  IN Len(ran.runs) = IF started <= room THEN started ELSE room

(* The session comes to its end: every line is read, whatever its command  *)
(* does, up to the first that the parser has no memory for.                *)
SessionEnds == <>(shell \in {"exited", "overrun"})
=============================================================================
