---------------------------- MODULE DirectoryWalk ----------------------------
(***************************************************************************)
(* The directory walk of unix/04/4_8.c: dopath calls itself for every      *)
(* entry of a directory, and every call works in the same path buffer.     *)
(* The files may change while it walks.                                    *)
(*                                                                         *)
(* A path is a sequence of names; disk gives every path that exists its    *)
(* kind.  The buffer is a text: names and slashes, each taken for one      *)
(* character, and always short enough for path_alloc.                      *)
(***************************************************************************)
EXTENDS Integers, Sequences, FiniteSets, SequencesExt

CONSTANTS
  Paths, ChangedKinds,   \* what may change, and into what
  MaxChanges,            \* bound: changes altogether
  MaxOpen                \* directories a process may have open

Kinds == {"reg", "blk", "chr", "fifo", "lnk", "sock"}
Dirs  == {"dir", "closed"}              \* closed: one that may not be read
Dots  == {".", ".."}

(* What lies in something lies in a directory, and no entry is named as the *)
(* directory itself or the one above it.                                   *)
Proper(q) == q # <<>> /\ \A i \in 2 .. Len(q) : q[i] \notin Dots
Tree(d) ==
  \A q \in DOMAIN d :
    /\ Proper(q)
    /\ \A j \in 1 .. Len(q) - 1 : SubSeq(q, 1, j) \in DOMAIN d /\ d[SubSeq(q, 1, j)] \in Dirs

ASSUME WalkAssumption ==
  /\ Paths \subseteq Seq(STRING) /\ \A q \in Paths : Proper(q)
  /\ MaxChanges \in Nat /\ MaxOpen \in Nat

VARIABLES
  disk, changes,
  fullpath,              \* the path buffer
  stack,                 \* the calls that have a directory open, innermost first:
                         \* [dir, ptr, left]: the directory, where its entries are put
                         \* in the buffer, and those that readdir may yet return
  walk,                  \* "none", "lstat", "opendir", "readdir"; "ended", "failed", "killed"
  count,                 \* the counters by kind; ndir is count["dir"]
  visited,               \* history: the paths myfunc counted
  steady                 \* history: what was there when the walk began, and still is

files   == <<disk, changes>>
walking == <<fullpath, stack, walk, count, visited, steady>>

-----------------------------------------------------------------------------
(* Paths and their texts: between two names is a slash, and a directory's   *)
(* text may end with one.                                                  *)
Text(path)    == [i \in 1 .. 2 * Len(path) - 1 |-> IF i % 2 = 1 THEN path[(i + 1) \div 2] ELSE "/"]
PathOf(text)  == [i \in 1 .. (Len(text) + 1) \div 2 |-> text[2 * i - 1]]
Here          == PathOf(fullpath)
Exists(path)  == path \in DOMAIN disk
Names(path)   == {q[Len(q)] : q \in {r \in DOMAIN disk : Len(r) = Len(path) + 1 /\ IsPrefix(path, r)}}
Below(path)   == {q \in DOMAIN disk : IsPrefix(path, q)}

Over          == walk \in {"none", "ended", "failed", "killed"}
Gone(q)       == [r \in DOMAIN disk \ Below(q) |-> disk[r]]
Put(q, k)     == [r \in {q} \cup DOMAIN Gone(q) |-> IF r = q THEN k ELSE disk[r]]
Possible(q)   == Len(q) = 1 \/ (Exists(Front(q)) /\ disk[Front(q)] \in Dirs)

(* What comes into a directory while it is read may be returned, even if a  *)
(* file of that name was before.                                           *)
Listed(q) ==
  [i \in DOMAIN stack |->
     IF stack[i].dir = Front(q) THEN [stack[i] EXCEPT !.left = @ \cup {Last(q)}] ELSE stack[i]]

(* While a walk runs, something goes with what is below it, or something    *)
(* comes, in the place of what was there.                                  *)
Change ==
  /\ changes < MaxChanges /\ ~Over
  /\ \E q \in Paths :
       /\ \/ Exists(q) /\ disk' = Gone(q) /\ UNCHANGED stack
          \/ Possible(q) /\ (\E k \in ChangedKinds : disk' = Put(q, k)) /\ stack' = Listed(q)
       /\ steady' = {r \in steady : ~IsPrefix(q, r)}
  /\ changes' = changes + 1
  /\ UNCHANGED <<fullpath, walk, count, visited>>

-----------------------------------------------------------------------------
WalkInit ==
  /\ changes = 0
  /\ fullpath = <<>> /\ stack = <<>> /\ walk = "none"
  /\ count = [k \in Kinds \cup {"dir"} |-> 0]
  /\ visited = <<>> /\ steady = {}

(* main of a new process, with root as its argument.                       *)
myftw(root) ==
  /\ fullpath' = <<root>> /\ stack' = <<>> /\ walk' = "lstat"
  /\ count' = [k \in Kinds \cup {"dir"} |-> 0]
  /\ visited' = <<>> /\ steady' = Below(<<root>>)
  /\ UNCHANGED files

(* The end of a call of dopath that has no directory open.                  *)
Back == IF stack = <<>> THEN "ended" ELSE "readdir"

(* FTW_NS and FTW_DNR: myfunc ends the program.                             *)
Fail ==
  /\ walk' = "failed"
  /\ UNCHANGED <<fullpath, stack, count, visited, steady>>

(* A file is counted by its kind and, as no break keeps the two apart, as   *)
(* a directory.                                                            *)
myfunc(kind) ==
  /\ count' = IF kind \in Kinds THEN [count EXCEPT ![kind] = @ + 1, !["dir"] = @ + 1]
                                ELSE [count EXCEPT !["dir"] = @ + 1]
  /\ visited' = Append(visited, Here)

lstat_fails == walk = "lstat" /\ ~Exists(Here) /\ Fail

file ==
  /\ walk = "lstat" /\ Exists(Here) /\ disk[Here] \in Kinds
  /\ myfunc(disk[Here])
  /\ walk' = Back
  /\ UNCHANGED <<fullpath, stack, steady>>

directory ==
  /\ walk = "lstat" /\ Exists(Here) /\ disk[Here] \in Dirs
  /\ myfunc(disk[Here])
  /\ fullpath' = Append(fullpath, "/")
  /\ walk' = "opendir"
  /\ UNCHANGED <<stack, steady>>

CanOpen == Exists(Here) /\ disk[Here] = "dir" /\ Len(stack) < MaxOpen

opendir_fails == walk = "opendir" /\ ~CanOpen /\ Fail

opendir ==
  /\ walk = "opendir" /\ CanOpen
  /\ stack' = <<[dir |-> Here, ptr |-> Len(fullpath) + 1, left |-> Dots \cup Names(Here)]>> \o stack
  /\ walk' = "readdir"
  /\ UNCHANGED <<fullpath, count, visited, steady>>

(* Mutant: break for continue.                                             *)
Rest_break(left, e) == IF e \in Dots THEN {} ELSE left \ {e}
Rest(left, e) == left \ {e}

(* In any order; an entry that was removed comes or not.                   *)
readdir ==
  /\ walk = "readdir"
  /\ \E e \in Head(stack).left :
       /\ stack' = [stack EXCEPT ![1].left = Rest(@, e)]
       /\ IF e \in Dots
          THEN UNCHANGED <<fullpath, walk>>
          ELSE /\ fullpath' = Append(SubSeq(fullpath, 1, Head(stack).ptr - 1), e)
               /\ walk' = "lstat"
  /\ UNCHANGED <<count, visited, steady>>

(* The end of a directory: what was there all the time has come.           *)
Exhausted ==
  \A e \in Head(stack).left : e \notin Dots /\ Append(Head(stack).dir, e) \notin steady

(* Mutant: the slash stays.                                                *)
closedir_slash ==
  /\ walk = "readdir" /\ Exhausted
  /\ fullpath' = fullpath
  /\ stack' = Tail(stack)
  /\ walk' = IF Len(stack) = 1 THEN "ended" ELSE "readdir"
  /\ UNCHANGED <<count, visited, steady>>

(* The slash goes, and the call returns.                                   *)
closedir ==
  /\ walk = "readdir" /\ Exhausted
  /\ fullpath' = SubSeq(fullpath, 1, Head(stack).ptr - 2)
  /\ stack' = Tail(stack)
  /\ walk' = IF Len(stack) = 1 THEN "ended" ELSE "readdir"
  /\ UNCHANGED <<count, visited, steady>>

dopath == (lstat_fails \/ file \/ directory \/ opendir_fails \/ opendir \/ readdir \/ closedir) /\ UNCHANGED files

-----------------------------------------------------------------------------
Root == fullpath[1]

(* In front of the ptr of every call the buffer holds the directory that    *)
(* the call reads: what deeper calls wrote was taken back.  What is looked  *)
(* up next is an entry of the innermost.                                   *)
PathKept ==
  /\ \A i \in DOMAIN stack : SubSeq(fullpath, 1, stack[i].ptr - 1) = Append(Text(stack[i].dir), "/")
  /\ walk = "lstat" => /\ fullpath = Text(Here)
                       /\ stack # <<>> => Front(Here) = Head(stack).dir
  /\ walk = "ended" => fullpath = <<Root>>

(* Nothing that is there all the time is counted twice; what is made anew   *)
(* may be.                                                                 *)
CountedOnce == \A i, j \in DOMAIN visited : visited[i] = visited[j] /\ visited[i] \in steady => i = j

(* Whatever else changes, a walk that ends well has counted everything that *)
(* was there all the time, and none of it twice.  If nothing changed, it    *)
(* ends well exactly when every directory could be opened, unless it is     *)
(* killed, and the number of files it counts of each kind is right.  Of     *)
(* ndir, which counts files as well, nothing is said.                      *)
WalkedWhole ==
  LET all == Below(<<Root>>)
  IN /\ CountedOnce
     /\ walk = "ended" => steady \subseteq ToSet(visited)
     /\ walk \in {"ended", "failed"} /\ changes = 0 =>
          (walk = "ended") = /\ all # {}
                             /\ \A q \in all : disk[q] \in Dirs => disk[q] = "dir" /\ Len(q) <= MaxOpen
     /\ walk = "ended" /\ changes = 0 =>
          \A k \in Kinds : count[k] = Cardinality({q \in all : disk[q] = k})
=============================================================================
