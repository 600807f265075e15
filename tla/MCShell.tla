------------------------------- MODULE MCShell -------------------------------
(***************************************************************************)
(* A small instance of Shell: every input of up to five characters, to try *)
(* the parser, and walks of every directory of up to two entries, each of  *)
(* which may be a directory with one entry, while one thing changes.       *)
(***************************************************************************)
EXTENDS Shell

Top == <<"top">>
A   == <<"top", "a">>
B   == <<"top", "b">>

NoFiles == [q \in {} |-> "reg"]

(* What a path may be, with what lies below it.                            *)
Leaf(path)  == {path :> k : k \in {"reg", "lnk", "closed", "dir"}}
Entry(path) == {NoFiles} \cup Leaf(path)
                 \cup {path :> "dir" @@ Append(path, "c") :> k : k \in {"reg", "dir"}}
Trees       == {Top :> "dir" @@ d @@ e : d \in Entry(A), e \in Entry(B)}
                 \cup {NoFiles, Top :> "reg", Top :> "closed"}

MCPaths     == {Top, A, B, Append(A, "c")}

Walk(r)    == <<"walk", " ", r, "\n">>
Characters == {"walk", "top", " ", "|"}

MCSessions ==
  {[disk |-> d, input |-> Walk("top")] : d \in Trees}
    \cup {[disk |-> NoFiles, input |-> i] : i \in SeqOf(Characters \cup {"\n"}, 5)}
    \cup {[disk |-> NoFiles, input |-> Append(i, "\n")] : i \in [1 .. 6 -> Characters]}
    \cup {[disk |-> Top :> "dir" @@ A :> "reg", input |-> <<"walk", "\n">> \o Walk("top") \o Walk("b") \o <<"\n", "\n">>]}
=============================================================================
