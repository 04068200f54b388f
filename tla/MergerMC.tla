------------------------------ MODULE MergerMC ------------------------------
(* Three task branches and two files.  Each instance pairs branches that    *)
(* edit the same file, that edit and delete it, and that do not meet; in    *)
(* some of them one branch was made from another, or from two.              *)
EXTENDS Merger, TLC

CONSTANTS b1, b2, b3, f1, f2

BranchNames == {b1, b2, b3}
FileNames == {f1, f2}

Edit(x, y) == f1 :> x @@ f2 :> y
Unedited == Edit("base", "base")

\* What branch b makes of the files it finds.
On(b, found, edit) ==
    [f \in FileNames |-> CASE edit[f] = "same" -> found[f]
                           [] edit[f] = "edit" -> b
                           [] OTHER -> "gone"]

Alone(b, edit) == [has |-> {b}, file |-> On(b, Unedited, edit)]

\* Everything two branches can do, b1 first, with b3 editing the second file
\* or missing.
Apart ==
    {b1 :> Alone(b1, Edit(w, "edit")) @@ b2 :> Alone(b2, Edit(x, y))
        @@ b3 :> Alone(b3, Edit("same", "edit")) :
        w \in {"same", "edit"}, x \in {"edit", "delete"}, y \in {"same", "edit", "delete"}}
    \union {b1 :> Alone(b1, Edit("edit", "same")) @@ b2 :> Alone(b2, Edit("edit", "delete"))}

\* b2 was made from b1, and b3 apart from them.
Chain(x, y) ==
    LET first == Alone(b1, Edit("edit", "edit")) IN
    b1 :> first
        @@ b2 :> [has |-> {b1, b2}, file |-> On(b2, first.file, Edit(x, y))]
        @@ b3 :> Alone(b3, Edit("edit", "same"))

\* b3 was made from b1 and b2, which edit the first file or one each.
Join(x, y) ==
    b1 :> Alone(b1, Edit("edit", "same"))
        @@ b2 :> Alone(b2, Edit(x, "edit"))
        @@ b3 :> [has |-> BranchNames, file |-> On(b3, Edit(b1, b2), Edit(y, "same"))]

BranchHistories ==
    Apart \union {Chain(x, y) : x \in {"same", "edit"}, y \in {"same", "delete"}}
          \union {Join(x, y) : x, y \in {"same", "edit"}}

Orders == {<<b1, b2>>, <<b1, b2, b3>>, <<b2, b1, b1>>}
=============================================================================
