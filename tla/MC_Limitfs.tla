------------------------------ MODULE MC_Limitfs ------------------------------
(***************************************************************************)
(* Small trees for Limitfs: a file `a` and a directory `d` at the top, and *)
(* a path `da` inside `d`.  Every path may become a file or a directory.   *)
(***************************************************************************)
EXTENDS Limitfs, TLC

CONSTANTS a, d, da, t1, t2, h1, h2

TreeParent == (a :> Root) @@ (d :> Root) @@ (da :> d)

\* readdir lists the top file before the directory (as tmpfs does for a
\* directory made after the file)
TreeOrder == <<a, d, da>>

\* an empty source directory, or one holding a one-byte file
StartTrees == {[p \in {a, d, da} |-> NONE],
               (a :> 1) @@ (d :> NONE) @@ (da :> NONE)}

====
