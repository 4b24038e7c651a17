------------------------------ MODULE MCTrees -------------------------------
(***************************************************************************)
(* One call of fs::remove_dir_all whose argument is no link, in a tree     *)
(* where another process puts a link in the place of a listed directory.   *)
(***************************************************************************)
EXTENDS Trees

\* TempDir is not called.
OneTemp == <<"n0">>

Init == TreeInit /\ ~linked /\ walk = [p \in Walkers |-> Walk("fs_remove")]

\* The other process steps in only while every directory the removal is in has
\* been opened and listed.
Listed == \A p \in Walkers : ~At(p, "open")
Next == TreeNext /\ (Listed \/ meddles' = meddles)

Spec == Init /\ [][Next]_treeVars
=============================================================================
