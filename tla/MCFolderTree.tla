---------------------------- MODULE MCFolderTree ----------------------------
(***************************************************************************)
(* Small instances of FolderTree: two folders and one file.                *)
(***************************************************************************)
EXTENDS FolderTree, TLC

CONSTANTS d1, d2, f1

\* The order of the hash buckets: the file between the folders.
MCBucket == (d1 :> 2) @@ (f1 :> 1) @@ (d2 :> 3)

\* The remote at the start: a folder that holds a folder and a file; two
\* folders side by side; a folder with a file in it and another yet to come.
Nested   == (d1 :> Root) @@ (d2 :> d1) @@ (f1 :> d1)
Beside   == (d1 :> Root) @@ (d2 :> Root) @@ (f1 :> d2)
Growing  == (d1 :> Root) @@ (d2 :> None) @@ (f1 :> d1)

MCInit ==
  /\ rparent \in {Nested, Beside, Growing}
  /\ Init
  /\ \A k \in Keys : rparent[k] = None => rrev[k] = 0
MCSpec == MCInit /\ [][Next]_vars
=============================================================================
