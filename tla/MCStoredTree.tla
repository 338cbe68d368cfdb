---------------------------- MODULE MCStoredTree ----------------------------
(***************************************************************************)
(* Small instances of StoredTree: two folders and two files.               *)
(***************************************************************************)
EXTENDS StoredTree, TLC

CONSTANTS d1, d2, f1, f2

\* The order of the hash buckets: a folder comes after what it holds.
MCBucket == (d1 :> 4) @@ (f1 :> 1) @@ (d2 :> 3) @@ (f2 :> 2)

\* The remote at the start: a folder that holds a folder and a file; a folder with
\* more files than one answer tells, for mounts without failing calls.
Nested == (d1 :> Root) @@ (d2 :> d1) @@ (f1 :> d1) @@ (f2 :> None)
Full   == (d1 :> Root) @@ (d2 :> None) @@ (f1 :> d1) @@ (f2 :> d1)

MCStoredInit ==
  /\ rparent \in {Nested, Full}
  /\ rrev = [n \in Nodes |-> 1]
  /\ StoredInit
  /\ rparent = Full => mayfail = {}
MCStoredSpec == MCStoredInit /\ [][StoredNext]_storedVars
MCStoredFairSpec == MCStoredSpec /\ WF_storedVars(Work) /\ SF_storedVars(Look)
=============================================================================
