----------------------------- MODULE StoredTree -----------------------------
(***************************************************************************)
(* The tree over the life of several mounts: operations/destroy.c stores   *)
(* it (folder_tree_store), main.c loads it again (folder_tree_load) or     *)
(* creates a new one, and in between the remote goes on.  The process may  *)
(* end at any time, also while it writes the file.                         *)
(*                                                                         *)
(* The file is the sequence of what is written to it: a header and one     *)
(* record per entry, in the order of the buckets, whose parent is the      *)
(* position of another record.  Children arrays are not stored: loading    *)
(* makes them from the parents.  A file cut short anywhere is a prefix of  *)
(* that sequence; none, and one without a full header, is <<>>.            *)
(*                                                                         *)
(* While no process runs, the variables of FolderTree have their initial   *)
(* values, and pc is "idle".  Cleaning the copies of files after loading   *)
(* does not touch what is kept here; see CacheCleanup.                     *)
(***************************************************************************)
EXTENDS FolderTree

CONSTANT MaxMounts   \* bound: mounts

ASSUME StoredTreeAssumption == MaxMounts \in Nat \ {0}

VARIABLES
  proc,        \* "up" while the file system is mounted
  dircache,    \* the file
  mounts       \* mounts so far

stored == <<proc, dircache, mounts>>
storedVars == <<vars, stored>>

Headers == [rev : Revs, num : Nat, rrem : Revs, lrev : Revs]
Records == [key : Keys, offs : Nat, rrem : Revs, lrev : Revs]

\* Every offset of a file stays within what its header announces.
StoredTypeOK ==
  /\ TypeOK
  /\ proc \in {"up", "down"}
  /\ dircache # <<>> =>
       /\ dircache[1] \in Headers
       /\ \A i \in 2 .. Len(dircache) :
            dircache[i] \in Records /\ dircache[i].offs < dircache[1].num
  /\ mounts \in 1 .. MaxMounts

-----------------------------------------------------------------------------
(* folder_tree_store. *)

\* The position of an entry among the records; the root's is 0.
Position(k) == Cardinality({j \in tab : Bucket[j] <= Bucket[k]})
\* A mutant: counting starts with two.
OffsetFromTwo(n) == IF n = Root THEN 0 ELSE Position(n) + 1
Offset(n) == IF n = Root THEN 0 ELSE Position(n)

Count == Cardinality(tab) + 1

\* A mutant: the revision is that of the newest entry.
HeaderNewest ==
  [rev |-> CHOOSE r \in Revs : (\E n \in Known : rrem[n] = r) /\ \A n \in Known : rrem[n] <= r,
   num |-> Count, rrem |-> rrem[Root], lrev |-> lrev[Root]]
Header ==
  [rev |-> treerev, num |-> Count, rrem |-> rrem[Root], lrev |-> lrev[Root]]

\* A mutant: a folder is stored as filled.
RecordFilled(k) ==
  [key |-> k, offs |-> Offset(par[k]), rrem |-> rrem[k],
   lrev |-> IF k \in Dirs THEN rrem[k] ELSE 0]
Record(k) ==
  [key |-> k, offs |-> Offset(par[k]), rrem |-> rrem[k],
   lrev |-> IF k \in Dirs THEN lrev[k] ELSE 0]

Image ==
  [i \in 1 .. Cardinality(tab) + 1 |->
     IF i = 1 THEN Header ELSE Record(CHOOSE k \in tab : Position(k) = i - 1)]

\* What the process kept in memory is gone.
Gone ==
  /\ tab' = {}
  /\ par' = [k \in Keys |-> None]
  /\ kids' = [d \in Dirs |-> {}]
  /\ rrem' = [n \in Nodes |-> 0]
  /\ lrev' = [d \in Dirs |-> 0]
  /\ ub' = FALSE
  /\ treerev' = 0
  /\ pc' = "idle" /\ ret' = "idle"
  /\ todo' = {} /\ endrev' = 0
  /\ need' = None /\ stack' = <<>>
  /\ dir' = Root
  /\ cursor' = 0
  /\ proc' = "down"
  /\ UNCHANGED <<remote, mayfail, mounts>>

\* destroy takes the mutex.  The results of folder_tree_store and fclose are
\* ignored: a write that fails leaves as short a file as a crash does.  A file
\* that lacks more than the last of its parts is no more use than one that lacks it.
Unmount ==
  /\ proc = "up" /\ At("idle")
  /\ \A k \in tab : par[k] # Dangling
  /\ \E n \in {Count - 1, Count} : dircache' = SubSeq(Image, 1, n)
  /\ Gone

\* A record is made from the key of the parent.
UnmountTouchesFreed ==
  /\ proc = "up" /\ At("idle")
  /\ \E k \in tab : par[k] = Dangling
  /\ ub' = TRUE
  /\ UNCHANGED <<remote, mayfail, tab, par, kids, rrem, lrev, treerev, control, stored>>

\* The process ends otherwise, or destroy cannot open the file.
Crash ==
  /\ proc = "up"
  /\ Gone
  /\ UNCHANGED dircache

-----------------------------------------------------------------------------
(* open_hashtbl, with folder_tree_load. *)

Loadable == dircache # <<>> /\ Len(dircache) = dircache[1].num

Parent(rec) == IF rec.offs = 0 THEN Root ELSE dircache[rec.offs + 1].key

\* What the records say of each entry.
Loaded == {dircache[i].key : i \in 2 .. Len(dircache)}
RecordOf(k) == CHOOSE rec \in {dircache[i] : i \in 2 .. Len(dircache)} : rec.key = k
LoadedPar == [k \in Keys |-> IF k \in Loaded THEN Parent(RecordOf(k)) ELSE None]
LoadedRrem ==
  [n \in Nodes |-> IF n = Root THEN dircache[1].rrem
                   ELSE IF n \in Loaded THEN RecordOf(n).rrem ELSE 0]
LoadedLrev ==
  [d \in Dirs |-> IF d = Root THEN dircache[1].lrev
                  ELSE IF d \in Loaded THEN RecordOf(d).lrev ELSE 0]

StartMount ==
  /\ proc = "down" /\ mounts < MaxMounts
  /\ mounts' = mounts + 1
  /\ proc' = "up"
  /\ UNCHANGED <<remote, mayfail, ub, ret, todo, endrev, need, stack, dir, cursor, dircache>>

Load ==
  /\ Loadable
  /\ tab' = Loaded
  /\ par' = LoadedPar
  /\ kids' = [d \in Dirs |-> {k \in Loaded : LoadedPar[k] = d}]
  /\ rrem' = LoadedRrem
  /\ lrev' = LoadedLrev
  /\ treerev' = dircache[1].rev
  /\ pc' = "status"
  /\ StartMount

\* "file doesn't exist or is corrupt"
CreateNew ==
  /\ ~Loadable
  /\ pc' = "mount"
  /\ UNCHANGED <<tab, par, kids, rrem, lrev, treerev>>
  /\ StartMount

-----------------------------------------------------------------------------
StoredInit ==
  /\ Init
  /\ proc = "up" /\ dircache = <<>> /\ mounts = 1

Work    == proc = "up" /\ Holder /\ UNCHANGED stored
Look    == proc = "up" /\ GetStatus /\ UNCHANGED stored
Serve   == proc = "up" /\ (Lookup \/ Handler) /\ UNCHANGED stored
Remotes == Others /\ UNCHANGED stored

StoredNext ==
  \/ Work \/ Look \/ Serve \/ Remotes
  \/ Unmount \/ UnmountTouchesFreed \/ Crash
  \/ Load \/ CreateNew

StoredSpec == StoredInit /\ [][StoredNext]_storedVars

\* A thread that holds the mutex goes on: every API call returns, with an
\* answer or an error.  getattr comes before every other operation and looks at
\* the remote's status once its interval is over, so operations cannot keep it
\* from doing so.
StoredFairSpec == StoredSpec /\ WF_storedVars(Work) /\ SF_storedVars(Look)

-----------------------------------------------------------------------------
\* After any number of mounts, from whole, old and cut files: once the tree is at
\* the remote's revision, nothing is missing from a folder that is not stale and
\* is where the remote has it, unless a get_info failed, or the folder holds more
\* than get_content tells (folder_get_content.c:94; the root: or ever did).  It may
\* list too much: loading puts every entry that had lost its place back into its
\* parent.
NothingMissing ==
  proc = "up" /\ Current /\ "info" \notin mayfail =>
    \A d \in Known \cap Dirs :
      ~Stale(d) /\ (d = Root \/ par[d] = rparent[d]) /\ Told(d)
        => Content(Keys, d) \subseteq kids[d]

\* Every mount comes to serve requests, unless the process ends before.
Serves == proc = "up" ~> (pc = "idle" \/ ub)

\* What a mount starts with is "rectified once the next device/get_changes is
\* done": it always catches up with what changed while nothing ran.
CatchesUp ==
  []<>(mayfail # {} \/ ub \/ proc = "down" \/ (Current /\ NothingMissing /\ ChangesIntegrated))
=============================================================================
