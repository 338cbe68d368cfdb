---------------------------- MODULE CacheCleanup ----------------------------
(***************************************************************************)
(* What mounting does with the copies that an earlier mount has left:      *)
(* folder_tree_cleanup_filecache of fuse/hashtbl.c, called by main.c with  *)
(* the stored tree, before the first update of it.                         *)
(*                                                                         *)
(* A copy is named after a key and a revision; other names, among them the *)
(* copies for writing and the patches, are ignored and so are not here.    *)
(* One step handles one name, in the order that the directory yields them, *)
(* which is any.                                                           *)
(***************************************************************************)
EXTENDS Naturals, FiniteSets

CONSTANTS
  Keys,
  MaxRev,    \* bound: revisions
  Size,      \* Size[k]: fsize
  Allowed,   \* allowed_size
  Faults     \* "unlink" may fail

ASSUME CacheCleanupAssumption ==
  /\ IsFiniteSet(Keys)
  /\ MaxRev \in Nat \ {0} /\ Allowed \in Nat
  /\ Size \in [Keys -> Nat]

VARIABLES
  tab,            \* keys in the hash table
  remote, local,  \* remote_revision, local_revision
  disk,           \* disk[n]: the copy named n is "good", "bad" or "none"
  todo,           \* names that readdir has yet to yield
  valid,          \* cachefiles
  sum,            \* sum_size
  stuck,          \* names whose unlink has failed (history)
  pc

entries == <<tab, remote>>
vars == <<entries, local, disk, todo, valid, sum, stuck, pc>>

Revs  == 1 .. MaxRev
Names == Keys \X Revs
Present == {n \in Names : disk[n] # "none"}

Init ==
  /\ tab \in SUBSET Keys
  /\ remote \in [Keys -> Revs]
  /\ local \in [Keys -> 0 .. MaxRev]
  /\ disk \in [Names -> {"none", "good", "bad"}]
  /\ todo = Present
  /\ valid = {}
  /\ sum = 0
  /\ stuck = {}
  /\ pc = "visit"

\* unlink; a failure is only reported.
Unlink(n) ==
  \/ disk' = [disk EXCEPT ![n] = "none"] /\ UNCHANGED stuck
  \/ "unlink" \in Faults /\ stuck' = stuck \cup {n} /\ UNCHANGED disk

\* A mutant: the copy is not compared with the remote revision.
StaleLocal(k, r) == r # local[k]
\* Of another revision than the remote's, or than the local one.
Stale(k, r) == r # remote[k] \/ r # local[k]

VisitUnknown(k, r) ==
  /\ k \notin tab
  /\ Unlink(<<k, r>>)
  /\ UNCHANGED <<local, valid>>

\* Whichever copy of a file is dropped, its entry no longer has one.
Forgotten(k) == [local EXCEPT ![k] = 0]
VisitStale(k, r) ==
  /\ k \in tab /\ (Stale(k, r) \/ disk[<<k, r>>] = "bad")
  /\ Unlink(<<k, r>>)
  /\ local' = Forgotten(k)
  /\ UNCHANGED valid

\* A mutant: the key is not looked up.
VisitValidUnknown(k, r) ==
  /\ r = remote[k] /\ disk[<<k, r>>] = "good"
  /\ valid' = valid \cup {k}
  /\ UNCHANGED <<disk, local, stuck>>
VisitValid(k, r) ==
  /\ k \in tab /\ ~Stale(k, r) /\ disk[<<k, r>>] = "good"
  /\ valid' = valid \cup {k}
  /\ UNCHANGED <<disk, local, stuck>>

Visit ==
  /\ pc = "visit"
  /\ \E n \in todo :
       /\ VisitUnknown(n[1], n[2]) \/ VisitStale(n[1], n[2]) \/ VisitValid(n[1], n[2])
       /\ todo' = todo \ {n}
  /\ UNCHANGED <<entries, sum, pc>>

\* The sum of the sizes is the number of the bytes.
BytesOf(keys) == UNION {{k} \X (1 .. Size[k]) : k \in keys}
SumOf(keys) == Cardinality(BytesOf(keys))

TooBig == sum > Allowed

Summed ==
  /\ pc = "visit" /\ todo = {}
  /\ sum' = SumOf(valid)
  /\ pc' = "evict"
  /\ UNCHANGED <<entries, local, disk, todo, valid, stuck>>

\* The copies are sorted by access time with a comparison that takes the
\* addresses of pointers for entries: any may come first.
First == valid

\* A mutant: one copy is enough.
EvictOnce ==
  /\ pc = "evict" /\ TooBig /\ valid # {}
  /\ \E k \in First :
       /\ Unlink(<<k, remote[k]>>)
       /\ local' = Forgotten(k)
       /\ valid' = valid \ {k}
       /\ sum' = sum - Size[k]
  /\ pc' = "done"
  /\ UNCHANGED <<entries, todo>>

Evict ==
  /\ pc = "evict" /\ TooBig /\ valid # {}
  /\ \E k \in First :
       /\ Unlink(<<k, remote[k]>>)
       /\ local' = Forgotten(k)
       /\ valid' = valid \ {k}
       /\ sum' = sum - Size[k]
  /\ UNCHANGED <<entries, todo, pc>>

Finish ==
  /\ pc = "evict" /\ (~TooBig \/ valid = {})
  /\ pc' = "done"
  /\ UNCHANGED <<entries, local, disk, todo, valid, sum, stuck>>

Next == Visit \/ Summed \/ Evict \/ Finish

Spec == Init /\ [][Next]_vars

-----------------------------------------------------------------------------
TypeOK ==
  /\ tab \subseteq Keys /\ valid \subseteq tab
  /\ remote \in [Keys -> Revs]
  /\ local \in [Keys -> 0 .. MaxRev]
  /\ disk \in [Names -> {"none", "good", "bad"}]
  /\ todo \subseteq Names
  /\ sum \in Nat
  /\ stuck \subseteq Names
  /\ pc \in {"visit", "evict", "done"}

\* Whatever else failed: a copy that is left, other than one whose own unlink
\* failed, is a right copy of a file as the tree knows it: the rules of the
\* comment at hashtbl.c:1847.  The next open takes the copy that is named after
\* the remote revision and checks nothing of it (filecache.c:263).
LeftRight ==
  pc = "done" =>
    \A n \in Present \ stuck : n[1] \in tab /\ n[2] = remote[n[1]] /\ disk[n] = "good"

\* Whatever else failed: without those whose unlink failed, what is left fits.
LeftFits ==
  pc = "done" => SumOf({n[1] : n \in Present \ stuck}) <= Allowed
=============================================================================
