------------------------------- MODULE Remote -------------------------------
(***************************************************************************)
(* The MediaFire service as the code of src/ uses it: a tree of folders    *)
(* and files under one root, a trash, and a device revision that every     *)
(* change increments (external; modelled from the callers in               *)
(* fuse/hashtbl.c and from mfapi/apicalls.h).                              *)
(*                                                                         *)
(* What fuse/hashtbl.c relies on and this module therefore provides:       *)
(*   - device/get_status answers the device revision;                      *)
(*   - device/get_changes(r) reports the objects changed after r, in the   *)
(*     order of their revisions, and never the root;                       *)
(*   - an object that was removed from the trash too is not reported;      *)
(*   - the revision of a folder changes with its list of children;         *)
(*   - folder/get_content answers one chunk of what a folder holds.        *)
(***************************************************************************)
EXTENDS Naturals, FiniteSets

CONSTANTS
  Folders,     \* keys of folders, the root excepted
  Files,       \* keys of files
  Root,        \* the root folder, whose key is the empty string
  Trash,       \* the pseudo folder key "trash"
  None,        \* "no object": never created, or removed from the trash too
  Chunk,       \* how many items one folder/get_content answers (400)
  MaxRev       \* bound: the largest device revision the remote reaches

Keys  == Folders \cup Files
Dirs  == Folders \cup {Root}
Nodes == Keys \cup {Root}
Revs  == 0 .. MaxRev

ASSUME RemoteAssumption ==
  /\ Folders \cap Files = {} /\ IsFiniteSet(Keys)
  /\ Root \notin Keys /\ Trash \notin Nodes /\ None \notin Nodes
  /\ Trash # None
  /\ Chunk \in Nat \ {0}
  /\ MaxRev \in Nat \ {0}

VARIABLES
  rparent,     \* rparent[k]: the folder that holds k, Trash, or None
  rrev,        \* rrev[n]: device revision of the last change to n
  devrev,      \* the device revision
  crowded      \* history: the root has held more of a kind than Chunk

remote == <<rparent, rrev, devrev, crowded>>

RemoteTypeOK ==
  /\ rparent \in [Keys -> Dirs \cup {Trash, None}]
  /\ rrev \in [Nodes -> Revs]
  /\ devrev \in Revs
  /\ crowded \in BOOLEAN

\* The objects at most n steps below d in the forest parent.
Below(parent, d) ==
  LET below[n \in 0 .. Cardinality(Keys)] ==
        IF n = 0 THEN {d}
        ELSE below[n - 1] \cup {k \in Keys : parent[k] \in below[n - 1]}
  IN below[Cardinality(Keys)]

\* Objects on the remote, outside the trash.
Live == Below(rparent, Root)

\* The folders, or the files, directly in folder d.
Content(kind, d) == {k \in kind : rparent[k] = d}

\* What folder/get_content may answer: a chunk of them, whichever the service
\* puts first.  There is "a temporary hard limit of 400 items on this call", and
\* the "'more_chunks' property" of an answer is not honoured.
Answers(kind, d) ==
  {some \in SUBSET Content(kind, d) :
     IF Cardinality(Content(kind, d)) <= Chunk
     THEN some = Content(kind, d)
     ELSE Cardinality(some) = Chunk}

\* One answer of each kind tells all that d holds.
Within(d) == \A kind \in {Folders, Files} : Cardinality(Content(kind, d)) <= Chunk

\* Calls about an object that exists (in the trash, too) can succeed.
Exists(d) == d \in {Root} \cup {k \in Keys : rparent[k] # None}

\* The bound on what clients do.
CanChange == devrev < MaxRev

\* One change: the new parents, and the objects whose revision it moves.
Change(newparent, touched) ==
  /\ devrev' = devrev + 1
  /\ rparent' = newparent
  /\ rrev' = [n \in Nodes |-> IF n \in touched THEN devrev + 1 ELSE rrev[n]]
  /\ crowded' = (crowded \/ ~Within(Root)')

RemoteCreate(k, p) ==
  /\ CanChange
  /\ rparent[k] = None /\ rrev[k] = 0
  /\ p \in Live \cap Dirs
  /\ Change([rparent EXCEPT ![k] = p], {k, p})

RemoteModify(k) ==
  /\ CanChange
  /\ k \in Live
  /\ Change(rparent, {k})

RemoteMove(k, p) ==
  /\ CanChange
  /\ k \in Live
  /\ p \in (Live \cap Dirs) \ Below(rparent, k)
  /\ p # rparent[k]
  /\ Change([rparent EXCEPT ![k] = p], {k, p, rparent[k]})

RemoteTrash(k) ==
  /\ CanChange
  /\ k \in Live \ {Root}
  /\ Change([rparent EXCEPT ![k] = Trash], {k, rparent[k]})

\* Emptying the trash: the object and all it holds are gone for good.
RemotePurge(k) ==
  /\ CanChange
  /\ rparent[k] = Trash
  /\ \E gone \in SUBSET Keys :
       /\ \A x \in Keys : x \in gone <=> x = k \/ rparent[x] \in gone
       /\ Change([x \in Keys |-> IF x \in gone THEN None ELSE rparent[x]], {})

RemoteNext ==
  \E k \in Keys :
    \/ \E p \in Dirs : RemoteCreate(k, p)
    \/ RemoteModify(k)
    \/ \E p \in Dirs : RemoteMove(k, p)
    \/ RemoteTrash(k)
    \/ RemotePurge(k)

\* Any tree over some of the keys, all of it at device revision 1.  Of the other
\* keys some may have been in use before, and will not come again.
RemoteInit ==
  /\ devrev = 1
  /\ rparent \in [Keys -> Dirs \cup {None}]
  /\ \A k \in Keys : rparent[k] # None => k \in Live
  /\ rrev \in [Nodes -> {0, 1}]
  /\ \A n \in Nodes : rrev[n] = 0 => n # Root /\ rparent[n] = None
  /\ crowded = ~Within(Root)
=============================================================================
