----------------------------- MODULE FolderTree -----------------------------
(***************************************************************************)
(* The local copy of the remote tree that fuse/hashtbl.c keeps for the     *)
(* mounted file system, and the three operations that change it: filling   *)
(* one folder (folder_tree_rebuild_helper), integrating the remote's       *)
(* changes (folder_tree_update with folder_tree_housekeep) and the first   *)
(* walk when there is no stored tree (folder_tree_rebuild).                *)
(*                                                                         *)
(* All of them run under the one mutex of the mount, so nothing local      *)
(* interleaves with them; the remote does.  A step here is the code from   *)
(* one API call to the next.  pc names the call that comes next, ret where *)
(* the running helper returns to.                                          *)
(*                                                                         *)
(* Pointers are kept as the keys of what they point to.  An entry whose    *)
(* parent pointer references freed memory has parent Dangling; following   *)
(* that pointer sets ub, and nothing is claimed from there on.             *)
(*                                                                         *)
(* Abstracted: names and times; the order of a children array (a set       *)
(* here); hash collisions (every key has a bucket of its own).  An entry   *)
(* that is not in the table has the values calloc() gives a new one.       *)
(***************************************************************************)
EXTENDS Remote, Sequences

CONSTANTS
  Dangling,    \* a parent pointer to freed memory
  Bucket,      \* the bucket of each key: the order housekeeping visits them
  FailSets,    \* what mayfail may be
  FailRev      \* bound: the largest device revision where calls may fail

Calls == {"status", "changes", "info", "content"}

ASSUME FolderTreeAssumption ==
  /\ Dangling \notin Nodes \cup {None, Trash}
  /\ Bucket \in [Keys -> Nat \ {0}]
  /\ \A j, k \in Keys : Bucket[j] = Bucket[k] => j = k
  /\ FailSets \subseteq SUBSET Calls
  /\ FailRev \in Nat

VARIABLES
  tab,         \* keys in the hash table
  par,         \* par[k]: the parent pointer of k
  kids,        \* kids[d]: the children array of folder d
  rrem,        \* rrem[n]: remote_revision
  lrev,        \* lrev[d]: local_revision of a folder (0: never filled)
  ub,          \* freed memory has been accessed
  treerev,     \* tree->revision
  pc, ret,
  todo,        \* changes of device/get_changes still to integrate
  endrev,      \* the revision of the terminating change
  need,        \* the key the next get_info asks for
  stack,       \* answers of get_info whose parent is being fetched
  dir,         \* the folder being filled
  cursor,      \* the last bucket that housekeeping has visited
  mayfail      \* API calls that may fail although the object exists

entries == <<tab, par, kids, rrem, lrev, ub>>
control == <<pc, ret, todo, endrev, need, stack, dir, cursor>>
vars    == <<remote, entries, treerev, control, mayfail>>

ChangeKinds == {"deleted", "intrash", "updated"}
Changes == [key : Keys, rev : Revs, kind : ChangeKinds]
Infos   == [key : Keys, parent : Nodes \cup {Trash}, rev : Revs]

TypeOK ==
  /\ RemoteTypeOK
  /\ tab \subseteq Keys
  /\ par \in [Keys -> Nodes \cup {Dangling, None}]
  /\ kids \in [Dirs -> SUBSET Keys]
  /\ rrem \in [Nodes -> Revs]
  /\ lrev \in [Dirs -> Revs]
  /\ ub \in BOOLEAN
  /\ treerev \in Revs
  /\ pc \in {"mount", "mountinfo", "idle", "status", "changes", "apply", "info",
             "unwind", "folders", "files", "end", "housekeep"}
  /\ ret \in {"idle", "status", "apply", "end", "housekeep"}
  /\ todo \subseteq Changes
  /\ endrev \in Revs
  /\ need \in Keys \cup {None}
  /\ stack \in Seq(Infos)
  /\ dir \in Dirs
  /\ cursor \in Nat
  /\ mayfail \in FailSets

-----------------------------------------------------------------------------
(* The entries. *)

\* What folder_tree_lookup_key finds: the root always.
Known == tab \cup {Root}

\* Mutant: an entry that moves stays in its old parent's children array.
AddEntriesKeepOld(new, p, rev) ==
  /\ ub' = (ub \/ \E k \in new \cap tab : par[k] = Dangling)
  /\ tab' = tab \cup new
  /\ par' = [k \in Keys |-> IF k \in new THEN p ELSE par[k]]
  /\ kids' = [kids EXCEPT ![p] = kids[p] \cup new]
  /\ rrem' = [n \in Nodes |-> IF n \in new THEN rev[n] ELSE rrem[n]]

\* folder_tree_add_file for each key of new, with folder_tree_allocate_entry:
\* out of the old parent's children, into p's.
AddEntries(new, p, rev) ==
  /\ ub' = (ub \/ \E k \in new \cap tab : par[k] = Dangling)
  /\ tab' = tab \cup new
  /\ par' = [k \in Keys |-> IF k \in new THEN p ELSE par[k]]
  /\ kids' = [d \in Dirs |-> IF d = p THEN kids[d] \cup new
                             ELSE kids[d] \ {k \in new : par[k] = d}]
  /\ rrem' = [n \in Nodes |-> IF n \in new THEN rev[n] ELSE rrem[n]]

\* folder_tree_add_folder for each key of new: a folder keeps its local revision.
AddFolders(new, p, rev) == AddEntries(new, p, rev) /\ UNCHANGED lrev

\* Everything below e that is reachable through the children arrays.
Subtree(e) ==
  LET sub[n \in 0 .. Cardinality(Keys)] ==
        IF n = 0 THEN {e}
        ELSE sub[n - 1] \cup UNION {kids[d] : d \in sub[n - 1] \cap Dirs}
  IN sub[Cardinality(Keys)]

\* The loop of folder_tree_remove goes up through a children array from which
\* the call it makes removes the current element, so of n children it removes
\* the first, the third, ...: n - n \div 2 of them.  Which, depends on their
\* order.  Freed(e) holds the possible sets of entries one call frees.
Freed(e) ==
  {R \in SUBSET (tab \cap Subtree(e)) :
     /\ e \in R
     /\ \A k \in R \ {e} : par[k] \in R /\ k \in kids[par[k]]
     /\ \A d \in R \cap Folders :
          Cardinality(R \cap kids[d]) = Cardinality(kids[d]) - Cardinality(kids[d]) \div 2}

\* folder_tree_remove.  The children that are not freed keep their pointer to
\* the freed parent.  At the end, the parent of e itself is followed.
Remove(e) ==
  \/ e \notin tab /\ UNCHANGED entries
  \/ /\ e \in tab
     /\ \E R \in Freed(e) :
          /\ ub' = (ub \/ par[e] \in R \cup {Dangling})
          /\ tab' = tab \ R
          /\ par' = [k \in Keys |-> IF k \in R THEN None
                                    ELSE IF par[k] \in R THEN Dangling ELSE par[k]]
          /\ kids' = [d \in Dirs |-> IF d \in R THEN {} ELSE kids[d] \ {e}]
          /\ rrem' = [n \in Nodes |-> IF n \in R THEN 0 ELSE rrem[n]]
          /\ lrev' = [d \in Dirs |-> IF d \in R THEN 0 ELSE lrev[d]]

-----------------------------------------------------------------------------
(* folder_tree_rebuild_helper: fill one folder. *)

At(label) == pc = label /\ ~ub

\* Its start: the old children array is freed.
FillFolder(d, back) ==
  /\ kids' = [kids EXCEPT ![d] = {}]
  /\ dir' = d
  /\ ret' = back
  /\ pc' = "folders"

ContentFails(d) == "content" \in mayfail \/ ~Exists(d)

\* The running helper returns.
Return == pc' = ret /\ ret' = "idle"

\* On an error the helper returns with what it has.
ListFails ==
  /\ At("folders") \/ At("files")
  /\ ContentFails(dir)
  /\ dir' = Root
  /\ Return
  /\ UNCHANGED <<remote, mayfail, entries, treerev, todo, endrev, need, stack, cursor>>

ListFolders ==
  /\ At("folders")
  /\ Exists(dir)
  /\ \E some \in Answers(Folders, dir) : AddFolders(some, dir, rrev)
  /\ pc' = "files"
  /\ UNCHANGED <<remote, mayfail, treerev, ret, todo, endrev, need, stack, dir, cursor>>

\* Mutant: the folder is marked with the revision the remote has by now.
ListFilesNow ==
  /\ At("files")
  /\ Exists(dir)
  /\ \E some \in Answers(Files, dir) : AddEntries(some, dir, rrev)
  /\ lrev' = [lrev EXCEPT ![dir] = rrev[dir]]
  /\ dir' = Root
  /\ Return
  /\ UNCHANGED <<remote, mayfail, treerev, todo, endrev, need, stack, cursor>>

ListFiles ==
  /\ At("files")
  /\ Exists(dir)
  /\ \E some \in Answers(Files, dir) : AddEntries(some, dir, rrev)
  /\ lrev' = [lrev EXCEPT ![dir] = rrem[dir]]
  /\ dir' = Root
  /\ Return
  /\ UNCHANGED <<remote, mayfail, treerev, todo, endrev, need, stack, cursor>>

-----------------------------------------------------------------------------
(* folder_tree_update_file_info and folder_tree_update_folder_info. *)

FetchInfo(k, back) ==
  /\ need' = k
  /\ ret' = back
  /\ pc' = "info"

\* A failed get_info is taken to mean that the object vanished.
InfoFails ==
  /\ At("info")
  /\ "info" \in mayfail \/ ~Exists(need)
  /\ Remove(need)
  /\ need' = None
  /\ IF stack = <<>> THEN Return ELSE pc' = "unwind" /\ UNCHANGED ret
  /\ UNCHANGED <<remote, mayfail, treerev, todo, endrev, stack, dir, cursor>>

\* Mutant: the folder key "trash" is asked for like any other.
InfoAnswersTrash ==
  /\ At("info")
  /\ Exists(need)
  /\ stack' = Append(stack, [key |-> need, parent |-> rparent[need], rev |-> rrev[need]])
  /\ IF rparent[need] \in Known
     THEN need' = None /\ pc' = "unwind"
     ELSE need' = rparent[need] /\ pc' = "info"
  /\ UNCHANGED <<remote, mayfail, entries, treerev, ret, todo, endrev, dir, cursor>>

\* An answer whose parent is not in the table waits for that parent to be
\* fetched.  There is nothing to fetch for the folder key "trash".
InfoAnswers ==
  /\ At("info")
  /\ Exists(need)
  /\ stack' = Append(stack, [key |-> need, parent |-> rparent[need], rev |-> rrev[need]])
  /\ IF rparent[need] \in Known \cup {Trash}
     THEN need' = None /\ pc' = "unwind"
     ELSE need' = rparent[need] /\ pc' = "info"
  /\ UNCHANGED <<remote, mayfail, entries, treerev, ret, todo, endrev, dir, cursor>>

\* The calls return: the parent is looked up again, and without it
\* folder_tree_add_* does nothing.
Unwind ==
  /\ At("unwind")
  /\ LET info == stack[Len(stack)] IN
       \/ /\ info.parent \in Known
          /\ AddFolders({info.key}, info.parent, [k \in {info.key} |-> info.rev])
       \/ /\ info.parent \notin Known
          /\ UNCHANGED entries
  /\ stack' = SubSeq(stack, 1, Len(stack) - 1)
  /\ IF Len(stack) = 1 THEN Return ELSE pc' = "unwind" /\ UNCHANGED ret
  /\ UNCHANGED <<remote, mayfail, treerev, todo, endrev, need, dir, cursor>>

-----------------------------------------------------------------------------
(* folder_tree_update. *)

\* device/get_status, for the timer in getattr and at mount.
GetStatus ==
  /\ At("idle") \/ At("status")
  /\ \/ treerev # devrev /\ pc' = "changes"
     \/ (treerev = devrev \/ "status" \in mayfail) /\ pc' = "idle"
  /\ UNCHANGED <<remote, mayfail, entries, treerev, ret, todo, endrev, need, stack, dir, cursor>>

\* What device/get_changes(treerev) reports.  An object in the trash is
\* reported deleted, or updated with the parent "trash".
Reported(intrash) ==
  {c \in Changes :
     /\ rparent[c.key] # None
     /\ rrev[c.key] > treerev
     /\ c.rev = rrev[c.key]
     /\ c.kind = IF rparent[c.key] # Trash THEN "updated"
                 ELSE IF c.key \in intrash THEN "intrash" ELSE "deleted"}

\* Mutant: the end is the revision of the last change, not of the device.
GetChangesLast ==
  /\ At("changes")
  /\ \E intrash \in SUBSET {k \in Keys : rparent[k] = Trash} : todo' = Reported(intrash)
  /\ \E last \in {c.rev : c \in todo'} \cup {treerev} :
       /\ \A c \in todo' : c.rev <= last
       /\ endrev' = last
  /\ pc' = "apply"
  /\ UNCHANGED <<remote, mayfail, entries, treerev, ret, need, stack, dir, cursor>>

GetChanges ==
  /\ At("changes")
  /\ \E intrash \in SUBSET {k \in Keys : rparent[k] = Trash} : todo' = Reported(intrash)
  /\ endrev' = devrev
  /\ pc' = "apply"
  /\ UNCHANGED <<remote, mayfail, entries, treerev, ret, need, stack, dir, cursor>>

GetChangesFails ==
  /\ At("changes")
  /\ "changes" \in mayfail
  /\ pc' = "idle"
  /\ UNCHANGED <<remote, mayfail, entries, treerev, ret, todo, endrev, need, stack, dir, cursor>>

\* The changes come sorted by revision; the order of equal ones is open.
NextChanges == {c \in todo : \A o \in todo : c.rev <= o.rev}

ApplyDeleted ==
  /\ At("apply")
  /\ \E c \in NextChanges :
       /\ c.kind = "deleted"
       /\ Remove(c.key)
       /\ todo' = todo \ {c}
  /\ UNCHANGED <<remote, mayfail, treerev, pc, ret, endrev, need, stack, dir, cursor>>

\* The entry already has what the change brings.
UpToDate(c) == c.key \in tab /\ rrem[c.key] >= c.rev

ApplyIgnored ==
  /\ At("apply")
  /\ \E c \in NextChanges :
       /\ c.kind # "deleted"
       /\ c.kind = "intrash" \/ UpToDate(c)
       /\ todo' = todo \ {c}
  /\ UNCHANGED <<remote, mayfail, entries, treerev, pc, ret, endrev, need, stack, dir, cursor>>

ApplyUpdated ==
  /\ At("apply")
  /\ \E c \in NextChanges :
       /\ c.kind = "updated" /\ ~UpToDate(c)
       /\ FetchInfo(c.key, "apply")
       /\ todo' = todo \ {c}
  /\ UNCHANGED <<remote, mayfail, entries, treerev, endrev, stack, dir, cursor>>

\* The root is never reported, so it is always filled again.
ApplyDone ==
  /\ At("apply")
  /\ todo = {}
  /\ FillFolder(Root, "end")
  /\ UNCHANGED <<remote, mayfail, tab, par, rrem, lrev, ub, treerev, todo, endrev, need, stack, cursor>>

\* folder_tree_housekeep, first pass: folders with a child that names another
\* parent are filled again.
Disputed == {d \in Known \cap Dirs : \E k \in kids[d] : par[k] # d}

\* Mutant: the revision is the one the remote has after the update.
EndUpdateNow ==
  /\ At("end")
  /\ treerev' = devrev
  /\ pc' = "housekeep"
  /\ UNCHANGED <<remote, mayfail, entries, ret, todo, endrev, need, stack, dir, cursor>>

EndUpdate ==
  /\ At("end")
  /\ treerev' = endrev
  /\ IF Disputed = {}
     THEN pc' = "housekeep" /\ UNCHANGED <<kids, dir, ret>>
     ELSE \E d \in Disputed : FillFolder(d, "end")
  /\ UNCHANGED <<remote, mayfail, tab, par, rrem, lrev, ub, todo, endrev, need, stack, cursor>>

\* Second pass, in the order of the buckets: an entry that its parent does not
\* list is asked for again.
\* Mutant: only a dangling parent pointer makes an orphan.
OrphanDangling(k) == par[k] = Dangling
Orphan(k) == par[k] = Dangling \/ k \notin kids[par[k]]
\* Mutant: every visit starts over.
AheadAgain == {k \in tab : Orphan(k)}
Ahead == {k \in tab : Bucket[k] > cursor /\ Orphan(k)}

HousekeepOrphan ==
  /\ At("housekeep")
  /\ \E k \in Ahead :
       /\ \A o \in Ahead : Bucket[k] <= Bucket[o]
       /\ cursor' = Bucket[k]
       /\ ub' = (par[k] = Dangling)
       /\ FetchInfo(k, "housekeep")
  /\ UNCHANGED <<remote, mayfail, tab, par, kids, rrem, lrev, treerev, todo, endrev, stack, dir>>

HousekeepDone ==
  /\ At("housekeep")
  /\ Ahead = {}
  /\ pc' = "idle"
  /\ cursor' = 0
  /\ endrev' = 0
  /\ UNCHANGED <<remote, mayfail, entries, treerev, ret, todo, need, stack, dir>>

-----------------------------------------------------------------------------
(* folder_tree_rebuild, when open_hashtbl finds no stored tree. *)

MountStatus ==
  /\ At("mount")
  /\ \/ treerev' = devrev /\ pc' = "mountinfo"
     \/ "status" \in mayfail /\ pc' = "idle" /\ UNCHANGED treerev
  /\ UNCHANGED <<remote, mayfail, entries, ret, todo, endrev, need, stack, dir, cursor>>

\* The information about the root, then its content.
MountInfo ==
  /\ At("mountinfo")
  /\ \/ rrem' = [rrem EXCEPT ![Root] = rrev[Root]]
     \/ "info" \in mayfail /\ UNCHANGED rrem
  /\ FillFolder(Root, "status")
  /\ UNCHANGED <<remote, mayfail, tab, par, lrev, ub, treerev, todo, endrev, need, stack, cursor>>

-----------------------------------------------------------------------------
(* The handlers of fuse/operations, as far as they touch the tree. *)

FewChanges == mayfail = {} \/ devrev < FailRev

Stale(d) == lrev[d] # rrem[d]

\* folder_tree_lookup_path fills every stale folder on its way.
Lookup ==
  /\ At("idle")
  /\ \E d \in Known \cap Dirs : d \in Subtree(Root) /\ Stale(d) /\ FillFolder(d, "idle")
  /\ UNCHANGED <<remote, mayfail, tab, par, rrem, lrev, ub, treerev, todo, endrev, need, stack, cursor>>

\* The folders a path walk passes without filling them.
Fresh ==
  LET fresh[n \in 0 .. Cardinality(Keys)] ==
        IF n = 0 THEN {d \in {Root} : ~Stale(d)}
        ELSE fresh[n - 1] \cup UNION {{k \in kids[d] \cap Folders : ~Stale(k)} :
                                        d \in fresh[n - 1]}
  IN fresh[Cardinality(Keys)]

\* What a path can name.  Its last folder is filled too, unless that fails.
Named == {Root} \cup UNION {kids[d] : d \in Fresh}
NamedDirs == {d \in Named \cap Dirs : Stale(d) => ContentFails(d)}
NamedFiles == Named \cap Files

\* A handler changes the remote and, with the mutex still held, goes on to
\* folder_tree_update(tree, conn, true).
ThenUpdate ==
  /\ At("idle")
  /\ pc' = "changes"
  /\ UNCHANGED <<entries, treerev, ret, todo, endrev, need, stack, dir, cursor, mayfail>>

\* A call after which the handler returns, or goes on, without updating the tree.
WithoutUpdate == At("idle") /\ UNCHANGED <<entries, treerev, control, mayfail>>

Mkdir(k, p) == p \in NamedDirs /\ RemoteCreate(k, p) /\ ThenUpdate
Rmdir(k)    == k \in NamedDirs /\ RemoteTrash(k) /\ ThenUpdate
Unlink(k)   == k \in NamedFiles /\ RemoteTrash(k) /\ ThenUpdate

\* The calls that come before the last one: a file or folder that also gets
\* another name is moved first, and an existing file of that name is deleted.
\* The last call may fail, and then the tree is not updated.
RenameBegins(k) ==
  /\ k \in NamedDirs \cup NamedFiles
  /\ \/ \E p \in NamedDirs : RemoteMove(k, p)
     \/ k \in Files /\ \E target \in NamedFiles \ {k} : RemoteTrash(target)
  /\ WithoutUpdate

\* The last call: to another folder, or to another name.
Rename(k) ==
  /\ k \in NamedDirs \cup NamedFiles
  /\ RemoteModify(k) \/ \E p \in NamedDirs : RemoteMove(k, p)
  /\ ThenUpdate

\* What flush does to the remote: a file is new, or it has new content.
Upload(k) ==
  /\ \/ \E p \in NamedDirs : RemoteCreate(k, p)
     \/ k \in NamedFiles /\ RemoteModify(k)
  /\ ThenUpdate

\* The one handler after which the tree is not updated.
Utimens(k) == k \in NamedDirs \cup NamedFiles /\ RemoteModify(k) /\ WithoutUpdate

Handler ==
  /\ CanChange /\ FewChanges
  /\ \/ \E k \in Folders : Rmdir(k) \/ \E p \in Dirs : Mkdir(k, p)
     \/ \E k \in Files : Unlink(k) \/ Upload(k)
     \/ \E k \in Keys : RenameBegins(k) \/ Rename(k) \/ Utimens(k)

\* Other clients of the account, at any time.
Others == FewChanges /\ RemoteNext /\ UNCHANGED <<entries, treerev, control, mayfail>>

-----------------------------------------------------------------------------
Init ==
  /\ RemoteInit
  /\ tab = {}
  /\ par = [k \in Keys |-> None]
  /\ kids = [d \in Dirs |-> {}]
  /\ rrem = [n \in Nodes |-> 0]
  /\ lrev = [d \in Dirs |-> 0]
  /\ ub = FALSE
  /\ treerev = 0
  /\ pc = "mount" /\ ret = "idle"
  /\ todo = {} /\ endrev = 0
  /\ need = None /\ stack = <<>>
  /\ dir = Root
  /\ cursor = 0
  /\ mayfail \in FailSets

\* What the thread that holds the mutex does.
Holder ==
  \/ ListFails \/ ListFolders \/ ListFiles
  \/ InfoFails \/ InfoAnswers \/ Unwind
  \/ GetChanges \/ GetChangesFails
  \/ ApplyDeleted \/ ApplyIgnored \/ ApplyUpdated \/ ApplyDone
  \/ EndUpdate \/ HousekeepOrphan \/ HousekeepDone
  \/ MountStatus \/ MountInfo

Next == Holder \/ GetStatus \/ Lookup \/ Handler \/ Others

Spec == Init /\ [][Next]_vars

-----------------------------------------------------------------------------
(* Safety. *)

\* A folder's children array holds only entries of the table, and each of them
\* names that folder as its parent: housekeeping's first pass (which "should
\* actually never happen") finds nothing, and no array keeps a pointer to an
\* entry that folder_tree_remove has freed.
ChildrenAgree ==
  \A d \in Dirs : \A k \in kids[d] : d \in Known /\ k \in tab /\ par[k] = d

\* What the steps between two API calls rely on; with it, TypeOK and
\* ChildrenAgree are inductive.
ControlInv ==
  /\ pc = "info" => need \in Keys
  /\ pc = "unwind" => stack # <<>>
  /\ pc \in {"folders", "files"} => dir \in Known

TreeInv == TypeOK /\ ChildrenAgree /\ ControlInv

\* The last update knew of every change so far.
Current == pc = "idle" /\ ~ub /\ treerev = devrev

\* A folder of which get_content can tell everything.  The root is not reported
\* as changed when it gets as small again.
Told(d) == IF d = Root THEN ~crowded ELSE Within(d)

\* Once the tree is at the remote's revision, every folder that a path walk takes
\* from the table as it is lists what the remote folder holds: whatever changed
\* on the remote while the tree was being read, and although the root, which no
\* change report mentions, may have been refilled without success.  Nothing is
\* listed that is not there.  That nothing is missing takes a folder within the
\* limit of get_content (folder_get_content.c:94), for the root one that has never
\* been beyond it, and a get_info that never fails for an object that exists,
\* since a failed one is taken for its removal (hashtbl.c:1424).
ViewAccurate ==
  Current =>
    \A d \in Fresh : /\ kids[d] \subseteq Content(Keys, d)
                     /\ Told(d) /\ "info" \notin mayfail => Content(Keys, d) \subseteq kids[d]

\* No change is lost: what changed up to the revision the tree claims is in the
\* entries, where the remote has it and with its revision.  An entry may be left
\* elsewhere, when its new folder could not be reached at the time, but then only
\* until that folder, which is not the root and has not been filled since its own
\* last change, is filled; or it is beyond the limit of get_content.  Whatever fails.
ChangesIntegrated ==
  pc = "idle" /\ ~ub =>
    \A k \in tab : rparent[k] \in Dirs /\ rrev[k] <= treerev =>
      IF par[k] = rparent[k]
      THEN rrem[k] = rrev[k]
      ELSE /\ rparent[k] # Root
           /\ lrev[rparent[k]] # rrev[rparent[k]] \/ ~Within(rparent[k])

\* "otherwise their parent pointers will reference unallocated memory":
\* removing a folder leaves no entry with a pointer to freed memory.
NoDanglingParent == \A k \in tab : par[k] # Dangling

-----------------------------------------------------------------------------
(* Steps. *)

\* rmdir need not look whether the directory is empty "because getattr was called
\* before and already made sure": what rmdir deletes has no children.
RmdirEmpty == [][\A d \in Folders : Rmdir(d) => kids[d] = {}]_vars

\* Entries that "have been completely removed remotely (including from the
\* trash)" are gone after housekeeping, unless a folder still lists them that no
\* path walk takes as it is.
Listed(k) == k \in kids[par[k]] /\ par[k] \notin Fresh
HousekeepingCleans ==
  [][(pc = "housekeep" /\ pc' = "idle" /\ ~ub /\ treerev = devrev)
       => \A k \in tab : Exists(k) \/ par[k] = Dangling \/ Listed(k)]_vars
=============================================================================
