----------------------------- MODULE OpenFiles -----------------------------
(***************************************************************************)
(* Several handles on the files of one directory: the handlers open,       *)
(* create, write, flush, release and getattr of fuse/operations, the two   *)
(* string bags of the mount and the part of fuse/filecache.c that handles  *)
(* share.  FUSE calls the handlers from several threads.  Each holds the   *)
(* mutex of the mount all along, so it is one step here, except that flush *)
(* looks at is_flushed before it takes the mutex and that create and       *)
(* release give the mutex up around their call of flush.                   *)
(*                                                                         *)
(* Only this mount changes the files and every update of the tree is       *)
(* answered: the tree's entries are those of the service.  What an open    *)
(* does when calls fail is FileCache's subject; here a copy of a revision  *)
(* holds its content.  As there, a content is a set of edits.              *)
(***************************************************************************)
EXTENDS Naturals, Sequences, FiniteSets

CONSTANTS
  Handles, Paths, Keys,
  Edits,       \* what can be written
  None,        \* no file, no copy
  Closed,      \* the handle is not in use
  MaxRev,      \* bound: revisions of a file
  OpSets       \* what ops may be

Ops == {"writers", "rename", "unlink", "dup"}

ASSUME OpenFilesAssumption ==
  /\ IsFiniteSet(Handles)
  /\ MaxRev \in Nat \ {0}
  /\ OpSets \subseteq SUBSET Ops
  /\ None \notin Keys
  /\ \A c \in SUBSET Edits : c # None

VARIABLES
  at,        \* the file at each path, on the service and in the tree
  hist,      \* hist[k]: the contents of the revisions of file k
  lrev,      \* h_entry.local_revision
  fresh,     \* fresh[k][r]: the copy <key>_<r>_new
  handle,    \* struct mediafirefs_openfile
  calls,     \* calls[h]: calls of flush that have seen is_flushed unset
  phase,     \* phase[h]: "create" or "release" when that handler calls flush
  writefiles, readonlyfiles,
  fatal,     \* a handler has ended the process
  ops        \* what is done besides: "writers": a second handle is opened for
             \* writing, "rename", "unlink", "dup": a descriptor is duplicated,
             \* so that two threads flush it

vars == <<at, hist, lrev, fresh, handle, calls, phase, writefiles, readonlyfiles, fatal, ops>>
bags == <<writefiles, readonlyfiles>>

Contents == SUBSET Edits
Revs     == 1 .. MaxRev
Rev(k)   == Len(hist[k])

\* What was written through a handle and the file that it is for (None until
\* the first upload) are history.
Record == [path : Paths, local : BOOLEAN, readonly : BOOLEAN, flushed : BOOLEAN,
           file : Keys \cup {None}, name : 0 .. MaxRev, data : Contents, wrote : Contents]

ASSUME ClosedAssumption == Closed \notin Record

Open    == {h \in Handles : handle[h] # Closed}
Writers == {h \in Open : ~handle[h].readonly}
MayWrite == "writers" \in ops \/ Writers = {}

Init ==
  /\ \E p \in Paths, k \in Keys, c \in Contents :
       /\ at = [q \in Paths |-> IF q = p THEN k ELSE None]
       /\ hist = [j \in Keys |-> IF j = k THEN <<c>> ELSE <<>>]
  /\ lrev = [k \in Keys |-> 0]
  /\ fresh = [k \in Keys |-> [r \in Revs |-> None]]
  /\ handle = [h \in Handles |-> Closed]
  /\ calls = [h \in Handles |-> 0]
  /\ phase = [h \in Handles |-> "none"]
  /\ writefiles = [p \in Paths |-> 0]
  /\ readonlyfiles = [p \in Paths |-> 0]
  /\ fatal = FALSE
  /\ ops \in OpSets

-----------------------------------------------------------------------------
(* utils/stringv.c: bags of strings.  Taking out what is not in is fatal.  *)

Added(bag, p) == [bag EXCEPT ![p] = @ + 1]
Has(bag, p)   == bag[p] > 0
\* A mutant: one entry too many.
RemovedTwo(bag, p) == [bag EXCEPT ![p] = @ - 2]
Removed(bag, p) == [bag EXCEPT ![p] = @ - 1]

-----------------------------------------------------------------------------
(* open and create *)

\* Whoever writes to a file writes to the copy of its latest revision, which
\* is made from the original unless it is there.
FreshCopy(k) == IF fresh[k][Rev(k)] = None THEN hist[k][Rev(k)] ELSE fresh[k][Rev(k)]

OpenFile(h, p, readonly) ==
  /\ ~fatal /\ handle[h] = Closed /\ at[p] # None
  /\ readonly \/ MayWrite
  /\ LET k == at[p] IN
       /\ handle' = [handle EXCEPT ![h] =
            [path |-> p, local |-> FALSE, readonly |-> readonly, flushed |-> TRUE,
             file |-> k, name |-> Rev(k), data |-> {}, wrote |-> {}]]
       /\ lrev' = [lrev EXCEPT ![k] = Rev(k)]
       /\ fresh' = IF readonly THEN fresh ELSE [fresh EXCEPT ![k][Rev(k)] = FreshCopy(k)]
  /\ writefiles' = IF readonly THEN writefiles ELSE Added(writefiles, p)
  /\ readonlyfiles' = IF readonly THEN Added(readonlyfiles, p) ELSE readonlyfiles
  /\ UNCHANGED <<at, hist, calls, phase, fatal, ops>>

\* getattr: a path that is open for writing exists
Getattr(p) == at[p] # None \/ Has(writefiles, p)

\* create, for a path that getattr has not found; then its call of flush
Create(h, p) ==
  /\ ~fatal /\ handle[h] = Closed /\ ~Getattr(p)
  /\ MayWrite
  /\ handle' = [handle EXCEPT ![h] =
       [path |-> p, local |-> TRUE, readonly |-> FALSE, flushed |-> FALSE,
        file |-> None, name |-> 0, data |-> {}, wrote |-> {}]]
  /\ writefiles' = Added(writefiles, p)
  /\ phase' = [phase EXCEPT ![h] = "create"]
  /\ calls' = [calls EXCEPT ![h] = 1]
  /\ UNCHANGED <<at, hist, lrev, fresh, readonlyfiles, fatal, ops>>

-----------------------------------------------------------------------------
Write(h, e) ==
  /\ ~fatal /\ h \in Writers /\ phase[h] = "none"
  /\ LET o == handle[h] IN
       /\ handle' = [handle EXCEPT ![h] =
            [o EXCEPT !.data = IF o.local THEN @ \cup {e} ELSE @, !.wrote = @ \cup {e},
                      !.flushed = FALSE]]
       /\ fresh' = IF o.local THEN fresh
                   ELSE [fresh EXCEPT ![o.file][o.name] = @ \cup {e}]
  /\ UNCHANGED <<at, hist, lrev, calls, phase, bags, fatal, ops>>

-----------------------------------------------------------------------------
(* flush *)

MaxCalls == IF "dup" \in ops THEN 2 ELSE 1

\* A mutant: is_flushed is set where it is read.
FlushCheckClaims(h) ==
  /\ ~fatal /\ h \in Open /\ phase[h] = "none" /\ calls[h] < MaxCalls
  /\ ~handle[h].flushed
  /\ calls' = [calls EXCEPT ![h] = @ + 1]
  /\ handle' = [handle EXCEPT ![h].flushed = TRUE]
  /\ UNCHANGED <<at, hist, lrev, fresh, phase, bags, fatal, ops>>
\* The test of is_flushed, without the mutex.
FlushCheck(h) ==
  /\ ~fatal /\ h \in Open /\ phase[h] = "none" /\ calls[h] < MaxCalls
  /\ ~handle[h].flushed
  /\ calls' = [calls EXCEPT ![h] = @ + 1]
  /\ UNCHANGED <<at, hist, lrev, fresh, handle, phase, bags, fatal, ops>>

\* Create and release do not look at what flush returns.
Returns(h) ==
  /\ calls' = [calls EXCEPT ![h] = @ - 1]
  /\ phase' = [phase EXCEPT ![h] = IF @ = "release" THEN "released" ELSE "none"]

FlushFails(h) == Returns(h) /\ UNCHANGED <<at, hist, handle>>

Flushed(h, k) == handle' = [handle EXCEPT ![h].flushed = TRUE, ![h].file = k]

\* A file that was created by its handle is uploaded, in full or by its hash,
\* under the path it was created with; what is at that path is replaced.
UploadLocal(h) ==
  LET o == handle[h] IN
    \/ /\ at[o.path] # None /\ Rev(at[o.path]) < MaxRev
       /\ hist' = [hist EXCEPT ![at[o.path]] = Append(@, o.data)]
       /\ Flushed(h, at[o.path])
       /\ UNCHANGED at
    \/ /\ at[o.path] = None
       /\ \E k \in Keys :
            /\ hist[k] = <<>>
            /\ hist' = [hist EXCEPT ![k] = <<o.data>>]
            /\ at' = [at EXCEPT ![o.path] = k]
            /\ Flushed(h, k)

\* Any other file: the difference between the original and the copy of the
\* revision that the tree now calls local, of the file now at the path.  The
\* service takes a patch of its latest revision and perhaps one of another.
PatchKey(h) == at[handle[h].path]
UploadPatch(h) ==
  LET k == PatchKey(h) IN
    /\ k # None /\ lrev[k] # 0
    /\ fresh[k][lrev[k]] # None
    /\ IF fresh[k][lrev[k]] = hist[k][lrev[k]]
       THEN UNCHANGED hist
       ELSE Rev(k) < MaxRev /\ hist' = [hist EXCEPT ![k] = Append(@, fresh[k][lrev[k]])]
    /\ handle' = [handle EXCEPT ![h].flushed = TRUE]
    /\ UNCHANGED at

\* The rest of flush, under the mutex.
Flush(h) ==
  /\ ~fatal /\ calls[h] > 0
  /\ \/ FlushFails(h)
     \/ handle[h].local /\ UploadLocal(h) /\ Returns(h)
     \/ ~handle[h].local /\ UploadPatch(h) /\ Returns(h)
  /\ UNCHANGED <<lrev, fresh, bags, fatal, ops>>

-----------------------------------------------------------------------------
(* release *)

\* release calls flush first, once the last of the other calls has returned.
StartRelease(h) ==
  /\ ~fatal /\ h \in Open /\ phase[h] = "none" /\ calls[h] = 0
  /\ phase' = [phase EXCEPT ![h] = IF handle[h].flushed THEN "released" ELSE "release"]
  /\ calls' = [calls EXCEPT ![h] = IF handle[h].flushed THEN 0 ELSE 1]
  /\ UNCHANGED <<at, hist, lrev, fresh, handle, bags, fatal, ops>>

\* A mutant: the path that the file has now.
EntryNow(h) == IF \E p \in Paths : at[p] = handle[h].file /\ at[p] # None
               THEN CHOOSE p \in Paths : at[p] = handle[h].file
               ELSE handle[h].path
Entry(h) == handle[h].path

Release(h) ==
  /\ ~fatal /\ phase[h] = "released"
  /\ LET bag == IF handle[h].readonly THEN readonlyfiles ELSE writefiles IN
       IF Has(bag, Entry(h))
       THEN /\ IF handle[h].readonly
               THEN /\ readonlyfiles' = Removed(bag, Entry(h))
                    /\ UNCHANGED writefiles
               ELSE /\ writefiles' = Removed(bag, Entry(h))
                    /\ UNCHANGED readonlyfiles
            /\ handle' = [handle EXCEPT ![h] = Closed]
            /\ phase' = [phase EXCEPT ![h] = "none"]
            /\ UNCHANGED fatal
       ELSE fatal' = TRUE /\ UNCHANGED <<handle, phase, bags>>
  /\ UNCHANGED <<at, hist, lrev, fresh, calls, ops>>

-----------------------------------------------------------------------------
(* rename and unlink.  FUSE itself hides an open file that something is to *)
(* take the place of, or that is unlinked, so they meet closed files only. *)
(* A rename moves the file's revision on the service, too, with the same   *)
(* content.  That is left out: what is claimed of stored contents is       *)
(* claimed without renames.                                                *)

IsOpen(k) == \E h \in Open : handle[h].file = k

Rename(p, q) ==
  /\ "rename" \in ops /\ ~fatal
  /\ p # q /\ at[p] # None /\ (at[q] = None \/ ~IsOpen(at[q]))
  /\ at' = [at EXCEPT ![q] = at[p], ![p] = None]
  /\ UNCHANGED <<hist, lrev, fresh, handle, calls, phase, bags, fatal, ops>>

Unlink(p) ==
  /\ "unlink" \in ops /\ ~fatal
  /\ at[p] # None /\ ~IsOpen(at[p])
  /\ at' = [at EXCEPT ![p] = None]
  /\ UNCHANGED <<hist, lrev, fresh, handle, calls, phase, bags, fatal, ops>>

-----------------------------------------------------------------------------
Next ==
  \/ \E h \in Handles :
       \/ \E p \in Paths : (\E readonly \in BOOLEAN : OpenFile(h, p, readonly)) \/ Create(h, p)
       \/ \E e \in Edits : Write(h, e)
       \/ FlushCheck(h) \/ Flush(h)
       \/ StartRelease(h) \/ Release(h)
  \/ \E p, q \in Paths : Rename(p, q)
  \/ \E p \in Paths : Unlink(p)

Spec == Init /\ [][Next]_vars

-----------------------------------------------------------------------------
TypeOK ==
  /\ at \in [Paths -> Keys \cup {None}]
  /\ hist \in [Keys -> Seq(Contents)]
  /\ lrev \in [Keys -> 0 .. MaxRev]
  /\ fresh \in [Keys -> [Revs -> {None} \cup Contents]]
  /\ \A h \in Open : handle[h] \in Record
  /\ calls \in [Handles -> 0 .. 2]
  /\ phase \in [Handles -> {"none", "create", "release", "released"}]
  /\ writefiles \in [Paths -> Nat]
  /\ readonlyfiles \in [Paths -> Nat]
  /\ fatal \in BOOLEAN
  /\ ops \in OpSets

\* The bags hold each path once per handle that was opened with it, whatever
\* was renamed or failed meanwhile, so no release ends the process with
\* "FATAL: writefiles entry not found" (release.c:84 and 97).
On(p, readonly) == {h \in Open : handle[h].path = p /\ handle[h].readonly = readonly}
BagsMatch ==
  /\ \A p \in Paths : /\ writefiles[p] = Cardinality(On(p, FALSE))
                      /\ readonlyfiles[p] = Cardinality(On(p, TRUE))
  /\ ~fatal

\* What was written through a handle whose flush has reported success is in
\* the file that the handle is for: in a revision not older than the one that
\* was opened (flush.c:192, "we have to check whether any changes were made
\* and if yes, upload a patch").
Stored(h) ==
  LET o == handle[h] IN
    o.file # None /\ \E r \in 1 .. Rev(o.file) : o.name <= r /\ o.wrote \subseteq hist[o.file][r]
StoredIfFlushed == \A h \in Writers : handle[h].flushed => Stored(h)

\* It holds of a file with one writer at a time that is not renamed, even if
\* its descriptor is duplicated and two threads flush it: after a rename, flush
\* uses the old path (rename.c:145).
FlushedStored == ops \cap {"writers", "rename"} = {} => StoredIfFlushed

\* And with several, if opening a file did not move it to another revision
\* while it is open: "a file that has opened in any way will not be updated to
\* its latest remote revision until all its opened handles are closed"
\* (open.c:67).
WritersStored == "rename" \notin ops => StoredIfFlushed
=============================================================================
