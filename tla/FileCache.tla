----------------------------- MODULE FileCache -----------------------------
(***************************************************************************)
(* The local copies of one file's content: fuse/filecache.c, the file part *)
(* of fuse/hashtbl.c (folder_tree_open_file, _truncate_file and            *)
(* _upload_patch) and the handlers that call it for one open file.         *)
(*                                                                         *)
(* The directory of copies holds <key>_<revision>, here cached[revision],  *)
(* and <key>_<revision>_new, the copy that writers write to, here          *)
(* fresh[revision].  It outlives the process.  The content of a file is    *)
(* the set of edits made since it was last truncated; Junk is anything     *)
(* else (part of a download, the page of an error, a copy cut short), and  *)
(* hashes are equal exactly when contents are.  The empty file is {}.      *)
(*                                                                         *)
(* The mutex of the mount is held during an open, a flush or a truncation, *)
(* so only other clients and the service act between two calls, and the    *)
(* end of the process, which may come while a file is written.  One handle *)
(* is open at a time: OpenFiles is about several.                          *)
(***************************************************************************)
EXTENDS Naturals, Sequences

CONSTANTS
  Edits,    \* what can be written
  Junk,     \* no content of the file
  Absent,   \* no such file
  NoHandle,
  MaxRev,   \* bound: revisions of the file
  Settings  \* what faults and ops may be, together

Faults == {"call", "refused", "download", "copy"}
Ops    == {"others", "truncate", "remount", "crash", "lost"}

ASSUME FileCacheAssumption ==
  /\ MaxRev \in Nat \ {0}
  /\ Junk # Absent
  /\ \A c \in SUBSET Edits : c # Junk /\ c # Absent
  /\ Settings \subseteq (SUBSET Faults) \X (SUBSET Ops)

VARIABLES
  rev,      \* the service: the file's revision,
  hist,     \* the content of each revision so far,
  pending,  \* and what an upload has sent that is not yet a revision
  entry,    \* h_entry: local_revision, remote_revision; fsize and hash as data
  cached,
  fresh,
  job,      \* the running filecache_open_file, flush or truncation, or that no
            \* process runs
  handle,   \* the open file: readonly, the revision its name on disk has,
            \* is_flushed; what was written through it (history)
  faults,   \* what may go wrong: "call": calls, "refused": truncations that the
            \* service answers with an error, "download": downloads and patching
            \* that end early, "copy": copies cut off in the middle, by a full
            \* disk or the end of the process
  ops       \* what happens besides opening, writing and closing: "others",
            \* "truncate", "remount": unmounting and mounting, "crash": the
            \* process ends anywhere, "lost": a mount finds no stored tree

remote  == <<rev, hist, pending>>
disk    == <<cached, fresh>>
setting == <<faults, ops>>
vars    == <<remote, entry, disk, job, handle, setting>>

Contents == SUBSET Edits
Files    == {Junk, Absent} \cup Contents
Revs     == 1 .. MaxRev
Names    == 0 .. MaxRev   \* 0: never fetched

\* An open file, and what StoredFile has of one.
Handle == [mode : {"r", "w"}, name : Revs, flushed : BOOLEAN, wrote : Contents]

ASSUME HandleAssumption ==
  /\ NoHandle \notin Handle
  /\ NoHandle \notin [since : Revs, sees : Contents]
  /\ NoHandle \notin [since : Revs, wrote : Contents, stored : BOOLEAN]

Idle == [pc |-> "idle", mode |-> "r", todo |-> <<>>, last |-> 0, closing |-> FALSE]

Init ==
  /\ rev = 1
  /\ hist \in {[r \in Revs |-> IF r = 1 THEN c ELSE Absent] : c \in Contents}
  /\ pending = Absent
  /\ entry = [local |-> 0, remote |-> 1, data |-> hist[1]]
  /\ cached = [r \in Names |-> Absent]
  /\ fresh = [r \in Names |-> Absent]
  /\ job = Idle
  /\ handle = NoHandle
  /\ \E s \in Settings : faults = s[1] /\ ops = s[2]

-----------------------------------------------------------------------------
(* The service (external). *)

Store(c) ==
  /\ rev < MaxRev
  /\ rev' = rev + 1
  /\ hist' = [hist EXCEPT ![rev + 1] = c]

\* What was written over Junk is another Junk.
Edited(c, e) == IF c = Junk THEN Junk ELSE c \cup {e}

\* Another client writes or truncates the file (bound: a revision is left for
\* what was sent).
OtherStores ==
  /\ "others" \in ops
  /\ pending = Absent \/ rev + 1 < MaxRev
  /\ \/ \E e \in Edits : Edited(hist[rev], e) # hist[rev] /\ Store(Edited(hist[rev], e))
     \/ hist[rev] # {} /\ Store({})
  /\ UNCHANGED <<pending, entry, disk, job, handle, setting>>

\* What an upload has sent becomes the content of the file, whether or not
\* somebody still waits for that.
Complete ==
  /\ pending # Absent
  /\ Store(pending)
  /\ pending' = Absent
  /\ UNCHANGED <<entry, disk, job, handle, setting>>

\* device/get_updates offers patches that lead from one revision to another,
\* or none; a faulty service offers any.
Patches == {p \in Revs \X Revs : p[1] < p[2] /\ p[2] <= rev}
PatchLists == {<<>>} \cup {<<p>> : p \in Patches} \cup {<<p, q>> : p \in Patches, q \in Patches}
LeadsTo(list) ==
  /\ Head(list)[1] = entry.local
  /\ \A i \in 2 .. Len(list) : list[i][1] = list[i - 1][2]
  /\ list[Len(list)][2] = entry.remote
Offered == {list \in PatchLists : list = <<>> \/ LeadsTo(list) \/ "call" \in faults}

-----------------------------------------------------------------------------
(* folder_tree_update: the entry gets the revision, size and hash of now.  *)

Known == [entry EXCEPT !.remote = rev, !.data = hist[rev]]

\* getattr, once the interval has passed, or the update of some other handler
Learn ==
  /\ job = Idle
  /\ entry # Known
  /\ entry' = Known
  /\ UNCHANGED <<remote, disk, job, handle, setting>>

-----------------------------------------------------------------------------
(* Opening: filecache_open_file with update set, as every caller has it.   *)

\* What a copy made by fsio_file_copy holds: its result is not looked at.
CopyOf(c) == {c} \cup (IF "copy" \in faults THEN {Junk} ELSE {})

\* A mutant: the name of the revision that was there before.
DeliverLocal(mode) ==
  /\ handle' = [mode |-> mode, name |-> entry.local, flushed |-> TRUE, wrote |-> {}]
  /\ entry' = [entry EXCEPT !.local = entry.remote]
Deliver(mode) ==
  /\ handle' = [mode |-> mode, name |-> entry.remote, flushed |-> TRUE, wrote |-> {}]
  /\ entry' = [entry EXCEPT !.local = entry.remote]

\* Neither copy nor original is there: update the old revision if there is
\* one, or download the file.
Retrieve(mode) ==
  /\ job' = [Idle EXCEPT !.pc = IF cached[entry.local] # Absent THEN "updates" ELSE "links",
                         !.mode = mode, !.last = entry.local]
  /\ UNCHANGED <<entry, handle>>

OpenCached ==
  /\ job = Idle /\ handle = NoHandle
  /\ \/ /\ cached[entry.remote] # Absent
        /\ Deliver("r")
        /\ UNCHANGED job
     \/ /\ cached[entry.remote] = Absent
        /\ Retrieve("r")
  /\ UNCHANGED <<remote, disk, setting>>

\* The copy for writing is created before its original is known to exist.
\* A mutant: nothing is copied.
OpenFreshEmpty(c) == [fresh EXCEPT ![entry.remote] = {}]
OpenFreshCreated(c) == [fresh EXCEPT ![entry.remote] = c]
OpenFresh ==
  /\ job = Idle /\ handle = NoHandle
  /\ \/ /\ fresh[entry.remote] # Absent
        /\ Deliver("w")
        /\ UNCHANGED <<fresh, job>>
     \/ /\ fresh[entry.remote] = Absent /\ cached[entry.remote] # Absent
        /\ \E c \in CopyOf(cached[entry.remote]) : fresh' = OpenFreshCreated(c)
        /\ Deliver("w")
        /\ UNCHANGED job
     \/ /\ fresh[entry.remote] = Absent /\ cached[entry.remote] = Absent
        /\ fresh' = OpenFreshCreated({})
        /\ Retrieve("w")
  /\ UNCHANGED <<remote, cached, setting>>

\* A mutant: an open that fails starts again.
OpenFailsRetry == job' = [job EXCEPT !.pc = "links"] /\ UNCHANGED <<entry, handle>>
OpenFails == job' = Idle /\ UNCHANGED <<entry, handle>>

\* filecache_update_file
GetUpdates ==
  /\ job.pc = "updates"
  /\ \/ \E list \in Offered :
          job' = [job EXCEPT !.pc = IF list = <<>> THEN "links" ELSE "patch", !.todo = list]
        /\ UNCHANGED <<entry, handle>>
     \/ "call" \in faults /\ OpenFails
  /\ UNCHANGED <<remote, disk, setting>>

\* The patch goes on from the last one and the file has the hash it needs.
\* A mutant: the hash is not compared.
FitsAny(p) == p[1] = job.last /\ cached[p[1]] # Absent
Fits(p) == p[1] = job.last /\ cached[p[1]] = hist[p[1]]

\* filecache_download_patch: whether the patch is there, with the right hash
DownloadPatch == IF "call" \in faults THEN BOOLEAN ELSE {TRUE}

Patched(p, c) == [cached EXCEPT ![p[2]] = c]
\* One turn of its loop: download the patch, check the file to patch, patch
\* it, check the result.
ApplyPatch ==
  /\ job.pc = "patch" /\ job.todo # <<>>
  /\ LET p == Head(job.todo)
         c == IF cached[p[1]] = hist[p[1]] THEN hist[p[2]] ELSE Junk IN
       \/ /\ Fits(p)
          /\ cached' = Patched(p, c)
          /\ IF c = hist[p[2]]
             THEN /\ job' = [job EXCEPT !.todo = Tail(job.todo), !.last = p[2]]
                  /\ UNCHANGED <<entry, handle>>
             ELSE OpenFails
       \/ /\ ~Fits(p) \/ FALSE \in DownloadPatch
          /\ OpenFails
          /\ UNCHANGED cached
       \/ /\ Fits(p) /\ "download" \in faults
          /\ cached' = Patched(p, Junk)
          /\ OpenFails
  /\ UNCHANGED <<remote, fresh, setting>>

PatchesDone ==
  /\ job.pc = "patch" /\ job.todo = <<>>
  /\ \/ job.last = entry.remote /\ job' = [job EXCEPT !.pc = "check"] /\ UNCHANGED <<entry, handle>>
     \/ job.last # entry.remote /\ OpenFails
  /\ UNCHANGED <<remote, disk, setting>>

\* A mutant: the copy gets the name of the old revision.
DownloadedLocal(c) == [cached EXCEPT ![entry.local] = c]
Downloaded(c) == [cached EXCEPT ![entry.remote] = c]
\* filecache_download_file.  The link leads to the content of now, whatever
\* the entry's revision is; the page of an error is a download like any other.
GetLinks ==
  /\ job.pc = "links"
  /\ \/ job' = [job EXCEPT !.pc = "http"] /\ UNCHANGED <<entry, handle>>
     \/ "call" \in faults /\ OpenFails
  /\ UNCHANGED <<remote, disk, setting>>

Download ==
  /\ job.pc = "http"
  /\ \/ /\ \E c \in {hist[rev]} \cup (IF "download" \in faults THEN {Junk} ELSE {}) :
             cached' = Downloaded(c)
        /\ job' = [job EXCEPT !.pc = "check"]
        /\ UNCHANGED <<entry, handle>>
     \/ /\ "download" \in faults
        /\ \E c \in {Junk, {}} : cached' = Downloaded(c)
        /\ OpenFails
  /\ UNCHANGED <<remote, fresh, setting>>

\* file_check_integrity: size and hash are those of the entry
Intact(c) == c = entry.data

\* The integrity check and the open itself.  A file that fails the check
\* stays where it is.
CheckIntegrity ==
  /\ job.pc = "check"
  /\ \/ /\ ~Intact(cached[entry.remote])
        /\ OpenFails
        /\ UNCHANGED fresh
     \/ /\ Intact(cached[entry.remote]) /\ job.mode = "r"
        /\ Deliver("r")
        /\ job' = Idle
        /\ UNCHANGED fresh
     \/ /\ Intact(cached[entry.remote]) /\ job.mode = "w"
        /\ \E c \in CopyOf(cached[entry.remote]) : fresh' = OpenFreshCreated(c)
        /\ Deliver("w")
        /\ job' = Idle
  /\ UNCHANGED <<remote, cached, setting>>

-----------------------------------------------------------------------------
(* Writing, flushing, closing. *)

Writable == handle # NoHandle /\ handle.mode = "w"

Write ==
  /\ job = Idle /\ Writable
  /\ \E e \in Edits :
       /\ fresh' = [fresh EXCEPT ![handle.name] = Edited(@, e)]
       /\ handle' = [handle EXCEPT !.flushed = FALSE, !.wrote = @ \cup {e}]
  /\ UNCHANGED <<remote, entry, cached, job, setting>>

Sync(closing)    == [Idle EXCEPT !.pc = "sync", !.closing = closing]
Closing(closing) == IF closing THEN [Idle EXCEPT !.pc = "release"] ELSE Idle

\* The content that filecache_upload_patch sends, and the one it is sent as
\* a change of.
Target == fresh[entry.local]
Source == cached[entry.local]

\* A mutant: the changes count as sent.
FlushFailsQuietly(closing) ==
  /\ job' = Closing(closing)
  /\ handle' = [handle EXCEPT !.flushed = TRUE]
  /\ UNCHANGED remote
FlushFails(closing) ==
  /\ job' = Closing(closing)
  /\ UNCHANGED <<remote, handle>>

FlushSucceeds(closing) ==
  /\ handle' = [handle EXCEPT !.flushed = TRUE]
  /\ job' = Sync(closing)

\* Whether the service takes a patch of this source: surely if it is the
\* content of now, perhaps if it once was.
\* A mutant: the patch is sent without the hash of its source.
PatchableAny == TRUE
Patchable == \E r \in 1 .. rev : hist[r] = Source

Sends == pending' = Target /\ UNCHANGED <<rev, hist>>

\* upload/patch, or upload/simple if the source is empty.  A call that is
\* reported as failed may have been done.
Upload(closing) ==
  /\ rev < MaxRev
  /\ \/ /\ Source = {} \/ Patchable
        /\ Sends
        /\ job' = [Idle EXCEPT !.pc = "poll", !.closing = closing]
        /\ UNCHANGED handle
     \/ /\ (Source # {} /\ Source # hist[rev]) \/ "call" \in faults
        /\ FlushFails(closing)
     \/ /\ "call" \in faults
        /\ Source = {} \/ Patchable
        /\ Sends
        /\ job' = Closing(closing)
        /\ UNCHANGED handle

Unchanged == Target = Source /\ Target # Junk

\* filecache_upload_patch, called by flush
UploadPatch(closing) ==
  \/ /\ Source = Absent \/ Target = Absent
     /\ FlushFails(closing)
  \/ /\ Source # Absent /\ Unchanged
     /\ FlushSucceeds(closing)
     /\ UNCHANGED remote
  \/ /\ Source # Absent /\ Target # Absent /\ ~Unchanged
     /\ Upload(closing)

\* mediafirefs_flush of a handle with unsent changes; release calls it first.
Flush ==
  /\ job = Idle /\ Writable /\ ~handle.flushed
  /\ \E closing \in BOOLEAN : UploadPatch(closing)
  /\ UNCHANGED <<entry, disk, setting>>

\* mfconn_upload_poll_for_completion: it asks again for as long as the service
\* answers that the upload is not completed.
\* A mutant: one answer is enough.
PollAny(closing) == FlushSucceeds(closing) /\ UNCHANGED remote
Poll(closing) ==
  \/ pending = Absent /\ FlushSucceeds(closing) /\ UNCHANGED remote
  \/ "call" \in faults /\ FlushFails(closing)

FlushPolls ==
  /\ job.pc = "poll"
  /\ Poll(job.closing)
  /\ UNCHANGED <<entry, disk, setting>>

UpdateEntry == entry' = Known \/ ("call" \in faults /\ UNCHANGED entry)

FlushUpdates ==
  /\ job.pc = "sync"
  /\ UpdateEntry
  /\ job' = Closing(job.closing)
  /\ UNCHANGED <<remote, disk, handle, setting>>

\* mediafirefs_release: what the flush made of it does not matter.
Release ==
  /\ \/ job.pc = "release"
     \/ job = Idle /\ handle # NoHandle /\ handle.flushed
  /\ IF Writable THEN UpdateEntry ELSE UNCHANGED entry
  /\ handle' = NoHandle
  /\ job' = Idle
  /\ UNCHANGED <<remote, disk, setting>>

-----------------------------------------------------------------------------
(* Truncating, by path: filecache_truncate_file. *)

Truncating == [Idle EXCEPT !.pc = "truncate"]

\* file/update.  Only -1 counts as a failure: the error codes of the service
\* and of curl do not.
Truncate ==
  /\ "truncate" \in ops /\ job = Idle
  /\ pending = Absent \/ rev + 1 < MaxRev
  /\ \/ Store({}) /\ job' = Truncating
     \/ "call" \in faults /\ Store({}) /\ UNCHANGED job
     \/ "refused" \in faults /\ job' = Truncating /\ UNCHANGED <<rev, hist>>
  /\ UNCHANGED <<pending, entry, disk, handle, setting>>

\* open with O_TRUNC, which creates nothing
Emptied(files, r) == IF files[r] = Absent THEN files ELSE [files EXCEPT ![r] = {}]
Truncated(files) == Emptied(Emptied(files, entry.local), entry.remote)

TruncateLocal ==
  /\ job.pc = "truncate"
  /\ cached' = Truncated(cached)
  /\ fresh' = Truncated(fresh)
  /\ entry' = [entry EXCEPT !.local = entry.remote]
  /\ handle' = IF Writable /\ handle.name \in {entry.local, entry.remote}
               THEN [handle EXCEPT !.wrote = {}]
               ELSE handle
  /\ job' = Idle
  /\ UNCHANGED <<remote, setting>>

-----------------------------------------------------------------------------
(* The process ends and is started again. *)

Down(pc) == [Idle EXCEPT !.pc = pc]
Runs == job.pc \notin {"unmounted", "crashed"}

\* mediafirefs_destroy takes the mutex and stores the tree.
Unmount ==
  /\ "remount" \in ops /\ job = Idle
  /\ job' = Down("unmounted")
  /\ handle' = NoHandle
  /\ UNCHANGED <<remote, entry, disk, setting>>

\* What is left of a file that was just being written.
Cut == {{}, Junk}

\* The copies, if the process ends at this point or on the way from here to the
\* end of the step: while a file is downloaded to its final name or patched, ..
Left ==
  {cached}
  \cup {Downloaded(c) : c \in {d \in Cut : job.pc = "http"}}
  \cup {Patched(Head(job.todo), c) :
          c \in {d \in Cut : job.pc = "patch" /\ job.todo # <<>> /\ Fits(Head(job.todo))}}
\* .. while a copy for writing is made, ..
Copying ==
  \/ job = Idle /\ handle = NoHandle /\ fresh[entry.remote] = Absent /\ cached[entry.remote] # Absent
  \/ job.pc = "check" /\ job.mode = "w" /\ Intact(cached[entry.remote])
LeftFresh ==
  {fresh}
  \cup {OpenFreshCreated(c) : c \in {d \in Cut : Copying /\ (d = Junk => "copy" \in faults)}}
\* .. and between the four truncations.
LeftTruncated ==
  {<<Emptied(cached, entry.local), fresh>>, <<Truncated(cached), fresh>>,
   <<Truncated(cached), Emptied(fresh, entry.local)>>, <<Truncated(cached), Truncated(fresh)>>}

Crash ==
  /\ "crash" \in ops /\ Runs
  /\ \/ \E c \in Left : cached' = c /\ UNCHANGED fresh
     \/ \E f \in LeftFresh : fresh' = f /\ UNCHANGED cached
     \/ /\ job.pc = "truncate"
        /\ \E d \in LeftTruncated : cached' = d[1] /\ fresh' = d[2]
  /\ job' = Down("crashed")
  /\ handle' = NoHandle
  /\ UNCHANGED <<remote, entry, setting>>

\* folder_tree_cleanup_filecache for this file: the right copy is that of the
\* remote revision, if the local one is the same and the content that of the
\* entry.
\* A mutant: the content is not compared.
RightNames(e) == {r \in Names : r = e.remote /\ r = e.local}
Right(e) == {r \in Names : r = e.remote /\ r = e.local /\ cached[r] = e.data}
Copies == {r \in Names : cached[r] # Absent}

Keeps(names) == cached' = [r \in Names |-> IF r \in names THEN cached[r] ELSE Absent]

\* The update of a tree that was loaded, which a failing call prevents
Loaded(e) ==
  \/ entry' = [Known EXCEPT !.local = e.local]
  \/ "call" \in faults /\ entry' = e

\* Any other copy leaves the entry without a local revision; the right copy is
\* dropped, too, if it comes after another one or is evicted.
Cleaned(e) ==
  \/ /\ Keeps(Right(e))
     /\ Loaded([e EXCEPT !.local = IF Copies \subseteq Right(e) THEN @ ELSE 0])
  \/ /\ Copies # {}
     /\ Keeps({})
     /\ Loaded([e EXCEPT !.local = 0])

\* The entry as the last unmount has stored it: of now, or of before a crash
\* (which of these the tree has had is not kept).
Earlier ==
  {e \in {[local |-> l, remote |-> r, data |-> hist[r]] : l \in Names, r \in 1 .. entry.remote} :
     e.local <= e.remote}
Stored == IF job.pc = "unmounted" THEN {entry} ELSE Earlier

\* The copies are cleaned by the stored tree, before it is updated.  Without a
\* stored tree nothing is cleaned.
Mount ==
  /\ ~Runs
  /\ job' = Idle
  /\ \/ \E e \in Stored : Cleaned(e)
     \/ "lost" \in ops /\ UNCHANGED cached /\ entry' = [Known EXCEPT !.local = 0]
  /\ UNCHANGED <<remote, fresh, handle, setting>>

-----------------------------------------------------------------------------
OpenStep == GetUpdates \/ ApplyPatch \/ PatchesDone \/ GetLinks \/ Download \/ CheckIntegrity
JobStep ==
  OpenStep \/ FlushPolls \/ FlushUpdates \/ (job.pc = "release" /\ Release) \/ TruncateLocal

Next ==
  \/ OtherStores \/ Complete \/ Learn
  \/ OpenCached \/ OpenFresh
  \/ OpenStep
  \/ Write \/ Flush \/ FlushPolls \/ FlushUpdates \/ Release
  \/ Truncate \/ TruncateLocal
  \/ Unmount \/ Crash \/ Mount

Spec == Init /\ [][Next]_vars

\* The thread that holds the mutex goes on, and the service completes what was
\* sent to it: the code waits for that as long as it takes (mfconn.c:440).
FairSpec == Spec /\ WF_vars(JobStep) /\ WF_vars(Complete)

-----------------------------------------------------------------------------
TypeOK ==
  /\ rev \in Revs
  /\ hist \in [Revs -> Files]
  /\ pending \in Files
  /\ entry \in [local : Names, remote : Revs, data : {Junk} \cup Contents]
  /\ cached \in [Names -> Files]
  /\ fresh \in [Names -> Files]
  /\ job \in [pc : {"idle", "updates", "patch", "links", "http", "check", "poll", "sync", "release",
                    "truncate", "unmounted", "crashed"},
              mode : {"r", "w"}, todo : Seq(Revs \X Revs), last : Names, closing : BOOLEAN]
  /\ handle \in {NoHandle} \cup Handle
  /\ <<faults, ops>> \in Settings

\* The faults that the names of the copies hide: what is left of a download or
\* of a copy that ended early has the final name (filecache.c:303, 455), and a
\* truncation that the service refused is done to the copies (filecache.c:233).
Hidden == {"refused", "download", "copy"}

\* Nothing cleans what a crash leaves if the next mount has no stored tree: the
\* first mount ever, or if no unmount could store one (main.c:451, 474).
Uncleaned == {"crash", "lost"} \subseteq ops

Trusted == faults \cap Hidden = {} /\ ~Uncleaned

\* A reader sees the content that the file had at the revision that the tree
\* knew when it was opened, or at a later one, for as long as it has it open;
\* also after the process ended while a copy was written under its final name.
ReadTrue ==
  Trusted /\ handle # NoHandle /\ handle.mode = "r" =>
    \E r \in handle.name .. rev : cached[handle.name] = hist[r]

\* No copy for writing is cut off, and none is made of a part of a download that
\* a restart replaces by the whole: what a download leaves that ends early is
\* only taken away by the cleanup of a mount.
Uncut ==
  /\ "copy" \notin faults
  /\ "download" \notin faults \/ ops \cap {"remount", "crash"} = {}
  /\ ~Uncleaned

\* Once a flush has reported success, everything that was written through the
\* handle is in the content of a revision not older than the one opened.
FlushedReached ==
  Uncut /\ Writable /\ handle.flushed =>
    \E r \in handle.name .. rev : hist[r] # Junk /\ handle.wrote \subseteq hist[r]

\* Nothing but contents of the file ever gets to the service, whatever calls,
\* truncations and downloads do.
JunkStaysHome == Uncut => Junk \notin {hist[r] : r \in 1 .. rev}

\* What a flush sends adds to the content of the file and loses nothing of it,
\* when nothing fails and nothing else happens: a file is opened for writing
\* with all that its revision holds ("the temporary file wasn't available, so we
\* copy it from the original", filecache.c:299).
Adds == Complete => hist[rev] \subseteq hist'[rev']
NothingLost == [][faults = {} /\ ops = {} => Adds]_vars

\* The same, of the file that is changed only here, when calls fail.
FailuresLoseNothing == [][ops = {} => Adds]_vars

\* When nothing fails and nothing else happens, no truncation and no restart
\* either, an open of the revision of now does not fail: what the earlier opens,
\* writes and flushes have left of copies does not stand in its way.
AnsweredOpens ==
  [][faults = {} /\ ops = {} /\ OpenStep /\ job' = Idle /\ entry = Known => handle' # NoHandle]_vars

\* The file as StoredFile has it: the name of a reader's copy leads to what it
\* sees.  Where copies are not to be trusted nothing is promised: the file of StoredFile then
\* never changes.
Promising(value, nothing) == IF Trusted THEN value ELSE nothing
Opened ==
  IF handle = NoHandle THEN NoHandle
  ELSE IF handle.mode = "r" THEN [since |-> handle.name, sees |-> cached[handle.name]]
  ELSE [since |-> handle.name, wrote |-> handle.wrote, stored |-> handle.flushed]

Promised == INSTANCE StoredFile WITH
  Closed <- NoHandle,
  rev    <- Promising(rev, 1),
  hist   <- Promising(hist, <<{}>>),
  known  <- Promising(entry.remote, 1),
  open   <- Promising(Opened, NoHandle)

\* Every behaviour of the cache is one of StoredFile, which knows no copies,
\* patches or downloads.
Implements == Promised!Spec

\* Whatever the service answers, an open, a flush or a truncation ends and the
\* mutex is released, if every upload is completed at some time.
JobsEnd == job # Idle /\ Runs ~> job = Idle \/ ~Runs
=============================================================================
