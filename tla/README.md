# A verification project for mediafire-fuse

TLA+ modules of the file system's core, model-checked with TLC on small
instances, and theorems about them that TLAPS checks for all instances. Line
numbers refer to the repository's files; `PROJECT.json` maps every definition to
the lines it stands for, lists the runs, the mutants that show each property to
be able to fail, and the hazards that the properties are about.

## The system

mediafire-fuse mounts a MediaFire account with FUSE. One process keeps a local
copy of the remote tree (`fuse/hashtbl.c`) and copies of file contents
(`fuse/filecache.c`); FUSE threads run the handlers of `fuse/operations` under one
mutex, and every handler talks to the service through `mfapi`.

| component | state | operations | hard behaviour | what makes it correct | module |
|---|---|---|---|---|---|
| folder tree, `fuse/hashtbl.c` | hash table of entries (remote and local revision, parent pointer, children array), the root, the tree's revision | lookup by path (fills stale folders), rebuild, update (integrate `device/get_changes`), housekeep, remove | the remote changes between any two API calls; any call may fail; pointers between entries that are freed | arrays and parent pointers agree, no pointer to freed memory; no change is lost; at the remote's revision the view equals the remote, as far as one answer of `folder/get_content` tells it | `FolderTree` |
| stored tree, `hashtbl.c`, `main.c`, `destroy.c` | the file `directorytree` | store, load, create | crash while running or writing, old files | whatever file is found, the tree catches up | `StoredTree` |
| file cache, `fuse/filecache.c`, file part of `hashtbl.c` | files `<key>_<rev>` and `<key>_<rev>_new` on disk, `local_revision` | open (patches, download, copy for writing), truncate, upload patch and wait for its completion | failing downloads and copies, leftovers of failures and crashes, other clients | what is read is a content of the file; what was written and reported as flushed is stored | `FileCache`, `StoredFile` |
| cleanup at mount, `hashtbl.c` 1808-2025 | the directory of copies, a list of valid copies | check each, evict | order of `readdir`, failing `unlink` | no wrong copy is left for the next open; what is left fits | `CacheCleanup` |
| handlers of open files | per mount: the mutex, bags of open paths; per handle: `is_local`, `is_flushed`, path | open, create, write, flush, release; rename, unlink | threads; windows without the mutex; files renamed while open | no release is fatal; a reported flush has stored what was written | `OpenFiles` |
| handlers that change the remote tree | - | mkdir, rmdir, unlink, rename (each ends with an update of the local tree), utimens (does not), getattr's status timer | the tree moves between the kernel's getattr and the operation | an operation hits the object its path named | `FolderTree` |
| session, `mfapi/mfconn.c` | session token, secret key | refresh token, sign, advance the key, wait for an upload | a call lost after the server advanced the key | client and server keys agree after a refresh | `Session` |
| API calls, `mfapi/apicalls` | none across calls | 21 calls and the login: build, sign, send, decode, retry | timeouts after the work was done, retries exhausted | success means the call was done | `Session` |
| block copies and digests, `utils/fsio.c`, `utils/hash.c` | buffer, counters, `errno` | copy, digest | short reads and writes, errors, interrupts | the target equals the source | `Fsio` |
| string bag, `utils/stringv.c` | strings | add, member, delete | - | - | `OpenFiles` |
| account and statfs | cached sizes with a dirty flag | statfs | stale sizes | - | - |
| `http.c`, `xdelta3.c`, `config.c`, `strings.c`, decoders | - | HTTP, patches, options | - | - | outcomes only |
| `mfshell`, `mfcheck` | current folder | one API call per command | none concurrent | - | - |
| the MediaFire service | the tree, the trash, revisions, contents, sessions | everything above | other clients | (external) | `Remote` and parts of the others |

Handlers call the tree, the tree calls the file cache and the API, the API calls use
the session. Callbacks are the JSON decoders and the hooks of `fsio.c` only.

How the modules build on each other: `FolderTree` extends `Remote`, `StoredTree`
extends `FolderTree` (a mount, its end and the next mount around the tree).
`FileCache` implements `StoredFile`. `FileCache` is about one file, one handle at
a time and everything that can fail; `OpenFiles` is about several handles and
threads and lets calls succeed or fail as a whole. `Session` is what lies below the
calls that the other modules take as answered or failed.

## The modules

### Remote

`rparent` gives the folder of each object, `Trash`, or `None` (never created, or
removed from the trash too). Each change increments `devrev` and sets the revision
of the object and of the folders whose children it alters. What is assumed, and
why the code needs it: changes are reported in the order of revisions
(`hashtbl.c:1505`); the root is never reported (1569); objects gone from the trash
are not reported (1494); a folder's revision moves with its children (a folder is
refilled only if its revision changed, 521). A change of a file's content or name
moves only the file's own revision. `folder/get_content` answers one chunk
(`Chunk`, 400 in the code) of the folders or files in a folder: a larger one
answers any 400 of them (`Answers`), since `folder_get_content.c:93-113` asks for the first chunk only and
does not honour `more_chunks`, as its comment says. `crowded` remembers whether the root was ever beyond that. The trash is reported either as
`deleted_*` or as `updated_*` with the parent `"trash"`, since the code handles both.

### FolderTree

The state of the code: `tab` (keys in the hash table), `par` (parent pointers), `kids`
(children arrays), `rrem` and `lrev` (remote and local revision), `treerev`
(`tree->revision`). Pointers are represented by keys; a pointer to a freed entry is
`Dangling`, and following it sets `ub`, after which the local program takes no step.
The remote can change between two API calls; a local step is the code from one call
to the next:

| action | code |
|---|---|
| `FillFolder`, `ListFolders`, `ListFiles`, `ListFails` | `folder_tree_rebuild_helper` and its two `folder/get_content` calls |
| `FetchInfo`, `InfoAnswers`, `InfoFails`, `Unwind` | `folder_tree_update_file_info`, `folder_tree_update_folder_info`; `stack` holds the answers that wait for their parent |
| `GetStatus`, `GetChanges(Fails)`, `Apply*`, `EndUpdate` | `folder_tree_update` |
| `HousekeepOrphan`, `HousekeepDone` (and `Disputed` in `EndUpdate`) | `folder_tree_housekeep` |
| `MountStatus`, `MountInfo` | `open_hashtbl` without a stored tree, `folder_tree_rebuild` |
| `Lookup` | `folder_tree_lookup_path` filling a stale folder |
| `Mkdir`, `Rmdir`, `Unlink`, `Rename`, `Upload` | the handlers: the remote is changed, then `folder_tree_update(.., true)` |
| `Utimens`, `RenameBegins` | changes of the remote that no update follows: `utimens`, and the calls of `rename` before its last |
| `Others` | other clients of the account |

`Remove` is `folder_tree_remove` with its loop as written: the recursive call shrinks
the array the loop runs over, so of *n* children the first, third, ... are removed.
The order of a children array is abstracted, so `Freed` holds every set one call may free.

A handler's path walk fills stale folders first, so handlers name only what is
reachable through filled folders (`Named`). The handler's change and the start of
`folder_tree_update` are one step. `rename` makes up to three calls: the move to another
folder, `file/delete` of an existing file of the new name, whose result is ignored, and the
change of the name. Those before the last are `RenameBegins`, the last is `Rename`: when it fails
there is no update, and other clients may act in between.

Abstracted: names, times, the order of children, hash collisions (`Bucket` is
injective and gives the order in which housekeeping visits the table), failures of
`malloc`. During the first walk the root is its own child for a moment
(`folder_tree_update_folder_info(NULL)`); its array is freed before the next call.
A path that vanished between the kernel's getattr and `mkdir` or `rename` makes the
handler use the root or a stale key (`mkdir.c:101`, `rename.c:88`): the remote
changes that this makes are among those of the model, but that they are the wrong ones
needs the path of the request, which is abstracted.

### StoredTree

`dircache` is the stored file: a header and one record per entry, a parent being the
position of a record. `Unmount` writes it (`folder_tree_store`), whole or cut
short, since the results of writing are ignored; `Crash` ends the process at
any step and leaves the file that was there; `Load` and `CreateNew` are `open_hashtbl` at the
next mount. Loading makes the children arrays from the parents. A record of an
entry whose parent was freed reads freed memory (`UnmountTouchesFreed`). All actions
of `FolderTree` go on while `proc = "up"`; the remote changes also while nothing runs.

### FileCache and StoredFile

`cached[r]` and `fresh[r]` are the copies `<key>_<r>` and `<key>_<r>_new` of one file;
both outlive the process. `entry` is the file's `h_entry`, `job` the open, flush or truncation
that runs (one step per call to the service) or that no process does, `handle` the open file,
`pending` what an upload has sent and the service has not completed.
The content of a file is the set of edits made since it was last truncated;
`Junk` is anything that is no content of it (a partial download, an error
page, a copy cut short). Hashes are equal exactly when contents are.

| action | code |
|---|---|
| `OpenCached`, `OpenFresh` | `filecache_open_file` up to its first call; the copy for writing is created before its original is known to exist |
| `GetUpdates`, `ApplyPatch`, `PatchesDone` | `filecache_update_file`, `filecache_download_patch`, `filecache_patch_file` |
| `GetLinks`, `Download`, `CheckIntegrity` | `filecache_download_file`, `file_check_integrity` and the open itself |
| `Write`, `Flush`, `FlushUpdates`, `Release` | the handlers, with `folder_tree_upload_patch` and `filecache_upload_patch` |
| `FlushPolls` | `mfconn_upload_poll_for_completion`, which ends with status 98 or 99, or when a poll fails |
| `Truncate`, `TruncateLocal` | `mediafirefs_truncate`: the call, then `folder_tree_truncate_file`, `filecache_truncate_file` |
| `Unmount`, `Crash`, `Mount` | `destroy`; the end of the process anywhere; the next mount, with what the cleanup leaves |
| `Learn` | an update of the tree by another handler |
| `OtherStores`, `Complete` | other clients; the service completes an upload (external) |

A copy has its final name while it is written. So `Crash` leaves, besides the copies as they are, part of the file that
is being downloaded, patched or copied at that point (`Left`, `LeftFresh`), or some of the copies truncated
(`LeftTruncated`). The next mount cleans the copies by the tree that the last unmount stored (`Cleaned`; after a crash any
earlier state of the entry will do, `Earlier`). If it finds no stored tree, the code deletes nothing (`"lost"`), and
the next open hands out what lies under the name of the revision.

An upload that the wait has seen complete is one that is stored. The code takes the status 98 and 99 for that and
ignores the `fileerror` of the answer (`mfconn.c:448`); which errors there are, and what the service then has, the source does not
tell, so a completed upload that was not stored is not modelled.

What may go wrong is a constant of a behaviour, `faults`: `"call"` (calls fail, also
after the service did the work), `"refused"` (truncations the service answers with an
error), `"download"` (downloads and patching end early), `"copy"` (copies on
disk do); `ops` says what is done besides opening, writing and closing.

`StoredFile` is what a user may rely on: a file is a sequence of revisions;
a reader sees the content of one that is not older than what the mount knew when
it opened the file; when a flush reports success, what was written is in
a revision not older than the one opened. It knows no copies, patches or downloads. The refinement
mapping (`Promised` in `FileCache`) takes `rev` and `hist` as they are, `known` as
`entry.remote`, and the open handle as what its copy leads to (`Opened`): a
reader's view is `cached[handle.name]` at every moment, so a copy that changed
under a reader would be a step that `StoredFile` has not. Three faults are
hidden by the names of the copies, since what is left of a download or copy that ended
early has the final name, and a refused truncation is done to the copies all the
same (`filecache.c:303`, `455`, `233`); so is what a crash leaves when nothing cleans it (`Uncleaned`).
Where one of these may happen nothing is promised (`Trusted`, `Promising`).

### OpenFiles

Each handler is a step, since it holds the mutex all along, except that `flush` reads
`is_flushed` before it takes the mutex (`FlushCheck` and `Flush` are two steps) and that
`create` and `release` give the mutex up around their call of `flush` (`phase`).
`calls[h]` counts the threads that are inside `flush` of a handle: two with
a duplicated descriptor. `writefiles` and `readonlyfiles` are the string bags;
taking out what is not in one sets `fatal` (`exit(1)`). `UploadPatch` compares the
copies of the revision that the tree *now* calls local, of the file *now* at the
path, which is what makes renames and second opens interesting. FUSE hides open
files that are unlinked or replaced, so `rename` and `unlink` meet closed targets only.

### CacheCleanup

`folder_tree_cleanup_filecache`: `Visit` handles one name of the directory, in any order
(`VisitUnknown`, `VisitStale`, `VisitValid`), `Summed` adds up the sizes of the
valid copies, `Evict` removes one until they fit. The comparison that sorts copies by access
time takes the addresses of pointers for entries, so any copy may be
evicted first. `unlink` may fail, which is only reported; `stuck` remembers for which names.

### Session

Client and service each hold a secret key, sign or check a call with its low byte, and
advance it once per call. `token` stands for the three strings of the connection
(`session_token`, `secret_time`, `ekey`), `key` for `secret_key`, `skey` for the
service's copy; `attempt` is a call's loop counter and `login` the stack of loop
counters of `user/get_session_token`, which refreshes by calling itself.

| action | code |
|---|---|
| `Start`, `StartPoll`, `PollAgain`, `Leave` | a caller; `mfconn_upload_poll_for_completion` |
| `Attempt`, `CannotSign` | one turn of a call's loop: `mfconn_create_signed_get`, the request, `mfconn_update_secret_key`, the test for 127 and 28 |
| `Refresh`, `RefreshReturns` | `mfconn_refresh_token` and the end of the loop |
| `LoginAnswers`, `LoginRepeats`, `LoginFails`, `LoginFreesGarbage`, `LoginReturns` | the login's loop and the copy of its local response |
| `Created` | `mfconn_create` |
| `Expire`, `Complete` | the service (external) |

The 21 calls differ in three respects only: `user/get_info` has no retry loop,
`upload/poll_upload` is not signed, and a success without an answer leaves different
things in the result (`out`). A request was carried out or not, and came back or not,
in any combination (`Outcomes`); after a timeout the code itself "does not know whether
the server accepted or rejected the last call". What a decoder extracts is abstracted. An
uninitialised pointer is `"garbage"` (or happens to be NULL); using one sets `ub`.
`done`, `timeouts`, `trouble` and `loose` are history variables that only the properties read.

### Fsio

The source is the bytes 1, 2, ..., `size`; a step is one system call or what happens
between two. A read puts its bytes where the buffer begins, wherever the last ones
went (`Filled`), a failed `read` is counted as minus one byte (`ReadFails`), the digest's
count is unsigned (`More`), and `errno` stays `EINTR` from one call of a thread to the
next (`stale`), where `_fsio_recommend` loops on it. `out` is the target of a copy, or
what went into the digest. The code counts a byte for each failure of `read`
for as long as it fails, without a bound; `MaxFails` is the model's. `TypeOK` gives
the counters no upper bound, only what they are together while a block is read.

## What the runs show

A run may cover several scenarios: which calls fail (`mayfail`, `faults`) and which
operations happen besides (`ops`) is a variable that is chosen at the start and never
changes, so that each property states in its premise under which faults it holds, and
one run checks all combinations that the configuration lists.
`CHECK_DEADLOCK FALSE` is said where the system may stop: after `ub` or `fatal` the
local program takes no step, the remote stops at its bound, a cleanup or copy is done.

| run | instance | checks |
|---|---|---|
| `tree_races` | 2 folders, 1 file, 3 changes of the remote without failures, 2 with failing calls | `TypeOK`, `ChildrenAgree`, `ViewAccurate`, `ChangesIntegrated`, `HousekeepingCleans` |
| `stored_tree` | 2 folders, 2 files, 2 mounts, 2 changes (1 with failing calls) | `StoredTypeOK`, `NothingMissing`, `ChangesIntegrated`, `Serves`, `CatchesUp` |
| `file_cache` | 1 file, 3 revisions, 2 edits, eight settings | `TypeOK`, `ReadTrue`, `FlushedReached`, `JunkStaysHome`, `NothingLost`, `AnsweredOpens`, `Implements`, `JobsEnd` |
| `open_files` | 2 handles, 2 paths, 2 files, 2 edits, 2 revisions | `TypeOK`, `BagsMatch`, `FlushedStored` |
| `cleanup_left` | 2 files, 2 revisions, sizes 1 and 2, room for 1 | `TypeOK`, `LeftRight`, `LeftFits` |
| `session_calls` | 3 retries, 3 nested logins | `TypeOK`, `KeysAgree`, `RepeatsNeedTimeout`, `Honest`, `Recovers`, `PollEnds` |
| `fsio` | at most 6 bytes, blocks of 2, 2 calls in a row, four sets of faults | `TypeOK`, `Counted`, `Honest`, `Returns` |
| `tree_dangling` | as `tree_races`, no failures | finds `NoDanglingParent` violated |
| `tree_rmdir` | as `tree_races`, no failures | finds `RmdirEmpty` violated |
| `cache_fresh` | 3 edits, 4 revisions, calls fail | finds `FailuresLoseNothing` violated |
| `open_writers` | 2 handles, 3 revisions, several writers | finds `WritersStored` violated |
| `session_success` | as `session_calls` | finds `SuccessIsAnswered` violated |

### The tree

Three trees to start from: a folder holding a folder and a file; two folders side by
side; a folder holding a file, with a folder still to be created. `MaxRev` is the
only bound (`MaxRev - 1` changes; `FailRev` is the smaller one of behaviours with failing
calls); the local program is not bounded.
Two folders and a file are enough for a move between folders, a removal of a folder
with two children, a parent that is unknown when its child is reported, and an
object removed from the trash under a folder that is still listed. `Chunk = 1` makes two folders, or two files,
in one folder more than an answer tells: the second tree starts with the root beyond the limit, and a move makes it so in the others.
`stored_tree` has the first of them and a folder with two files in it.

* **ViewAccurate**: when the tree is at the remote's revision, each folder that a
  path walk passes without refilling it lists what the remote folder holds. It
  survives failing `get_content` calls: a refill of the root that fails
  leaves the root empty although `tree->revision` advances (1584), but
  the second pass of housekeeping finds the root's former children to be orphans and
  adds them again. It does not survive a failing `get_info` (an entry is removed and
  nothing reports it again), hence its premise; the comment at 1424 accepts this.
  That nothing is listed which is not there needs no premise. That nothing is missing takes a folder
  that one answer of `get_content` can tell (`Told`): of a larger one the code shows 400 folders and 400 files, as
  its comment admits (`folder_get_content.c:94`). For any folder but the root it is enough that it is within the limit now; the root
  must always have been, as no change report tells that it has become smaller, so that nothing
  refills it. Without either half of this premise the run finds a violation.
* **ChangesIntegrated**: for a live object whose last change is not newer than
  `tree->revision`, an entry in the right folder has the remote's revision. This is what the
  comment at 1590 relies on when it lets changes arrive during an update. An entry may
  be in another folder, but only while its right one has not been filled since its own last change:
  a change report that moves an object into a folder which the tree does not
  know fetches the folder's chain of parents first (`Unwind`), and if that chain ends
  in a failed or trashed folder, the entry stays where it was (1371-1392). Nothing brings
  it into place before the folder is known and filled, which is when a path walk can first reach
  it; or not even then, if the folder is beyond the limit of `get_content`. That takes more folders than the runs have: in their instances every entry is in its
  place, and a statement that every entry always is would hold of the runs only.
* **HousekeepingCleans**: after housekeeping, no entry is left of an object that is
  gone from the trash too, unless a folder lists it that no path walk takes as it is.
* **NoDanglingParent** (violated): removing a folder with two children keeps one of them in
  the table, with a parent pointer to freed memory that housekeeping follows.
* **RmdirEmpty** (violated): `rmdir` of a directory with children deletes them.
* **NothingMissing**: over several mounts, a folder that is not stale and is where the remote
  has it lists all that the remote has there, within the same limit (`Told`). It may list too much, so that `ViewAccurate`
  itself does not hold after a remount: an object
  in the trash that a refill of its folder has dropped is still in the table, so it is
  stored, and loading (which makes the arrays from the parents, 381) lists it again; if it is removed from the
  trash while nothing runs, no change report takes it away (1494). The same happens to
  an object that was moved and whose entry stayed behind (see `ChangesIntegrated`): its old folder was filled
  without it, the entry kept its parent, and loading lists it there again.
* **Serves**: the mutex is released again in every mount: the walk, the update and housekeeping end.
* **CatchesUp**: without failing calls every mount comes to be at the remote's revision with nothing lost, from
  whole, old and cut files. The process may be down again for ever.

### The file cache

Eight settings (`MCFileCache`): races with other clients, truncations, remounts and mounts without a stored tree
while calls fail (`Races`); crashes anywhere, with other clients and truncations (`Crashes`), and while calls
fail (`Offline`); refused truncations of files that downloads cut short; cut downloads of
a file that others change; failing calls and downloads of a file that nobody else changes; copies cut
short by a full disk or by a crash; and nothing of all that. Three revisions and two edits allow a patch chain of
two, a store by another client between any two calls, and a revision that is neither
the known one nor the latest. The edits are alike, so the file starts empty or with the first of them (`Small`).

* **ReadTrue**: a reader sees the content of a revision between the one known at its open and the latest,
  for as long as it has the file open, also after a crash left part of a file under its final name, provided that
  the mount after it has a stored tree to clean by. Without one (the first mount that ever crashed, say), the part of a
  download is handed out (`filecache.c:263-278` checks nothing): this is the premise `Uncleaned`, and without it the
  property is violated in an instance with both `"crash"` and `"lost"`.
* **FlushedReached**: a flush that reported success has stored everything written through the handle.
  It does not survive a copy that was cut short (`Uncut`): one for writing, or one whose original
  is a part of a download, when a restart lets the original be downloaded again beside the copy made of it.
* **JunkStaysHome**: nothing but contents of the file gets to the service: patches are sent with the hash of
  their source, and an upload in full is one of an empty source. The premise is `Uncut` as well.
* **NothingLost**: a flush keeps what the file had, when nothing fails and nobody else writes.
  **FailuresLoseNothing** (violated): it does not once an open for writing has failed.
* **AnsweredOpens**: an open of the revision of now does not fail by itself, when nothing fails and nothing else is done to
  the file. After a truncation it may: the emptied copy of an older revision is no base for a patch (`hashtbl.c:822`).
* **Implements**: the cache implements `StoredFile`, over remounts and crashes.
* **JobsEnd**: every open, flush and truncation ends, the wait for the completion of an upload included, if
  the service completes what was sent to it.

### Open files

Two scenarios: several writers and renames, and unlinks with a duplicated descriptor and one writer at a time. Renames
concern the bags, whose contents do not depend on edits: there one edit is enough (`FewEdits`). Two revisions
allow one flush beyond the revision that was opened. Handles, paths, files and edits are
symmetric: the specification treats all of each alike and no liveness is checked.

* **BagsMatch**: each bag holds each path once per handle opened with it, so no release ends the process.
* **FlushedStored**: with one writer at a time and without renames, a flush that reports success has stored
  what was written, although two threads may pass the test of `is_flushed` together.
* **WritersStored** (violated): with two writers it has not: opening the file moves its local
  revision on, and the first writer's flush compares other copies.

### Cleanup

Any directory of the four possible copies, each right or wrong, with any entries.
**LeftRight**: what is left is a right copy of the file's remote revision; **LeftFits**: it is
not larger than allowed. Both hold of each copy whatever happens to the others, except for a copy whose own `unlink` fails
(`stuck`): that one stays, right or wrong, and the next open takes it, since it looks for the name only
(`filecache.c:263`). That the entry has then no local revision does not help.

### Session

`Mult = 3`, `Modulus = 5` and `SigMod = 2` make a generator with period 4 whose keys
often have the same signature, as one in 256 has in the code: a client with the wrong key is
accepted by chance. `MaxLogins` bounds the recursion of the login, the only
unbounded thing; at 3 a login that used up its attempts returns into another one.

* **KeysAgree**: the keys stay equal while every signed call is answered, refusals
  included.
* **RepeatsNeedTimeout**: a call is carried out twice only after a timeout.
* **Recovers**: a call that finds the session ended or the keys apart gets a new session
  and is carried out exactly once, if nothing is lost meanwhile.
* **Honest** and **SuccessIsAnswered** (violated): success without an answer happens, and only when
  the last attempt of the loop is followed by a successful refresh.
* **PollEnds**: waiting for an upload ends.

### Block copies

Six bytes and blocks of two make three full blocks or two and a rest; two calls in a row
let a stale `errno` of the first meet the second.

* **Honest**: a copy that reports success is one, unless `read` returned less than there
  was, or worked again after errors. **Counted**: even with short reads as many bytes are
  reported as the source has. **Returns**: calls end whatever short reads and writes do.
  The premises are where the code goes wrong: the rest of a short read goes to the
  beginning of the buffer (`fsio.c:411`), a failing `read` is retried for ever and counted
  as a byte (419), and `fstatvfs` is repeated while `errno` is `EINTR` (330).

### Fairness

* `StoredFairSpec`: the thread that holds the mutex goes on (`WF` of `Work`: each API call
  answers or fails, which is assumed of libcurl: the code sets a timeout for connecting
  only), and the status check is made over and over (`SF` of `Look`: `getattr` precedes
  every other operation and checks once 60 seconds have passed). Nothing is assumed of the remote.
* `FairSpec` of `FileCache`: a job that has begun goes on (`WF` of `JobStep`), for the
  same reason, and for the wait for an upload `WF` of `Complete`: the service gets done with what was sent
  to it. The code waits in `mfconn_upload_poll_for_completion` for as long as the status is neither 98 nor 99,
  with the mutex held, and has no bound of its own; `Session` has that loop in detail.
* `FairSpec` of `Session`: `WF` of `Caller`, and for the wait for an upload more than a scheduler:
  `SF` of `Answered` (the network does not lose every answer) and `WF` of `Complete`
  (the service gets done). The code has no bound of its own.
* `FairSpec` of `Fsio`: a thread goes on.

## What is proved

All proofs are for every value of the constants that the named assumptions allow; TLC evaluates these
assumptions in the runs. Constants are assumed to be different kinds of things (a key is no `Trash`), bounds
positive, sets finite where they are counted.

| module | theorems | inductive invariant |
|---|---|---|
| `FolderTreeProofs` | `TypeCorrect`, `ChildrenAlwaysAgree`, `FirstPassIdle` | `TreeInv` |
| `FolderTreeViewProofs` | `NoChangeLost`, `ViewsAreAccurate`, `HousekeepingIsClean` | `ViewInv` |
| `StoredTreeProofs` | `StoredTypeCorrect`, `StoredChildrenAgree`, `NoMountLosesChanges`, `NothingGoesMissing` | `MountsInv` |
| `FileCacheProofs` | `CacheTypeCorrect`, `ReadersSeeTrue`, `CacheImplements`, `FlushesReach`, `OnlyContentsAreSent`, `FlushesLoseNothing`, `OpensAreAnswered` | `CacheInv`, `OrderInv`, `HomeInv`, `QuietInv` |
| `OpenFilesProofs` | `OpenFilesTypeCorrect`, `BagsCorrect`, `FlushedIsStored` | `OpenInv`, `SoleInv` |
| `CacheCleanupProofs` | `LeftAreRight`, `CleanupTypeCorrect`, `WhatIsLeftFits` | `CopiesInv`, `SumInv` |
| `SessionProofs` | `SessionTypeCorrect`, `KeysAlwaysAgree`, `NoRepeatWithoutTimeout`, `SuccessIsHonest`, `SessionRecovers` | `CallInv` |
| `FsioProofs` | `FsioTypeCorrect`, `SuccessIsCounted`, `SuccessIsHonest` | `RangeInv`, `CountInv`, `ContentInv` |

So every invariant and every action property that a passing run checks is a theorem, and so is the refinement of
`StoredFile`; only the liveness properties are not. The larger invariants were
checked by TLC on the runs' instances before they were proved.

**The tree.** `TreeInv == TypeOK /\ ChildrenAgree /\ ControlInv`. Adding
an entry (`AddAgrees`) takes it out of the array of the parent it names, so it is
listed twice only if another array had it, which the agreement excludes. Removing
(`RemoveAgrees`) clears freed entries out of one array only, the one of the parent of
the entry removed first; any other freed entry has a freed parent, and the agreement says that
no other array lists it. `ControlInv` is needed because the folder being filled
(`dir`) must still be in the table, and because `Unwind` takes the last element of
`stack`. `FirstPassIdle`: the first pass of housekeeping never finds anything, as its comment says.

**What the tree shows.** `ViewInv` is `KeepInv`, which holds of a table however it was made, and `ExactInv`,
which relies on this mount having made it. Nothing local is ever ahead of the remote (`RevInv`). The changes that are
still to integrate (`TodoInv`) and the answers that wait for a parent (`InfoInv`) say
what the remote said when they were fetched, or the remote has moved on past the revision the update will end with
(`Bound`); that is why changes may arrive in between. `HeldInv` and `AgreeInv` say of each entry that it is
up to date or that what will make it so is still in the list; `CompleteInv` and `FillInv` that a folder filled at its present
revision, within the limit of `get_content`, lacks nothing, because both its calls were answered at that revision or its revision has moved on.
The root is different, as no change report names it: what a failed refill has left out of it is
still to come, as a change, or as an orphan in a bucket that housekeeping has yet to visit (`RootInv`).
Whether a folder is within the limit changes only with its revision, or when the folder itself is gone together with all
that it holds (`RemoteTells`).
`ExactInv` is the other direction: a filled folder lists nothing that is elsewhere now, and housekeeping has left nothing
behind that is gone, up to the bucket it has come to (`CleanInv`).
The set of objects below a folder (`Below`), and those a removal may free (`Freed`), are recursive functions. What they compute is not proved by
the library's induction, which needs an operator as a parameter, but by a smallest
counterexample (`SmallestExists`): `IterationExists` shows that such a function exists and is of its
type, `GrowthKeeps` and `GrowthWithin` what its last value contains.

**The stored tree.** `StoredInv` adds that every record of the file names a parent within the
number the header announces (`FileTyped`). Storing needs that the positions of the entries
count each of 1 to their number once (`PositionPositive`, `PositionGrows`, `EveryPosition`: an
injection of a finite set into a set of the same size is onto), loading that a file
of the announced length has every parent that its records name (`LoadTyped`). The steps of a mount are those of
`FolderTreeProofs`, whose lemmas are used as they are.
`MountsInv` adds `KeepInv` and the part of it that a file must bring along (`FileInv`): nothing in it is newer than the remote, its entries are in place or
out of date, and its filled folders lack nothing. It holds of what `Unmount` stores since `KeepInv` does
(`StoredWhole`: what is loaded is what was stored), stays true while the remote moves on and nothing runs, and gives
`KeepInv` when the file is loaded, with arrays made anew from the parents. `ExactInv` has no such
counterpart: that is what a remount loses.

**The file cache.** `CacheInv` is types and, where copies are to be trusted (`Trusted`), `Sound`: every
revision so far has a content of the file; a copy has the content of its revision *or of
a later one*, as a download fetches the content of now under the name of the revision that the tree knows (`CachedSound`).
That is not so while the process is down after a crash, and is again after the cleanup, which keeps the copy of the entry's
revision only if it has the entry's content; so `ReadersSeeTrue` follows, crashes included.
`OrderInv` adds what a flush needs: with a file open, no copy for writing of a later revision than the handle's has its original
beside it (`NamesOrdered`), what was written through a handle is in its copy (`CopyHas`) and in
what the flush has sent, while that is pending and once it is a revision (`SentHas`). The first says why a flush after a truncation,
which moves the entry on, compares either the handle's copy or none; it needs to know that after a mount only the
entry's own revision has a copy, or that no copy for writing is newer than the entry, since an entry may be older than before.
For `CacheImplements`, `OpenRefines`, `WriteRefines`, `FlushRefines`, `TruncateRefines`, `ServiceRefines` and
`OthersRefine` map each action to one of `StoredFile` or a stutter; where copies are not to be trusted every step is a stutter
(`HiddenStutters`).
`HomeInv` is for the faults that `Sound` excludes, all but cut copies (`Uncut`): a copy may be `Junk`, but a copy
for writing is only beside an original that is, too, and no such original is replaced, since patches and downloads make copies
of later revisions (`HomeCopies`). So a flush finds no difference between the two, or sends a patch of a source the service
does not have, which it refuses. `QuietInv` is for a file that nobody else changes and no call fails: the patches
of an open form a chain from a copy that is there to the revision wanted (`QuietJob`), and a copy for writing has all of the content of now.

**Open files.** The bags are counts of handles: `BagsGrow` and `BagsShrink` show that opening and closing one
handle changes the number of handles with its path and kind by one, `BagsStay` that nothing
else does, since no handler changes a handle's path. That `release` finds its path follows because the count of a set with the handle in it is
positive. `CallsInv` is needed since release and create call `flush` for handles that must still be open,
`WritersHaveCopies` for the type of the copy written to.
`SoleInv`: with one writer, no copy for writing is of a later revision than the writer's, so a flush that finds a copy
of the revision the tree calls local finds the writer's own (`Keeps`), in which everything written is; that other handles read, and that a second
thread flushes the same handle between test and mutex, changes none of this.

**Cleanup.** `CopiesInv` says of each name already visited what the theorem says of all;
every `unlink` of visit and eviction is one lemma (`DropStep`).
`SumInv` relates `sum_size` to the copies still counted and those to the directory. A sum over a set cannot be
reasoned about by induction here, so the model states it as the number of the bytes (`BytesOf`), which the theorems on
cardinalities can count (`SumWithout`, `SumMonotone`); it never falls below zero, where the code's
unsigned counter would be huge.

**Session.** `CallInv` adds to the properties `LoopInv` (where the loops are), `AttemptsInv` (each attempt before the
running one that was carried out timed out) and `SmoothInv` (a call with nothing lost has been
rejected at most once, and its second attempt has a key the service shares, so that it
is accepted). The arithmetic of the generator matters only in that `Advance` stays within its range
(`AdvanceType`).

**Block copies.** `RangeInv`: what is asked for and what the block has are a whole block together, whatever failures were counted (as many as
the model's bound allows: in the code they have none).
`CountInv` relates both to the position of the source and to the bytes that went out, as long as an error of `read` is for
good: the call then stays in that block, so no failure that was counted is ever seen. `ContentInv`: what went out is the
beginning of the source and the buffer continues it, when only the first read of a block puts bytes into it. A partial write
repeats the beginning of the buffer, but then the last write is not of the whole block, which ends the copy with -1.

**Model-checked only.** Liveness (`Serves`, `CatchesUp`, `JobsEnd`, `PollEnds`, `Returns`), as the prover
has neither fairness nor ENABLED. The runs that look for a violation are about single behaviours, for which there is nothing to prove.

## Findings

The five runs with a violation are disagreements of the code with its own comments; `PROJECT.json` quotes them.

1. `tree_dangling` (`hashtbl.c:1279`): removing a folder skips every other child.
2. `tree_rmdir` (`rmdir.c:79`): directories are not checked to be empty.
3. `cache_fresh` (`filecache.c:309`): a failed open leaves an empty copy that the next one takes.
4. `open_writers` (`open.c:86`): an open moves on the revision of a file that is being written.
5. `session_success` (`folder_create.c:101` and the other calls): success without an answer.

Further behaviour that the models contain, stated as premises of properties:

* `filecache_truncate_file` and `truncate` take any error but -1 for success, so the copies may be truncated while the
  file is not (`"refused"`); partial downloads and copies keep their final name and are not checked again (`"download"`, `"copy"`).
* A file renamed while it is open is flushed under its old path (`rename.c:145`); two threads that flush a created file both upload it.
* Short and failing reads in `fsio.c` (above).
* The eviction is not by access time (`hashtbl.c:1808`), and dropping any old copy of a file makes its entry forget the right one (1964).
* A login that times out calls itself without a bound, and one that fails copies
  uninitialised pointers into the connection (`user_get_session_token.c:135`, 142).
* `folder/get_content` is asked for 400 items of a kind and once only, so larger folders are shown in part
  (`folder_get_content.c:94`); a copy whose unlink failed stays, and the next open hands it out if it has the name of the
  remote revision (`hashtbl.c:1934`, `filecache.c:263`); a part of a download that a crash has left stays and is handed out
  if the next mount has no stored tree to clean by (`main.c:474`); a flush waits as long as the service takes to complete
  an upload, with the mutex held (`mfconn.c:445`).
* Objects that were in the trash may be listed again after a remount, and an object that was moved into a folder
  whose parents could not be fetched stays in its old place until the new one is filled (above).

## Not modelled

* `statfs` and its cached sizes: nothing else reads them and nothing in the source says how fresh they have to be.
* HTTP, JSON decoding, digests, configuration, xdelta3: bytes in, bytes out, no state of their own. What they
  return to their callers is in `Session`, `FileCache` and `Fsio`.
* Names, times and sizes that only `getattr` and `readdir` report; handlers that return a constant; setters and getters of records.
* `mfshell` and `mfcheck`: one call per command, no state beyond the current folder.
* An unset revision or list after an unanswered success (`hashtbl.c:1518`): undefined behaviour, which `FolderTree` does not follow.
* 32-bit effects: `change_compare` truncates differences of revisions (`device_get_changes.c:125`), names of
  copies are printed with `%d` (`filecache.c:264`). Both take more than 2^31 changes of one account or file.
* Failures of `malloc`; failures of `open` and `write` on copies other than short ones.
