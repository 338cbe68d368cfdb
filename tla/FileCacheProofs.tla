-------------------------- MODULE FileCacheProofs --------------------------
(***************************************************************************)
(* The cache of one file, for any edits, revisions and settings: its       *)
(* variables have their types, readers see what they should, and it        *)
(* implements StoredFile, the file without copies, patches and downloads.  *)
(* What is reported as flushed has reached the service, which gets nothing *)
(* but contents of the file, and when nothing fails no flush loses         *)
(* anything and every open is answered.                                    *)
(***************************************************************************)
EXTENDS FileCache, SequenceTheorems, TLAPS

Entries == [local : Names, remote : Revs, data : {Junk} \cup Contents]
Jobs == [pc : {"idle", "updates", "patch", "links", "http", "check", "poll", "sync", "release",
               "truncate", "unmounted", "crashed"},
         mode : {"r", "w"}, todo : Seq(Revs \X Revs), last : Names, closing : BOOLEAN]

RemoteTyped ==
  /\ rev \in Revs
  /\ hist \in [Revs -> Files]
  /\ \A r \in 1 .. rev : hist[r] \in {Junk} \cup Contents
  /\ pending \in Files

\* The revision of the copies is not ahead of the one the tree knows, and that
\* not of the service.
EntryTyped == entry \in Entries /\ entry.local <= entry.remote /\ entry.remote <= rev

DiskTyped == cached \in [Names -> Files] /\ fresh \in [Names -> Files]

\* Files are opened for one handle at a time, and none is open where no process
\* runs; patches lead to revisions that there are.
Opening == {"updates", "patch", "links", "http", "check"}
JobTyped ==
  /\ job \in Jobs
  /\ \A i \in 1 .. Len(job.todo) : job.todo[i][2] <= rev
  /\ job.pc \in Opening \cup {"unmounted", "crashed"} => handle = NoHandle
  /\ job.pc = "poll" => Writable
  /\ job.pc = "unmounted" => "remount" \in ops
  /\ job.pc = "crashed" => "crash" \in ops

HandleTyped == handle \in {NoHandle} \cup Handle /\ <<faults, ops>> \in Settings

\* Who reads or writes has a copy, of a revision that the entry has had.
CopyTyped ==
  handle # NoHandle =>
    /\ handle.name <= entry.local
    /\ IF handle.mode = "w" THEN fresh[handle.name] # Absent ELSE cached[handle.name] # Absent

TypeInv == RemoteTyped /\ EntryTyped /\ DiskTyped /\ JobTyped /\ HandleTyped /\ CopyTyped

\* Without the faults that the names of the copies hide: a copy has the content
\* of its revision or of a later one, but after a crash, until the copies are
\* cleaned; and the copies are truncated after the file.
HistSound == pending # Junk /\ \A r \in 1 .. rev : hist[r] \in Contents
CachedSound ==
  /\ cached[0] = Absent
  /\ job.pc # "crashed" =>
       \A r \in Revs : cached[r] # Absent => \E q \in r .. rev : cached[r] = hist[q]
FreshSound == \A r \in Names : fresh[r] # Junk
TruncationSound == job.pc = "truncate" => \E q \in entry.remote .. rev : hist[q] = {}

Sound == HistSound /\ CachedSound /\ FreshSound /\ TruncationSound
CacheInv == TypeInv /\ (Trusted => Sound)

-----------------------------------------------------------------------------
LEMMA Values ==
  /\ {} \in Contents /\ Junk \notin Contents /\ Absent \notin Contents /\ Junk # Absent
  /\ Files = {Junk, Absent} \cup Contents
  /\ MaxRev \in Nat \ {0} /\ 1 \in Revs /\ 0 \in Names
  /\ \A n : n \in Revs <=> n \in Nat /\ 1 <= n /\ n <= MaxRev
  /\ \A n : n \in Names <=> n \in Nat /\ n <= MaxRev
BY FileCacheAssumption DEF Contents, Files, Revs, Names

LEMMA NumbersTyped ==
  ASSUME TypeInv
  PROVE  /\ rev \in Nat /\ rev >= 1 /\ rev \in Names /\ rev \in 1 .. rev
         /\ entry.local \in Nat /\ entry.remote \in Nat /\ entry.remote >= 1
         /\ entry.local \in Names /\ entry.remote \in Names /\ entry.remote \in 1 .. rev
         /\ entry.local <= entry.remote /\ entry.remote <= rev
         /\ handle # NoHandle => handle \in Handle /\ handle.name \in Nat /\ handle.name \in Names
                                 /\ handle.name >= 1
<1>1. handle # NoHandle => handle \in Handle
  BY DEF TypeInv, HandleTyped
<1>2. handle # NoHandle => handle.name \in Revs
  BY <1>1 DEF Handle
<1> QED BY <1>1, <1>2, Values DEF TypeInv, RemoteTyped, EntryTyped, Entries

\* The service only adds revisions.
Grows ==
  /\ rev' \in Nat /\ rev <= rev'
  /\ \A r \in 1 .. rev : r \in 1 .. rev' /\ hist'[r] = hist[r]

LEMMA StoreKeeps ==
  ASSUME RemoteTyped, NEW c \in {Junk} \cup Contents, Store(c), pending' \in Files
  PROVE  /\ RemoteTyped' /\ Grows /\ rev' = rev + 1 /\ hist'[rev'] = c
         /\ \A r \in 1 .. rev' : r = rev' \/ r \in 1 .. rev
<1>1. rev \in Nat /\ rev' = rev + 1 /\ rev' \in Revs /\ hist' = [hist EXCEPT ![rev + 1] = c] /\ c \in Files
  BY Values DEF Store, RemoteTyped
<1>2. hist' \in [Revs -> Files] /\ hist'[rev'] = c /\ \A r \in 1 .. rev : hist'[r] = hist[r]
  BY <1>1, Values DEF RemoteTyped
<1>3. \A r \in 1 .. rev' : r = rev' \/ r \in 1 .. rev
  BY <1>1, Values DEF RemoteTyped
<1> QED BY <1>1, <1>2, <1>3 DEF RemoteTyped, Grows

LEMMA RemoteStays ==
  ASSUME RemoteTyped, UNCHANGED <<rev, hist>>
  PROVE  Grows
BY Values DEF RemoteTyped, Grows

LEMMA KnownTyped ==
  ASSUME RemoteTyped, EntryTyped
  PROVE  Known \in Entries /\ Known.local = entry.local /\ Known.remote = rev /\ Known.data = hist[rev]
<1>1. rev \in 1 .. rev /\ hist[rev] \in {Junk} \cup Contents
  BY Values DEF RemoteTyped
<1> QED BY <1>1, Values DEF RemoteTyped, EntryTyped, Known, Entries

LEMMA IdleTyped ==
  /\ Idle \in Jobs /\ Idle.todo = <<>> /\ Idle.pc = "idle" /\ Len(<<>>) = 0
  /\ \A pc \in {"truncate", "unmounted", "crashed", "sync", "release", "poll"} : Down(pc) \in Jobs
       /\ Down(pc).todo = <<>> /\ Down(pc).pc = pc
BY Values, EmptySeq DEF Idle, Jobs, Down

\* What the service does concerns neither the copies nor the handle.
LEMMA ServiceKeeps ==
  ASSUME CacheInv, RemoteTyped', Grows, Trusted => HistSound',
         UNCHANGED <<entry, disk, handle, setting>>,
         \/ UNCHANGED job
         \/ /\ job = Idle /\ job' = Truncating
            /\ Trusted => rev' = rev + 1 /\ hist'[rev'] = {}
  PROVE  CacheInv'
<1>1. /\ rev \in Nat /\ rev' \in Nat /\ rev <= rev' /\ entry.remote \in Nat /\ entry.remote >= 1
      /\ entry.remote <= rev
  BY NumbersTyped DEF Grows, CacheInv
<1>2. EntryTyped' /\ DiskTyped' /\ HandleTyped' /\ CopyTyped'
  BY <1>1 DEF CacheInv, TypeInv, EntryTyped, DiskTyped, HandleTyped, CopyTyped, disk, setting
<1>3. JobTyped'
  <2>1. CASE UNCHANGED job
    <3>1. \A i \in 1 .. Len(job.todo) : job.todo[i] \in Revs \X Revs
      BY ElementOfSeq DEF CacheInv, TypeInv, JobTyped, Jobs
    <3>2. \A i \in 1 .. Len(job.todo) : job.todo[i][2] <= rev'
      BY <1>1, <3>1, Values DEF CacheInv, TypeInv, JobTyped
    <3> QED BY <2>1, <3>2 DEF CacheInv, TypeInv, JobTyped, Writable, setting
  <2>2. CASE job' = Truncating
    BY <2>2, IdleTyped DEF Truncating, Down, JobTyped, Opening
  <2> QED BY <2>1, <2>2
<1>4. ASSUME Trusted PROVE Sound'
  <2>1. FreshSound'
    BY <1>4 DEF CacheInv, Sound, FreshSound, disk
  <2>2. CachedSound'
    <3>1. job'.pc # "crashed" => job.pc # "crashed"
      BY IdleTyped
    <3>2. ASSUME NEW r \in Revs, NEW q \in r .. rev PROVE q \in r .. rev' /\ hist'[q] = hist[q]
      BY <1>1, <3>2, Values DEF Grows
    <3> QED BY <1>4, <3>1, <3>2 DEF CacheInv, Sound, CachedSound, disk
  <2>3. TruncationSound'
    <3>1. CASE UNCHANGED job
      <4>1. ASSUME NEW q \in entry.remote .. rev PROVE q \in entry.remote .. rev' /\ hist'[q] = hist[q]
        BY <1>1, <4>1 DEF Grows
      <4> QED BY <1>4, <3>1, <4>1 DEF CacheInv, Sound, TruncationSound
    <3>2. CASE rev' = rev + 1 /\ hist'[rev'] = {}
      BY <1>1, <3>2 DEF TruncationSound
    <3> QED BY <1>4, <3>1, <3>2
  <2> QED BY <1>4, <2>1, <2>2, <2>3 DEF Sound
<1>5. Trusted' <=> Trusted
  BY DEF Trusted, Uncleaned, setting
<1> QED BY <1>2, <1>3, <1>4, <1>5 DEF CacheInv, TypeInv

LEMMA CacheInit == Init => CacheInv
<1> SUFFICES ASSUME Init PROVE CacheInv
  OBVIOUS
<1>1. PICK c \in Contents : hist = [r \in Revs |-> IF r = 1 THEN c ELSE Absent]
  BY DEF Init
<1>2. RemoteTyped /\ HistSound /\ hist[1] = c
  BY <1>1, Values DEF Init, RemoteTyped, HistSound
<1>3. EntryTyped /\ DiskTyped
  BY <1>2, Values DEF Init, EntryTyped, DiskTyped, Entries
<1>4. JobTyped /\ HandleTyped /\ CopyTyped
  BY IdleTyped, FileCacheAssumption DEF Init, JobTyped, HandleTyped, CopyTyped, Opening
<1>5. Sound
  BY <1>2, Values, IdleTyped DEF Init, Sound, CachedSound, FreshSound, TruncationSound
<1> QED BY <1>2, <1>3, <1>4, <1>5 DEF CacheInv, TypeInv

\* What other clients do, what was sent becomes a revision, and the file is
\* truncated at the service.
LEMMA ServiceSteps ==
  ASSUME CacheInv, OtherStores \/ Complete \/ Truncate
  PROVE  CacheInv'
<1>1. UNCHANGED <<entry, disk, handle, setting>>
  BY DEF OtherStores, Complete, Truncate
<1>2. rev \in 1 .. rev /\ hist[rev] \in {Junk} \cup Contents /\ pending \in Files /\ {} \in Contents
      /\ \A e \in Edits : Edited(hist[rev], e) # hist[rev] => Edited(hist[rev], e) \in Contents
  <2>1. rev \in 1 .. rev /\ hist[rev] \in {Junk} \cup Contents /\ pending \in Files /\ {} \in Contents
    BY NumbersTyped, Values DEF CacheInv, TypeInv, RemoteTyped
  <2> QED BY <2>1 DEF Edited, Contents
<1>3. ASSUME NEW c \in {Junk} \cup Contents, Store(c), Trusted => c \in Contents,
             pending' \in {pending, Absent}
      PROVE  RemoteTyped' /\ Grows /\ (Trusted => HistSound') /\ rev' = rev + 1 /\ hist'[rev'] = c
  <2>1. RemoteTyped' /\ Grows /\ rev' = rev + 1 /\ hist'[rev'] = c
        /\ \A r \in 1 .. rev' : r = rev' \/ r \in 1 .. rev
    BY <1>2, <1>3, Values, StoreKeeps DEF CacheInv, TypeInv
  <2>2. Trusted => HistSound'
    BY <1>3, <2>1, Values DEF CacheInv, Sound, HistSound, Grows
  <2> QED BY <2>1, <2>2
<1>4. CASE OtherStores
  <2>1. PICK c \in Contents : Store(c)
    BY <1>2, <1>4 DEF OtherStores
  <2> QED BY <1>1, <1>3, <1>4, <2>1, ServiceKeeps DEF OtherStores
<1>5. CASE Complete
  <2>1. pending \in {Junk} \cup Contents /\ Store(pending) /\ (Trusted => pending \in Contents)
    BY <1>2, <1>5, Values DEF Complete, CacheInv, Sound, HistSound
  <2> QED BY <1>1, <1>3, <1>5, <2>1, ServiceKeeps DEF Complete
<1>6. CASE Truncate
  <2>1. CASE Store({})
    BY <1>1, <1>2, <1>3, <1>6, <2>1, ServiceKeeps DEF Truncate
  <2>2. CASE "refused" \in faults /\ job' = Truncating /\ UNCHANGED <<rev, hist>>
    <3>1. ~Trusted /\ UNCHANGED pending /\ job = Idle
      BY <1>6, <2>2 DEF Trusted, Hidden, Truncate
    <3>2. RemoteTyped' /\ Grows
      BY <2>2, <3>1, RemoteStays DEF CacheInv, TypeInv, RemoteTyped
    <3> QED BY <1>1, <2>2, <3>1, <3>2, ServiceKeeps
  <2> QED BY <1>6, <2>1, <2>2 DEF Truncate
<1> QED BY <1>4, <1>5, <1>6

-----------------------------------------------------------------------------
(* Opening. *)

\* The handle that an open delivers has the name of the revision of the entry.
LEMMA Delivers ==
  ASSUME TypeInv, NEW m \in {"r", "w"}, Deliver(m), UNCHANGED <<remote, setting>>
  PROVE  /\ EntryTyped' /\ HandleTyped' /\ handle' # NoHandle
         /\ handle'.mode = m /\ handle'.name = entry.remote /\ handle'.flushed /\ handle'.wrote = {}
         /\ entry'.remote = entry.remote /\ entry'.local = entry.remote /\ entry'.data = entry.data
<1>1. entry.remote \in Names /\ entry.remote \in Revs /\ entry.remote <= rev
  BY Values DEF TypeInv, EntryTyped, Entries
<1>2. [mode |-> m, name |-> entry.remote, flushed |-> TRUE, wrote |-> {}] \in Handle
  BY <1>1, Values DEF Handle
<1>3. handle' = [mode |-> m, name |-> entry.remote, flushed |-> TRUE, wrote |-> {}]
      /\ entry' = [entry EXCEPT !.local = entry.remote]
  BY DEF Deliver
<1>4. handle' # NoHandle /\ HandleTyped'
  BY <1>2, <1>3, HandleAssumption DEF TypeInv, HandleTyped, setting
<1>5. EntryTyped'
  <2>1. entry' \in Entries /\ entry'.local = entry.remote /\ entry'.remote = entry.remote
    BY <1>1, <1>3 DEF TypeInv, EntryTyped, Entries
  <2> QED BY <1>1, <2>1, Values DEF EntryTyped, remote
<1> QED BY <1>3, <1>4, <1>5 DEF TypeInv, EntryTyped, Entries

\* The steps of an open that leave the entry and the handle alone.
LEMMA Proceeds ==
  ASSUME CacheInv, handle = NoHandle, UNCHANGED <<remote, entry, handle, setting>>,
         job' \in Jobs, \A i \in 1 .. Len(job'.todo) : job'.todo[i][2] <= rev,
         job'.pc \in Opening \cup {"idle"}, job.pc # "crashed",
         DiskTyped',
         Trusted => /\ \/ UNCHANGED cached
                       \/ \E r \in Revs, q \in 1 .. rev :
                            r <= q /\ cached' = [cached EXCEPT ![r] = hist[q]]
                    /\ UNCHANGED fresh \/ \E c \in Contents : fresh' = [fresh EXCEPT ![entry.remote] = c]
  PROVE  CacheInv'
<1>1. RemoteTyped' /\ EntryTyped' /\ HandleTyped' /\ CopyTyped'
  BY DEF CacheInv, TypeInv, RemoteTyped, EntryTyped, HandleTyped, CopyTyped, remote, setting
<1>2. JobTyped'
  BY DEF JobTyped, Opening, remote
<1>3. ASSUME Trusted PROVE Sound'
  <2>1. HistSound' /\ TruncationSound'
    BY <1>3 DEF CacheInv, Sound, HistSound, TruncationSound, Opening, remote
  <2>2. CachedSound'
    <3>1. CASE UNCHANGED cached
      BY <1>3, <3>1 DEF CacheInv, Sound, CachedSound, remote
    <3>2. ASSUME NEW r \in Revs, NEW q \in 1 .. rev, r <= q, cached' = [cached EXCEPT ![r] = hist[q]]
          PROVE  CachedSound'
      <4>1. r # 0 /\ q \in r .. rev /\ rev' = rev /\ hist' = hist
        BY <3>2, Values DEF CacheInv, TypeInv, RemoteTyped, remote
      <4> QED BY <1>3, <3>2, <4>1, Values DEF CacheInv, TypeInv, DiskTyped, Sound, CachedSound
    <3> QED BY <1>3, <3>1, <3>2
  <2>3. FreshSound'
    <3>1. entry.remote \in Names
      BY Values DEF CacheInv, TypeInv, EntryTyped, Entries
    <3>2. CASE UNCHANGED fresh
      BY <1>3, <3>2 DEF CacheInv, Sound, FreshSound
    <3>3. ASSUME NEW c \in Contents, fresh' = [fresh EXCEPT ![entry.remote] = c]
          PROVE  FreshSound'
      BY <1>3, <3>1, <3>3, Values DEF CacheInv, TypeInv, DiskTyped, Sound, FreshSound
    <3> QED BY <1>3, <3>2, <3>3
  <2> QED BY <2>1, <2>2, <2>3 DEF Sound
<1>4. Trusted' <=> Trusted
  BY DEF Trusted, Uncleaned, setting
<1> QED BY <1>1, <1>2, <1>3, <1>4 DEF CacheInv, TypeInv

\* The end of an open: what the handle gets is sound.
LEMMA Ends ==
  ASSUME CacheInv, handle = NoHandle, NEW m \in {"r", "w"}, Deliver(m),
         UNCHANGED <<remote, cached, setting>>, job' = Idle, job.pc # "crashed",
         cached[entry.remote] # Absent \/ m = "w",
         NEW c \in Files \ {Absent}, Trusted => c \in Contents,
         \/ UNCHANGED fresh /\ (m = "w" => fresh[entry.remote] # Absent)
         \/ m = "w" /\ fresh' = [fresh EXCEPT ![entry.remote] = c]
  PROVE  CacheInv'
<1>1. RemoteTyped' /\ EntryTyped' /\ HandleTyped' /\ handle' # NoHandle
      /\ handle'.mode = m /\ handle'.name = entry.remote /\ handle'.wrote = {}
      /\ entry'.remote = entry.remote /\ entry'.local = entry.remote
  BY Delivers DEF CacheInv, TypeInv, RemoteTyped, remote
<1>2. entry.remote \in Names /\ entry.remote \in Revs /\ entry.remote <= entry.remote
  BY Values DEF CacheInv, TypeInv, EntryTyped, Entries
<1>3. DiskTyped'
  BY <1>2 DEF CacheInv, TypeInv, DiskTyped
<1>4. JobTyped'
  BY IdleTyped DEF JobTyped, Opening
<1>7. m = "w" => fresh'[entry.remote] # Absent
  BY <1>2 DEF CacheInv, TypeInv, DiskTyped
<1>8. CopyTyped'
  BY <1>1, <1>2, <1>7 DEF CopyTyped
<1>5. ASSUME Trusted PROVE Sound'
  <2>1. HistSound' /\ CachedSound' /\ TruncationSound'
    BY <1>5, IdleTyped DEF CacheInv, Sound, HistSound, CachedSound, TruncationSound, remote
  <2>2. FreshSound'
    BY <1>2, <1>5, Values DEF CacheInv, TypeInv, DiskTyped, Sound, FreshSound
  <2> QED BY <2>1, <2>2 DEF Sound
<1>6. Trusted' <=> Trusted
  BY DEF Trusted, Uncleaned, setting
<1> QED BY <1>1, <1>3, <1>4, <1>5, <1>6, <1>8 DEF CacheInv, TypeInv

\* A failed open: nothing but the job changes, or copies as in Proceeds.
LEMMA FailedJob ==
  ASSUME OpenFails
  PROVE  job' \in Jobs /\ (\A i \in 1 .. Len(job'.todo) : job'.todo[i][2] <= rev)
         /\ job'.pc \in Opening \cup {"idle"} /\ UNCHANGED <<entry, handle>>
BY IdleTyped DEF OpenFails

LEMMA RetrieveJob ==
  ASSUME TypeInv, NEW m \in {"r", "w"}, Retrieve(m)
  PROVE  job' \in Jobs /\ (\A i \in 1 .. Len(job'.todo) : job'.todo[i][2] <= rev)
         /\ job'.pc \in Opening /\ UNCHANGED <<entry, handle>>
<1>1. entry.local \in Names
  BY DEF TypeInv, EntryTyped, Entries
<1>2. \E l \in {"updates", "links"} : job' = [Idle EXCEPT !.pc = l, !.mode = m, !.last = entry.local]
  BY DEF Retrieve
<1>3. job' \in Jobs /\ job'.todo = <<>> /\ job'.pc \in Opening
  BY <1>1, <1>2, IdleTyped DEF Jobs, Opening
<1> QED BY <1>3, IdleTyped DEF Retrieve

LEMMA OpenCachedStep ==
  ASSUME CacheInv, OpenCached
  PROVE  CacheInv'
<1>1. handle = NoHandle /\ job.pc # "crashed" /\ UNCHANGED <<remote, disk, setting>>
  BY IdleTyped DEF OpenCached
<1>2. DiskTyped'
  BY <1>1 DEF CacheInv, TypeInv, DiskTyped, disk
<1>3. CASE cached[entry.remote] # Absent /\ Deliver("r") /\ UNCHANGED job
  <2>1. {} \in Files \ {Absent} /\ {} \in Contents /\ job' = Idle
    BY <1>3, Values DEF OpenCached
  <2> QED BY <1>1, <1>3, <2>1, Ends DEF disk
<1>4. CASE Retrieve("r")
  BY <1>1, <1>2, <1>4, RetrieveJob, Proceeds DEF CacheInv, disk
<1> QED BY <1>3, <1>4 DEF OpenCached

LEMMA OpenFreshStep ==
  ASSUME CacheInv, OpenFresh
  PROVE  CacheInv'
<1>1. handle = NoHandle /\ job = Idle /\ job.pc # "crashed" /\ UNCHANGED <<remote, cached, setting>>
  BY IdleTyped DEF OpenFresh
<1>2. entry.remote \in Names /\ entry.remote \in Revs /\ {} \in Files \ {Absent} /\ {} \in Contents
  BY Values DEF CacheInv, TypeInv, EntryTyped, Entries
<1>3. CASE fresh[entry.remote] # Absent /\ Deliver("w") /\ UNCHANGED <<fresh, job>>
  BY <1>1, <1>2, <1>3, Ends
<1>4. CASE /\ cached[entry.remote] # Absent
           /\ \E c \in CopyOf(cached[entry.remote]) : fresh' = OpenFreshCreated(c)
           /\ Deliver("w") /\ UNCHANGED job
  <2>1. PICK c \in CopyOf(cached[entry.remote]) : fresh' = [fresh EXCEPT ![entry.remote] = c]
    BY <1>4 DEF OpenFreshCreated
  <2>2. c \in Files \ {Absent}
    BY <1>2, <1>4, Values DEF CopyOf, CacheInv, TypeInv, DiskTyped
  <2>3. ASSUME Trusted PROVE c \in Contents
    <3>1. c = cached[entry.remote]
      BY <2>3 DEF CopyOf, Trusted, Hidden
    <3> QED BY <1>1, <1>2, <1>4, <2>3, <3>1, Values
            DEF CacheInv, TypeInv, RemoteTyped, EntryTyped, Sound, CachedSound, HistSound
  <2> QED BY <1>1, <1>4, <2>1, <2>2, <2>3, Ends
<1>5. CASE fresh' = OpenFreshCreated({}) /\ Retrieve("w")
  <2>1. DiskTyped'
    BY <1>1, <1>2, <1>5 DEF CacheInv, TypeInv, DiskTyped, OpenFreshCreated
  <2> QED BY <1>1, <1>2, <1>5, <2>1, RetrieveJob, Proceeds DEF CacheInv, OpenFreshCreated
<1> QED BY <1>3, <1>4, <1>5 DEF OpenFresh

LEMMA JobOpening ==
  ASSUME CacheInv, job.pc \in Opening
  PROVE  handle = NoHandle /\ job \in Jobs /\ entry.remote \in Names /\ entry.remote \in Revs
         /\ entry.remote <= rev /\ rev \in Revs /\ job.pc # "crashed"
BY Values DEF Opening, CacheInv, TypeInv, JobTyped, EntryTyped, Entries, RemoteTyped

LEMMA UpdatesStep ==
  ASSUME CacheInv, GetUpdates
  PROVE  CacheInv'
<1>1. handle = NoHandle /\ job \in Jobs /\ job.pc # "crashed" /\ job.pc \in Opening /\ UNCHANGED <<remote, disk, setting>>
  BY JobOpening DEF GetUpdates, Opening
<1>2. DiskTyped'
  BY <1>1 DEF CacheInv, TypeInv, DiskTyped, disk
<1>3. ASSUME NEW list \in Offered, UNCHANGED <<entry, handle>>,
             job' = [job EXCEPT !.pc = IF list = <<>> THEN "links" ELSE "patch", !.todo = list]
      PROVE  CacheInv'
  <2>1. list \in PatchLists
    BY DEF Offered
  <2>2. list \in Seq(Revs \X Revs) /\ \A i \in 1 .. Len(list) : list[i][2] <= rev
    <3>1. CASE list = <<>>
      BY <3>1, EmptySeq
    <3>2. ASSUME NEW p \in Patches, list = <<p>> PROVE <2>2!1 /\ <2>2!2
      BY <3>2 DEF Patches
    <3>3. ASSUME NEW p \in Patches, NEW q \in Patches, list = <<p, q>> PROVE <2>2!1 /\ <2>2!2
      BY <3>3 DEF Patches
    <3> QED BY <2>1, <3>1, <3>2, <3>3 DEF PatchLists
  <2>3. job' \in Jobs /\ job'.todo = list /\ job'.pc \in Opening
    <3>1. \E l \in {"links", "patch"} : job' = [job EXCEPT !.pc = l, !.todo = list]
      BY <1>3
    <3> QED BY <1>1, <2>2, <3>1 DEF Jobs, Opening
  <2> QED BY <1>1, <1>2, <1>3, <2>2, <2>3, Proceeds DEF disk
<1>4. CASE OpenFails
  BY <1>1, <1>2, <1>4, FailedJob, Proceeds DEF disk
<1> QED BY <1>3, <1>4 DEF GetUpdates

LEMMA PatchesLeft ==
  ASSUME TypeInv, job.todo # <<>>
  PROVE  /\ Len(job.todo) \in Nat /\ Len(job.todo) >= 1 /\ Head(job.todo) = job.todo[1]
         /\ Head(job.todo) \in Revs \X Revs /\ Head(job.todo)[2] <= rev
         /\ Tail(job.todo) \in Seq(Revs \X Revs) /\ Len(Tail(job.todo)) = Len(job.todo) - 1
         /\ \A i \in 1 .. Len(Tail(job.todo)) : Tail(job.todo)[i] = job.todo[i + 1]
<1>1. job.todo \in Seq(Revs \X Revs)
  BY DEF TypeInv, JobTyped, Jobs
<1>2. /\ Len(job.todo) \in Nat /\ Len(job.todo) >= 1 /\ Head(job.todo) = job.todo[1]
      /\ Tail(job.todo) \in Seq(Revs \X Revs) /\ Len(Tail(job.todo)) = Len(job.todo) - 1
      /\ \A i \in 1 .. Len(Tail(job.todo)) : Tail(job.todo)[i] = job.todo[i + 1]
  BY <1>1, HeadTailProperties, EmptySeq, LenProperties
<1>3. Head(job.todo) \in Revs \X Revs
  BY <1>1, <1>2, ElementOfSeq
<1> QED BY <1>2, <1>3 DEF TypeInv, JobTyped

LEMMA PatchStep ==
  ASSUME CacheInv, ApplyPatch
  PROVE  CacheInv'
<1> DEFINE p == Head(job.todo)
           c == IF cached[p[1]] = hist[p[1]] THEN hist[p[2]] ELSE Junk
<1>1. handle = NoHandle /\ job \in Jobs /\ job.pc # "crashed" /\ job.pc \in Opening /\ UNCHANGED <<remote, fresh, setting>>
      /\ job.todo # <<>> /\ job.todo \in Seq(Revs \X Revs)
  BY JobOpening DEF ApplyPatch, Opening, Jobs
<1>2. /\ p \in Revs \X Revs /\ p[2] <= rev /\ Tail(job.todo) \in Seq(Revs \X Revs)
      /\ \A i \in 1 .. Len(Tail(job.todo)) : Tail(job.todo)[i][2] <= rev
  <2>1. /\ Len(job.todo) \in Nat /\ Len(job.todo) >= 1 /\ p = job.todo[1]
        /\ Tail(job.todo) \in Seq(Revs \X Revs) /\ Len(Tail(job.todo)) = Len(job.todo) - 1
        /\ \A i \in 1 .. Len(Tail(job.todo)) : Tail(job.todo)[i] = job.todo[i + 1]
    BY <1>1, PatchesLeft DEF CacheInv
  <2>2. \A i \in 1 .. Len(job.todo) : job.todo[i][2] <= rev
    BY DEF CacheInv, TypeInv, JobTyped
  <2>3. p \in Revs \X Revs
    BY <1>1, <2>1, ElementOfSeq
  <2>4. \A i \in 1 .. Len(Tail(job.todo)) : i + 1 \in 1 .. Len(job.todo)
    BY <2>1
  <2> QED BY <2>1, <2>2, <2>3, <2>4
<1> HIDE DEF p
<1>3. p[2] \in Revs /\ p[2] \in Names /\ p[1] \in Revs /\ p[2] \in 1 .. rev /\ p[2] <= p[2]
  BY <1>2, Values DEF CacheInv, TypeInv, RemoteTyped
<1>4. c \in Files /\ Junk \in Files
  BY <1>3, Values DEF CacheInv, TypeInv, RemoteTyped
<1>5. ASSUME Fits(p), cached' = [cached EXCEPT ![p[2]] = c],
             job' \in Jobs, \A i \in 1 .. Len(job'.todo) : job'.todo[i][2] <= rev,
             job'.pc \in Opening \cup {"idle"}, UNCHANGED <<entry, handle>>
      PROVE  CacheInv'
  <2>1. DiskTyped'
    BY <1>1, <1>4, <1>5 DEF CacheInv, TypeInv, DiskTyped
  <2>2. cached' = [cached EXCEPT ![p[2]] = hist[p[2]]]
    BY <1>5 DEF Fits
  <2> QED BY <1>1, <1>3, <1>5, <2>1, <2>2, Proceeds
<1>6. CASE Fits(p) /\ cached' = Patched(p, c) /\ c = hist[p[2]]
           /\ job' = [job EXCEPT !.todo = Tail(job.todo), !.last = p[2]] /\ UNCHANGED <<entry, handle>>
  <2>1. job' \in Jobs /\ job'.todo = Tail(job.todo) /\ job'.pc = job.pc
    BY <1>1, <1>2, <1>3, <1>6 DEF Jobs
  <2> QED BY <1>1, <1>2, <1>5, <1>6, <2>1 DEF Patched
<1>7. CASE Fits(p) /\ cached' = Patched(p, c) /\ OpenFails
  BY <1>5, <1>7, FailedJob DEF Patched
<1>8. CASE OpenFails /\ UNCHANGED cached
  <2>1. DiskTyped'
    BY <1>1, <1>8 DEF CacheInv, TypeInv, DiskTyped
  <2> QED BY <1>1, <1>8, <2>1, FailedJob, Proceeds
<1>9. CASE "download" \in faults /\ cached' = Patched(p, Junk) /\ OpenFails
  <2>1. DiskTyped' /\ ~Trusted
    BY <1>1, <1>4, <1>9 DEF CacheInv, TypeInv, DiskTyped, Patched, Trusted, Hidden
  <2> QED BY <1>1, <1>9, <2>1, FailedJob, Proceeds
<1> QED BY <1>6, <1>7, <1>8, <1>9 DEF ApplyPatch, p

LEMMA DownloadSteps ==
  ASSUME CacheInv, PatchesDone \/ GetLinks \/ Download
  PROVE  CacheInv'
<1>1. handle = NoHandle /\ job \in Jobs /\ job.pc # "crashed" /\ job.pc \in Opening /\ UNCHANGED <<remote, fresh, setting>>
      /\ entry.remote \in Revs /\ entry.remote <= rev /\ rev \in Revs
  BY JobOpening DEF PatchesDone, GetLinks, Download, Opening, disk
<1>2. ASSUME UNCHANGED <<entry, handle>>, job' = Idle \/ \E l \in {"check", "http"} : job' = [job EXCEPT !.pc = l]
      PROVE  /\ job' \in Jobs /\ \A i \in 1 .. Len(job'.todo) : job'.todo[i][2] <= rev
             /\ job'.pc \in Opening \cup {"idle"}
  <2>1. CASE job' = Idle
    BY <2>1, IdleTyped
  <2>2. CASE \E l \in {"check", "http"} : job' = [job EXCEPT !.pc = l]
    <3>1. job' \in Jobs /\ job'.todo = job.todo /\ job'.pc \in Opening
      BY <1>1, <2>2 DEF Jobs, Opening
    <3> QED BY <3>1 DEF CacheInv, TypeInv, JobTyped
  <2> QED BY <1>2, <2>1, <2>2
<1>3. UNCHANGED <<entry, handle>> /\ (job' = Idle \/ \E l \in {"check", "http"} : job' = [job EXCEPT !.pc = l])
  BY DEF PatchesDone, GetLinks, Download, OpenFails
<1>4. CASE PatchesDone \/ GetLinks
  <2>1. DiskTyped' /\ UNCHANGED cached
    BY <1>1, <1>4 DEF CacheInv, TypeInv, DiskTyped, PatchesDone, GetLinks, disk
  <2> QED BY <1>1, <1>2, <1>3, <2>1, Proceeds
<1>5. CASE Download
  <2>1. PICK c \in {hist[rev], Junk, {}} :
          cached' = [cached EXCEPT ![entry.remote] = c] /\ (Trusted => c = hist[rev])
    BY <1>5 DEF Download, Downloaded, Trusted, Hidden
  <2>2. rev \in 1 .. rev /\ c \in Files
    BY <1>1, <2>1, Values DEF CacheInv, TypeInv, RemoteTyped
  <2>3. DiskTyped'
    BY <1>1, <2>1, <2>2 DEF CacheInv, TypeInv, DiskTyped
  <2> QED BY <1>1, <1>2, <1>3, <2>1, <2>2, <2>3, Proceeds
<1> QED BY <1>4, <1>5

LEMMA CheckStep ==
  ASSUME CacheInv, CheckIntegrity
  PROVE  CacheInv'
<1>1. handle = NoHandle /\ job.pc # "crashed" /\ UNCHANGED <<remote, cached, setting>>
      /\ entry.remote \in Revs /\ entry.remote \in Names /\ entry.remote <= rev /\ rev \in Revs
  BY JobOpening DEF CheckIntegrity, Opening
<1>2. CASE OpenFails /\ UNCHANGED fresh
  <2>1. DiskTyped'
    BY <1>1, <1>2 DEF CacheInv, TypeInv, DiskTyped
  <2> QED BY <1>1, <1>2, <2>1, FailedJob, Proceeds
<1>3. Intact(cached[entry.remote]) => cached[entry.remote] \in Files \ {Absent}
  BY Values DEF Intact, CacheInv, TypeInv, EntryTyped, Entries
<1>4. CASE Intact(cached[entry.remote]) /\ Deliver("r") /\ job' = Idle /\ UNCHANGED fresh
  <2>1. {} \in Files \ {Absent} /\ {} \in Contents
    BY Values
  <2> QED BY <1>1, <1>3, <1>4, <2>1, Ends
<1>5. CASE /\ Intact(cached[entry.remote]) /\ Deliver("w") /\ job' = Idle
           /\ \E c \in CopyOf(cached[entry.remote]) : fresh' = OpenFreshCreated(c)
  <2>1. PICK c \in CopyOf(cached[entry.remote]) : fresh' = [fresh EXCEPT ![entry.remote] = c]
    BY <1>5 DEF OpenFreshCreated
  <2>2. c \in Files \ {Absent}
    BY <1>3, <1>5, Values DEF CopyOf
  <2>3. ASSUME Trusted PROVE c \in Contents
    <3>1. c = cached[entry.remote]
      BY <2>3 DEF CopyOf, Trusted, Hidden
    <3> QED BY <1>1, <1>3, <1>5, <2>3, <3>1, Values DEF CacheInv, Sound, CachedSound, HistSound
  <2> QED BY <1>1, <1>5, <2>1, <2>2, <2>3, Ends
<1> QED BY <1>2, <1>4, <1>5 DEF CheckIntegrity


-----------------------------------------------------------------------------
(* Writing, flushing, closing. *)

LEMMA WriteStep ==
  ASSUME CacheInv, Write
  PROVE  CacheInv'
<1>1. PICK e \in Edits :
        /\ fresh' = [fresh EXCEPT ![handle.name] = Edited(@, e)]
        /\ handle' = [handle EXCEPT !.flushed = FALSE, !.wrote = @ \cup {e}]
  BY DEF Write
<1>2. handle \in Handle /\ handle.mode = "w" /\ handle # NoHandle /\ job = Idle
      /\ UNCHANGED <<remote, entry, cached, job, setting>>
  BY DEF Write, Writable, CacheInv, TypeInv, HandleTyped
<1>3. handle.name \in Revs /\ handle.name \in Names /\ handle.wrote \in Contents
  BY <1>2, Values DEF Handle
<1>4. handle' \in Handle /\ handle'.mode = "w" /\ handle'.name = handle.name
  BY <1>1, <1>2, <1>3 DEF Handle, Contents
<1>5. RemoteTyped' /\ EntryTyped' /\ HandleTyped' /\ JobTyped'
  BY <1>2, <1>4, IdleTyped
     DEF CacheInv, TypeInv, RemoteTyped, EntryTyped, HandleTyped, JobTyped, Opening, remote, setting
<1>6. fresh[handle.name] \in {Junk} \cup Contents
  BY <1>2, <1>3, Values DEF CacheInv, TypeInv, DiskTyped, CopyTyped
<1>7. Edited(fresh[handle.name], e) \in {Junk} \cup Contents
      /\ (fresh[handle.name] # Junk => Edited(fresh[handle.name], e) \in Contents)
  BY <1>6, Values DEF Edited, Contents
<1>8. DiskTyped' /\ fresh'[handle.name] = Edited(fresh[handle.name], e)
      /\ \A r \in Names : r # handle.name => fresh'[r] = fresh[r]
  BY <1>1, <1>2, <1>3, <1>7, Values DEF CacheInv, TypeInv, DiskTyped
<1>9. CopyTyped'
  BY <1>2, <1>4, <1>7, <1>8, Values DEF CacheInv, TypeInv, CopyTyped
<1>10. ASSUME Trusted PROVE Sound'
  <2>1. HistSound' /\ CachedSound' /\ TruncationSound'
    BY <1>2, <1>10, IdleTyped DEF CacheInv, Sound, HistSound, CachedSound, TruncationSound, remote
  <2>2. FreshSound'
    BY <1>3, <1>7, <1>8, <1>10, Values DEF CacheInv, Sound, FreshSound
  <2> QED BY <2>1, <2>2 DEF Sound
<1>11. Trusted' <=> Trusted
  BY <1>2 DEF Trusted, Uncleaned, setting
<1> QED BY <1>5, <1>8, <1>9, <1>10, <1>11 DEF CacheInv, TypeInv

\* What the end of a flush, or of a release, does to the job.
LEMMA ClosingTyped ==
  ASSUME NEW closing \in BOOLEAN
  PROVE  /\ Closing(closing) \in Jobs /\ Sync(closing) \in Jobs
         /\ [Idle EXCEPT !.pc = "poll", !.closing = closing] \in Jobs
         /\ Closing(closing).todo = <<>> /\ Sync(closing).todo = <<>>
         /\ [Idle EXCEPT !.pc = "poll", !.closing = closing].todo = <<>>
         /\ Closing(closing).pc \in {"idle", "release"} /\ Sync(closing).pc = "sync"
         /\ [Idle EXCEPT !.pc = "poll", !.closing = closing].pc = "poll"
BY IdleTyped, EmptySeq, Values DEF Closing, Sync, Idle, Jobs

\* The steps of a flush: what it has sent, whether that is reported, and where
\* the job goes on.
LEMMA HandleKeeps ==
  ASSUME CacheInv, UNCHANGED <<rev, hist, entry, disk, setting>>, handle # NoHandle, job.pc # "crashed",
         pending' = pending \/ (pending' \in Files /\ (Trusted => pending' # Junk)),
         UNCHANGED handle \/ handle' = [handle EXCEPT !.flushed = TRUE],
         job' \in Jobs, job'.todo = <<>>, job'.pc \in {"idle", "release", "sync", "poll"}, Writable
  PROVE  CacheInv'
<1>1. RemoteTyped' /\ EntryTyped'
  BY DEF CacheInv, TypeInv, RemoteTyped, EntryTyped
<1>2. /\ handle' \in Handle /\ handle'.name = handle.name /\ handle'.mode = handle.mode /\ handle' # NoHandle
  <2>1. handle \in Handle
    BY DEF CacheInv, TypeInv, HandleTyped
  <2>2. handle' \in Handle /\ handle'.name = handle.name /\ handle'.mode = handle.mode
    BY <2>1 DEF Handle
  <2> QED BY <2>2, HandleAssumption
<1>3. DiskTyped' /\ HandleTyped' /\ CopyTyped' /\ JobTyped'
  BY <1>2, IdleTyped DEF CacheInv, TypeInv, DiskTyped, HandleTyped, CopyTyped, Writable, JobTyped, Opening, disk, setting
<1>4. ASSUME Trusted PROVE Sound'
  BY <1>4 DEF CacheInv, Sound, HistSound, CachedSound, FreshSound, TruncationSound, disk
<1>5. Trusted' <=> Trusted
  BY DEF Trusted, Uncleaned, setting
<1> QED BY <1>1, <1>3, <1>4, <1>5 DEF CacheInv, TypeInv

\* What is uploaded is no Junk without the hidden faults.
LEMMA TargetTyped ==
  ASSUME CacheInv
  PROVE  Target \in Files /\ (Trusted => Target # Junk)
<1>1. entry.local \in Names
  BY DEF CacheInv, TypeInv, EntryTyped, Entries
<1> QED BY <1>1 DEF Target, CacheInv, TypeInv, DiskTyped, Sound, FreshSound

LEMMA FlushStep ==
  ASSUME CacheInv, Flush
  PROVE  CacheInv'
<1>1. PICK closing \in BOOLEAN : UploadPatch(closing)
  BY DEF Flush
<1>2. handle # NoHandle /\ Writable /\ job.pc # "crashed" /\ UNCHANGED <<entry, disk, setting>>
  BY IdleTyped DEF Flush, Writable
<1>3. UNCHANGED <<rev, hist>> /\ pending' \in {pending, Target}
  BY <1>1 DEF UploadPatch, FlushFails, FlushSucceeds, Upload, Sends, remote
<1>4. UNCHANGED handle \/ handle' = [handle EXCEPT !.flushed = TRUE]
  BY <1>1 DEF UploadPatch, FlushFails, FlushSucceeds, Upload
<1>5. job' \in {Closing(closing), Sync(closing), [Idle EXCEPT !.pc = "poll", !.closing = closing]}
  BY <1>1 DEF UploadPatch, FlushFails, FlushSucceeds, Upload
<1> QED BY <1>2, <1>3, <1>4, <1>5, ClosingTyped, TargetTyped, HandleKeeps

LEMMA PollStep ==
  ASSUME CacheInv, FlushPolls
  PROVE  CacheInv'
<1>1. job.closing \in BOOLEAN /\ Writable /\ handle # NoHandle /\ job.pc # "crashed"
  BY DEF FlushPolls, Writable, CacheInv, TypeInv, JobTyped, Jobs
<1>2. job' \in {Closing(job.closing), Sync(job.closing)} /\ UNCHANGED <<remote, entry, disk, setting>>
      /\ (UNCHANGED handle \/ handle' = [handle EXCEPT !.flushed = TRUE])
  BY DEF FlushPolls, Poll, FlushFails, FlushSucceeds
<1> QED BY <1>1, <1>2, ClosingTyped, HandleKeeps DEF remote

\* The entry may get what the service has now, and the handle may be closed.
LEMMA EntryMoves ==
  ASSUME CacheInv, entry' \in {entry, Known}, handle' \in {handle, NoHandle}, job.pc # "crashed",
         UNCHANGED <<remote, disk, setting>>,
         job' \in Jobs, job'.todo = <<>>,
         \/ job'.pc \in {"idle", "release"}
         \/ job'.pc = "unmounted" /\ handle' = NoHandle /\ "remount" \in ops
  PROVE  CacheInv'
<1>1. RemoteTyped' /\ DiskTyped' /\ HandleTyped' /\ JobTyped'
  BY IdleTyped DEF CacheInv, TypeInv, RemoteTyped, DiskTyped, HandleTyped, JobTyped, Opening, remote, disk, setting
<1>2. /\ entry' \in Entries /\ entry'.local = entry.local
      /\ entry.remote <= entry'.remote /\ entry'.remote <= rev /\ entry.local <= entry'.remote
  <2>1. entry \in Entries /\ entry.local \in Nat /\ entry.remote \in Nat /\ rev \in Nat
        /\ entry.local <= entry.remote /\ entry.remote <= rev
    BY Values DEF CacheInv, TypeInv, EntryTyped, Entries, RemoteTyped
  <2> QED BY <2>1, KnownTyped DEF CacheInv, TypeInv
<1>3. EntryTyped' /\ CopyTyped'
  BY <1>2 DEF EntryTyped, CacheInv, TypeInv, CopyTyped, remote, disk
<1>4. ASSUME Trusted PROVE Sound'
  BY <1>4 DEF CacheInv, Sound, HistSound, CachedSound, FreshSound, TruncationSound, remote, disk
<1>5. Trusted' <=> Trusted
  BY DEF Trusted, Uncleaned, setting
<1> QED BY <1>1, <1>3, <1>4, <1>5 DEF CacheInv, TypeInv

LEMMA EntrySteps ==
  ASSUME CacheInv, Learn \/ FlushUpdates \/ Release \/ Unmount
  PROVE  CacheInv'
<1>1. job.closing \in BOOLEAN /\ job.pc # "crashed"
  <2>1. job.closing \in BOOLEAN
    BY DEF CacheInv, TypeInv, JobTyped, Jobs
  <2> QED BY <2>1, IdleTyped DEF Learn, FlushUpdates, Release, Unmount
<1>2. entry' \in {entry, Known} /\ handle' \in {handle, NoHandle} /\ UNCHANGED <<remote, disk, setting>>
  BY DEF Learn, FlushUpdates, Release, Unmount, UpdateEntry
<1>3. CASE Learn \/ FlushUpdates \/ Release
  <2>1. job' \in {Idle, Closing(job.closing)}
    BY <1>3 DEF Learn, FlushUpdates, Release
  <2> QED BY <1>1, <1>2, <2>1, ClosingTyped, IdleTyped, EntryMoves
<1>4. CASE Unmount
  <2>1. job' = Down("unmounted") /\ handle' = NoHandle /\ "remount" \in ops
    BY <1>4 DEF Unmount
  <2> QED BY <1>1, <1>2, <2>1, IdleTyped, EntryMoves
<1> QED BY <1>3, <1>4

-----------------------------------------------------------------------------
(* Truncating, ending, starting. *)

\* What truncating leaves of the copies.
LEMMA EmptiedCopies ==
  ASSUME NEW files \in [Names -> Files], NEW s \in Names
  PROVE  /\ Emptied(files, s) \in [Names -> Files]
         /\ \A r \in Names : /\ Emptied(files, s)[r] = Absent <=> files[r] = Absent
                             /\ Emptied(files, s)[r] \in {files[r], {}}
                             /\ r # s => Emptied(files, s)[r] = files[r]
                             /\ r = s /\ files[r] # Absent => Emptied(files, s)[r] = {}
BY Values DEF Emptied

LEMMA TruncatedCopies ==
  ASSUME TypeInv, NEW files \in [Names -> Files]
  PROVE  /\ Truncated(files) \in [Names -> Files]
         /\ \A r \in Names : /\ Truncated(files)[r] = Absent <=> files[r] = Absent
                             /\ Truncated(files)[r] \in {files[r], {}}
                             /\ r \notin {entry.local, entry.remote} => Truncated(files)[r] = files[r]
                             /\ r \in {entry.local, entry.remote} /\ files[r] # Absent =>
                                  Truncated(files)[r] = {}
<1>1. entry.local \in Names /\ entry.remote \in Names
  BY NumbersTyped
<1>2. PICK once : once = Emptied(files, entry.local)
  OBVIOUS
<1>3. /\ once \in [Names -> Files]
      /\ \A r \in Names : /\ once[r] = Absent <=> files[r] = Absent
                          /\ once[r] \in {files[r], {}}
                          /\ r # entry.local => once[r] = files[r]
                          /\ r = entry.local /\ files[r] # Absent => once[r] = {}
  BY <1>1, <1>2, EmptiedCopies
<1>4. PICK twice : twice = Emptied(once, entry.remote)
  OBVIOUS
<1>5. /\ twice \in [Names -> Files]
      /\ \A r \in Names : /\ twice[r] = Absent <=> once[r] = Absent
                          /\ twice[r] \in {once[r], {}}
                          /\ r # entry.remote => twice[r] = once[r]
                          /\ r = entry.remote /\ once[r] # Absent => twice[r] = {}
  BY <1>1, <1>3, <1>4, EmptiedCopies
<1>6. Truncated(files) = twice
  BY <1>2, <1>4 DEF Truncated
<1> QED BY <1>3, <1>5, <1>6

\* The copies and the handle after a truncation.
LEMMA TruncationLeaves ==
  ASSUME TypeInv, TruncateLocal
  PROVE  /\ DiskTyped'
         /\ \A r \in Names :
              /\ cached'[r] = Absent <=> cached[r] = Absent
              /\ cached'[r] \in {cached[r], {}}
              /\ r \notin {entry.local, entry.remote} => cached'[r] = cached[r]
              /\ fresh'[r] = Absent <=> fresh[r] = Absent
              /\ fresh'[r] \in {fresh[r], {}}
              /\ r \notin {entry.local, entry.remote} => fresh'[r] = fresh[r]
              /\ r \in {entry.local, entry.remote} /\ fresh[r] # Absent => fresh'[r] = {}
         /\ entry' \in Entries /\ entry'.remote = entry.remote /\ entry'.local = entry.remote
         /\ entry'.data = entry.data
         /\ handle = NoHandle <=> handle' = NoHandle
         /\ handle # NoHandle =>
              /\ handle' \in Handle /\ handle'.name = handle.name /\ handle'.mode = handle.mode
              /\ handle'.flushed = handle.flushed
              /\ IF handle.mode = "w" /\ handle.name \in {entry.local, entry.remote}
                 THEN handle'.wrote = {} ELSE handle' = handle
<1>1. /\ DiskTyped'
      /\ \A r \in Names :
           /\ cached'[r] = Absent <=> cached[r] = Absent
           /\ cached'[r] \in {cached[r], {}}
           /\ r \notin {entry.local, entry.remote} => cached'[r] = cached[r]
           /\ fresh'[r] = Absent <=> fresh[r] = Absent
           /\ fresh'[r] \in {fresh[r], {}}
           /\ r \notin {entry.local, entry.remote} => fresh'[r] = fresh[r]
           /\ r \in {entry.local, entry.remote} /\ fresh[r] # Absent => fresh'[r] = {}
  BY TruncatedCopies DEF TruncateLocal, TypeInv, DiskTyped
<1>2. /\ entry' \in Entries /\ entry'.remote = entry.remote /\ entry'.local = entry.remote
      /\ entry'.data = entry.data
  BY NumbersTyped DEF TruncateLocal, TypeInv, EntryTyped, Entries
<1>3. CASE handle = NoHandle
  BY <1>1, <1>2, <1>3 DEF TruncateLocal, Writable
<1>4. CASE handle # NoHandle
  <2>1. handle \in Handle
    BY <1>4, NumbersTyped
  <2>2. CASE handle.mode = "w" /\ handle.name \in {entry.local, entry.remote}
    <3>1. handle' = [handle EXCEPT !.wrote = {}]
      BY <1>4, <2>2 DEF TruncateLocal, Writable
    <3>2. /\ handle' \in Handle /\ handle'.name = handle.name /\ handle'.mode = handle.mode
          /\ handle'.flushed = handle.flushed /\ handle'.wrote = {}
      BY <2>1, <3>1, Values DEF Handle
    <3> QED BY <1>1, <1>2, <1>4, <2>2, <3>2, HandleAssumption
  <2>3. CASE ~(handle.mode = "w" /\ handle.name \in {entry.local, entry.remote})
    <3>1. handle' = handle
      BY <2>3 DEF TruncateLocal, Writable
    <3> QED BY <1>1, <1>2, <1>4, <2>1, <2>3, <3>1
  <2> QED BY <2>2, <2>3
<1> QED BY <1>3, <1>4

LEMMA TruncateStep ==
  ASSUME CacheInv, TruncateLocal
  PROVE  CacheInv'
<1>1. job.pc = "truncate" /\ job' = Idle /\ UNCHANGED <<remote, setting>>
  BY DEF TruncateLocal
<1>2. /\ rev \in Nat /\ entry.local \in Nat /\ entry.remote \in Nat /\ entry.local <= entry.remote
      /\ entry.remote <= rev /\ entry.remote >= 1
  BY NumbersTyped DEF CacheInv
<1>3. RemoteTyped' /\ EntryTyped' /\ DiskTyped'
  BY <1>1, <1>2, TruncationLeaves DEF CacheInv, TypeInv, RemoteTyped, EntryTyped, remote
<1>4. HandleTyped' /\ CopyTyped' /\ JobTyped'
  <2>1. handle # NoHandle => handle.name \in Names /\ handle.name \in Nat
    BY NumbersTyped DEF CacheInv
  <2>2. HandleTyped' /\ JobTyped'
    BY <1>1, TruncationLeaves, IdleTyped DEF CacheInv, TypeInv, HandleTyped, JobTyped, Opening, setting
  <2>3. CopyTyped'
    BY <1>2, <2>1, TruncationLeaves DEF CacheInv, TypeInv, CopyTyped
  <2> QED BY <2>2, <2>3
<1>5. ASSUME Trusted PROVE Sound'
  <2>1. HistSound' /\ TruncationSound'
    BY <1>1, <1>5, IdleTyped DEF CacheInv, Sound, HistSound, TruncationSound, remote
  <2>2. FreshSound'
    BY <1>5, TruncationLeaves, Values DEF CacheInv, Sound, FreshSound
  <2>3. CachedSound'
    <3>1. cached'[0] = Absent
      BY <1>5, TruncationLeaves, Values DEF CacheInv, Sound, CachedSound
    <3>2. ASSUME NEW r \in Revs, cached'[r] # Absent
          PROVE  \E q \in r .. rev' : cached'[r] = hist'[q]
      <4>1. r \in Names /\ r \in Nat /\ r >= 1 /\ cached[r] # Absent /\ rev' = rev /\ hist' = hist
        BY <1>1, <3>2, TruncationLeaves, Values DEF CacheInv, remote
      <4>2. CASE r \in {entry.local, entry.remote} /\ cached'[r] = {}
        <5>1. PICK q \in entry.remote .. rev : hist[q] = {}
          BY <1>1, <1>5 DEF CacheInv, Sound, TruncationSound
        <5>2. q \in r .. rev
          BY <1>2, <4>1, <4>2, <5>1
        <5> QED BY <4>1, <4>2, <5>1, <5>2
      <4>3. CASE cached'[r] = cached[r]
        BY <1>1, <1>5, <4>1, <4>3 DEF CacheInv, Sound, CachedSound
      <4> QED BY <4>1, <4>2, <4>3, TruncationLeaves DEF CacheInv
    <3> QED BY <3>1, <3>2 DEF CachedSound
  <2> QED BY <2>1, <2>2, <2>3 DEF Sound
<1>6. Trusted' <=> Trusted
  BY <1>1 DEF Trusted, Uncleaned, setting
<1> QED BY <1>3, <1>4, <1>5, <1>6 DEF CacheInv, TypeInv

\* What is on the disk when the process ends anywhere.
LEMMA CrashLeaves ==
  ASSUME TypeInv, Crash
  PROVE  /\ DiskTyped'
         /\ \A r \in Names :
              /\ cached'[r] \in {cached[r], {}, Junk} /\ (r = 0 => cached'[r] = cached[r] \/ cached[r] # Absent)
              /\ fresh'[r] \in {fresh[r], {}, Junk} /\ (fresh'[r] # fresh[r] => r = entry.remote \/ fresh[r] # Absent)
              /\ fresh'[r] = Junk => fresh[r] = Junk \/ "copy" \in faults
<1>1. entry.remote \in Names /\ entry.local \in Names /\ entry.remote # 0
      /\ {} \in Files /\ Junk \in Files /\ {} # Junk
  BY NumbersTyped, Values
<1>2. CASE UNCHANGED fresh /\ \E c \in Left : cached' = c
  <2>1. CASE UNCHANGED cached
    BY <1>2, <2>1 DEF TypeInv, DiskTyped
  <2>2. ASSUME NEW c \in Cut, cached' = Downloaded(c)
        PROVE  DiskTyped' /\ \A r \in Names : /\ cached'[r] \in {cached[r], {}, Junk}
                                              /\ r = 0 => cached'[r] = cached[r]
    BY <1>1, <1>2, <2>2 DEF TypeInv, DiskTyped, Downloaded, Cut
  <2>3. ASSUME NEW c \in Cut, cached' = Patched(Head(job.todo), c), job.todo # <<>>
        PROVE  DiskTyped' /\ \A r \in Names : /\ cached'[r] \in {cached[r], {}, Junk}
                                              /\ r = 0 => cached'[r] = cached[r]
    <3>1. job.todo \in Seq(Revs \X Revs)
      BY DEF TypeInv, JobTyped, Jobs
    <3>2. Head(job.todo) \in Revs \X Revs
      BY <2>3, <3>1
    <3>3. Head(job.todo)[2] \in Names /\ Head(job.todo)[2] # 0
      BY <3>2, Values
    <3> QED BY <1>1, <1>2, <2>3, <3>3 DEF TypeInv, DiskTyped, Patched, Cut
  <2> QED BY <1>2, <2>1, <2>2, <2>3 DEF Left
<1>3. CASE UNCHANGED cached /\ \E f \in LeftFresh : fresh' = f
  <2>1. CASE UNCHANGED fresh
    BY <1>3, <2>1 DEF TypeInv, DiskTyped
  <2>2. ASSUME NEW c \in Cut, c = Junk => "copy" \in faults, fresh' = OpenFreshCreated(c)
        PROVE  DiskTyped' /\ \A r \in Names : /\ fresh'[r] \in {fresh[r], {}, Junk}
                                              /\ fresh'[r] # fresh[r] => r = entry.remote
                                              /\ fresh'[r] = Junk => fresh[r] = Junk \/ "copy" \in faults
    BY <1>1, <1>3, <2>2 DEF TypeInv, DiskTyped, OpenFreshCreated, Cut
  <2> QED BY <1>3, <2>1, <2>2 DEF LeftFresh
<1>4. ASSUME NEW d \in LeftTruncated, cached' = d[1], fresh' = d[2]
      PROVE  /\ DiskTyped'
             /\ \A r \in Names : /\ cached'[r] \in {cached[r], {}} /\ (cached'[r] = Absent <=> cached[r] = Absent)
                                 /\ fresh'[r] \in {fresh[r], {}} /\ (fresh'[r] = Absent <=> fresh[r] = Absent)
  <2>1. cached' \in {cached, Emptied(cached, entry.local), Truncated(cached)}
        /\ fresh' \in {fresh, Emptied(fresh, entry.local), Truncated(fresh)}
    BY <1>4 DEF LeftTruncated
  <2>2. cached \in [Names -> Files] /\ fresh \in [Names -> Files]
    BY DEF TypeInv, DiskTyped
  <2> QED BY <1>1, <2>1, <2>2, EmptiedCopies, TruncatedCopies DEF DiskTyped
<1> QED BY <1>1, <1>2, <1>3, <1>4 DEF Crash, TypeInv, DiskTyped

LEMMA CrashStep ==
  ASSUME CacheInv, Crash
  PROVE  CacheInv'
<1>1. job' = Down("crashed") /\ handle' = NoHandle /\ "crash" \in ops /\ UNCHANGED <<remote, entry, setting>>
  BY DEF Crash
<1>2. RemoteTyped' /\ EntryTyped' /\ DiskTyped' /\ JobTyped' /\ HandleTyped' /\ CopyTyped'
  BY <1>1, CrashLeaves, IdleTyped
     DEF CacheInv, TypeInv, RemoteTyped, EntryTyped, JobTyped, HandleTyped, CopyTyped, Opening, remote, setting
<1>3. ASSUME Trusted PROVE Sound'
  <2>1. HistSound' /\ TruncationSound'
    BY <1>1, <1>3, IdleTyped DEF CacheInv, Sound, HistSound, TruncationSound, remote
  <2>2. FreshSound'
    BY <1>3, CrashLeaves DEF CacheInv, Sound, FreshSound, Trusted, Hidden
  <2>3. CachedSound'
    BY <1>1, <1>3, CrashLeaves, IdleTyped, Values DEF CacheInv, Sound, CachedSound
  <2> QED BY <2>1, <2>2, <2>3 DEF Sound
<1>4. Trusted' <=> Trusted
  BY <1>1 DEF Trusted, Uncleaned, setting
<1> QED BY <1>2, <1>3, <1>4 DEF CacheInv, TypeInv

\* The entry that a mount starts from, and the only copy that its cleanup keeps.
LEMMA StoredTyped ==
  ASSUME TypeInv, ~Runs, NEW e \in Stored
  PROVE  /\ e \in Entries /\ e.local <= e.remote /\ e.remote <= entry.remote
         /\ IF job.pc = "unmounted" THEN e = entry ELSE e.data = hist[e.remote]
<1>1. CASE job.pc = "unmounted"
  BY <1>1, NumbersTyped DEF Stored, TypeInv, EntryTyped
<1>2. CASE job.pc # "unmounted"
  <2>1. PICK l \in Names, r \in 1 .. entry.remote : e = [local |-> l, remote |-> r, data |-> hist[r]]
    BY <1>2 DEF Stored, Earlier
  <2>2. r \in Revs /\ hist[r] \in {Junk} \cup Contents /\ e.local <= e.remote
    BY <1>2, <2>1, NumbersTyped, Values DEF Stored, Earlier, TypeInv, RemoteTyped
  <2> QED BY <1>2, <2>1, <2>2, NumbersTyped, Values DEF Entries
<1> QED BY <1>1, <1>2

LEMMA MountLeaves ==
  ASSUME TypeInv, Mount
  PROVE  /\ handle = NoHandle /\ job' = Idle /\ UNCHANGED <<remote, fresh, handle, setting>> /\ DiskTyped'
         /\ entry' \in Entries /\ entry'.local <= entry'.remote /\ entry'.remote <= rev
         /\ \/ /\ "lost" \in ops /\ UNCHANGED cached
               /\ entry'.remote = rev /\ entry'.data = hist[rev]
            \/ \E e \in Stored :
                 /\ \A r \in Names : \/ cached'[r] = Absent
                                     \/ r = e.remote /\ cached'[r] = e.data /\ cached'[r] = cached[r]
                 /\ \/ entry'.remote = rev /\ entry'.data = hist[rev]
                    \/ entry'.remote = e.remote /\ entry'.data = e.data
<1>1. handle = NoHandle /\ job' = Idle /\ UNCHANGED <<remote, fresh, handle, setting>> /\ ~Runs
  BY DEF Mount, Runs, TypeInv, JobTyped
<1>2. /\ Known \in Entries /\ Known.remote = rev /\ Known.data = hist[rev] /\ 0 \in Names /\ rev \in Nat
      /\ entry.remote \in Nat /\ entry.remote <= rev
  BY KnownTyped, NumbersTyped, Values DEF TypeInv
<1>3. CASE "lost" \in ops /\ UNCHANGED cached /\ entry' = [Known EXCEPT !.local = 0]
  <2>1. entry' \in Entries /\ entry'.local = 0 /\ entry'.remote = rev /\ entry'.data = hist[rev]
    BY <1>2, <1>3 DEF Entries
  <2> QED BY <1>1, <1>2, <1>3, <2>1 DEF TypeInv, DiskTyped
<1>4. ASSUME NEW e \in Stored, Cleaned(e)
      PROVE  /\ DiskTyped' /\ entry' \in Entries /\ entry'.local <= entry'.remote /\ entry'.remote <= rev
             /\ \A r \in Names : \/ cached'[r] = Absent
                                 \/ r = e.remote /\ cached'[r] = e.data /\ cached'[r] = cached[r]
             /\ \/ entry'.remote = rev /\ entry'.data = hist[rev]
                \/ entry'.remote = e.remote /\ entry'.data = e.data
  <2>1. /\ e \in Entries /\ e.local \in Names /\ e.remote \in Revs /\ e.local <= e.remote
        /\ e.remote <= entry.remote
    BY <1>1, <1>4, StoredTyped DEF Entries
  <2>2. e.local \in Nat /\ e.remote \in Nat /\ e.remote <= rev
    BY <1>2, <2>1, Values
  <2>3. PICK l \in {0, e.local} : Loaded([e EXCEPT !.local = l])
    BY <1>4 DEF Cleaned
  <2>4. /\ l \in Names /\ l \in Nat /\ l <= e.local
        /\ [e EXCEPT !.local = l] \in Entries /\ [e EXCEPT !.local = l].local = l
        /\ [e EXCEPT !.local = l].remote = e.remote /\ [e EXCEPT !.local = l].data = e.data
    BY <1>2, <2>1, <2>2 DEF Entries
  <2>5. /\ entry' \in Entries /\ entry'.local = l
        /\ \/ entry'.remote = rev /\ entry'.data = hist[rev]
           \/ entry'.remote = e.remote /\ entry'.data = e.data
    <3>1. CASE entry' = [e EXCEPT !.local = l]
      BY <2>4, <3>1
    <3>2. CASE entry' = [Known EXCEPT !.local = [e EXCEPT !.local = l].local]
      <4>1. entry' = [Known EXCEPT !.local = l]
        BY <2>4, <3>2
      <4> QED BY <1>2, <2>4, <4>1 DEF Entries
    <3> QED BY <2>3, <3>1, <3>2 DEF Loaded
  <2>6. \A r \in Names : \/ cached'[r] = Absent
                         \/ r = e.remote /\ cached'[r] = e.data /\ cached'[r] = cached[r]
    <3>1. Keeps(Right(e)) \/ Keeps({})
      BY <1>4 DEF Cleaned
    <3> QED BY <3>1 DEF Keeps, Right
  <2>7. DiskTyped'
    <3>1. cached' \in [Names -> Files]
      <4>1. PICK names \in {Right(e), {}} : cached' = [r \in Names |-> IF r \in names THEN cached[r] ELSE Absent]
        BY <1>4 DEF Cleaned, Keeps
      <4> QED BY <4>1, Values DEF TypeInv, DiskTyped
    <3> QED BY <1>1, <3>1 DEF TypeInv, DiskTyped
  <2> QED BY <1>2, <2>1, <2>2, <2>4, <2>5, <2>6, <2>7
<1>5. \/ \E e \in Stored : Cleaned(e)
      \/ "lost" \in ops /\ UNCHANGED cached /\ entry' = [Known EXCEPT !.local = 0]
  BY DEF Mount
<1> QED BY <1>1, <1>3, <1>4, <1>5

LEMMA MountStep ==
  ASSUME CacheInv, Mount
  PROVE  CacheInv'
<1>1. RemoteTyped' /\ EntryTyped' /\ DiskTyped' /\ JobTyped' /\ HandleTyped' /\ CopyTyped'
  BY MountLeaves, IdleTyped
     DEF CacheInv, TypeInv, RemoteTyped, EntryTyped, JobTyped, HandleTyped, CopyTyped, Opening, remote, setting
<1>2. ASSUME Trusted PROVE Sound'
  <2>1. HistSound' /\ FreshSound' /\ TruncationSound'
    BY <1>2, MountLeaves, IdleTyped DEF CacheInv, Sound, HistSound, FreshSound, TruncationSound, remote
  <2>2. CachedSound'
    <3>1. rev' = rev /\ hist' = hist
      BY MountLeaves DEF CacheInv, remote
    <3>2. CASE "lost" \in ops /\ UNCHANGED cached
      <4>1. job.pc # "crashed"
        BY <1>2, <3>2 DEF Trusted, Uncleaned, CacheInv, TypeInv, JobTyped
      <4> QED BY <1>2, <3>1, <3>2, <4>1 DEF CacheInv, Sound, CachedSound
    <3>3. ASSUME NEW e \in Stored,
                 \A r \in Names : \/ cached'[r] = Absent
                                  \/ r = e.remote /\ cached'[r] = e.data /\ cached'[r] = cached[r]
          PROVE  CachedSound'
      <4>1. /\ e.remote \in Revs /\ e.remote <= rev
            /\ IF job.pc = "unmounted" THEN e = entry ELSE e.data = hist[e.remote]
        <5>1. ~Runs
          BY DEF Mount
        <5>2. e \in Entries /\ e.remote <= entry.remote
          BY <5>1, StoredTyped DEF CacheInv
        <5> QED BY <5>1, <5>2, StoredTyped, NumbersTyped, Values DEF CacheInv, Entries
      <4>2. cached'[0] = Absent
        BY <3>3, <4>1, Values
      <4>3. ASSUME NEW r \in Revs, cached'[r] # Absent
            PROVE  \E q \in r .. rev : cached'[r] = hist[q]
        <5>1. r = e.remote /\ cached'[r] = e.data /\ cached'[r] = cached[r] /\ r \in r .. rev
          BY <3>3, <4>1, <4>3, NumbersTyped, Values DEF CacheInv
        <5>2. CASE job.pc = "unmounted"
          BY <1>2, <4>3, <5>1, <5>2 DEF CacheInv, Sound, CachedSound
        <5>3. CASE job.pc # "unmounted"
          BY <4>1, <5>1, <5>3
        <5> QED BY <5>2, <5>3
      <4> QED BY <3>1, <4>2, <4>3 DEF CachedSound
    <3> QED BY <3>2, <3>3, MountLeaves DEF CacheInv
  <2> QED BY <2>1, <2>2 DEF Sound
<1>3. Trusted' <=> Trusted
  BY MountLeaves DEF CacheInv, Trusted, Uncleaned, setting
<1> QED BY <1>1, <1>2, <1>3 DEF CacheInv, TypeInv

LEMMA CacheStep == CacheInv /\ [Next]_vars => CacheInv'
<1> SUFFICES ASSUME CacheInv, [Next]_vars PROVE CacheInv'
  OBVIOUS
<1>1. CASE OtherStores \/ Complete \/ Truncate
  BY <1>1, ServiceSteps
<1>2. CASE Learn \/ FlushUpdates \/ Release \/ Unmount
  BY <1>2, EntrySteps
<1>3. CASE OpenCached \/ OpenFresh \/ OpenStep
  BY <1>3, OpenCachedStep, OpenFreshStep, UpdatesStep, PatchStep, DownloadSteps, CheckStep DEF OpenStep
<1>4. CASE Write \/ Flush \/ FlushPolls
  BY <1>4, WriteStep, FlushStep, PollStep
<1>5. CASE TruncateLocal \/ Crash \/ Mount
  BY <1>5, TruncateStep, CrashStep, MountStep
<1>6. CASE UNCHANGED vars
  BY <1>6 DEF vars, remote, disk, setting, CacheInv, TypeInv, RemoteTyped, EntryTyped, DiskTyped,
              JobTyped, HandleTyped, CopyTyped, Writable, Trusted, Uncleaned, Sound, HistSound, CachedSound,
              FreshSound, TruncationSound
<1> QED BY <1>1, <1>2, <1>3, <1>4, <1>5, <1>6 DEF Next

LEMMA CacheInductive == Spec => []CacheInv
BY CacheInit, CacheStep, PTL DEF Spec

\* The variables have their types, whatever fails.
THEOREM CacheTypeCorrect == Spec => []TypeOK
<1>1. CacheInv => TypeOK
  BY DEF CacheInv, TypeInv, RemoteTyped, EntryTyped, DiskTyped, JobTyped, HandleTyped, Entries, Jobs, TypeOK
<1> QED BY <1>1, CacheInductive, PTL

\* Whatever the service answers, whenever the process ends, also in the middle of
\* a download to the final name, of a patch or of a copy, and whoever else changes
\* or truncates the file: a reader sees the content of a revision not older than
\* the one the tree knew (filecache_open_file).  After a crash that takes a
\* stored tree, by which the next mount cleans the copies.
THEOREM ReadersSeeTrue == Spec => []ReadTrue
<1>1. CacheInv => ReadTrue
  <2> SUFFICES ASSUME CacheInv, Trusted, handle # NoHandle, handle.mode = "r"
               PROVE  \E r \in handle.name .. rev : cached[handle.name] = hist[r]
    BY DEF ReadTrue
  <2>1. handle.name \in Revs /\ cached[handle.name] # Absent
    BY DEF CacheInv, TypeInv, HandleTyped, Handle, CopyTyped
  <2>2. job.pc # "crashed"
    BY DEF CacheInv, TypeInv, JobTyped
  <2> QED BY <2>1, <2>2 DEF CacheInv, Sound, CachedSound
<1> QED BY <1>1, CacheInductive, PTL

-----------------------------------------------------------------------------
(* The names of the copies and of the handle, whatever fails.              *)

\* No copy for writing has a name that the entry does not know yet; only after a
\* mount whose tree could not be updated there may be some, and then no copy but
\* that of the entry's revision, so that none of them finds its original.
NoNewer    == \A r \in Names : fresh[r] # Absent => r <= entry.remote
OnlyRemote == \A r \in Names : r # entry.remote => cached[r] = Absent

NamesOrdered ==
  /\ \A r \in Names : fresh[r] # Absent => r <= rev
  /\ Runs => NoNewer \/ (OnlyRemote /\ job.pc \notin {"updates", "patch"})
  /\ handle # NoHandle =>
       \A r \in Names : cached[r] # Absent /\ fresh[r] # Absent => r <= handle.name

\* A copy for writing has what was written through the handle, and so has what
\* the service was sent and what it made of that.
CopyHas == Writable /\ fresh[handle.name] # Junk => handle.wrote \subseteq fresh[handle.name]
SentHas ==
  job.pc = "poll" =>
    \/ pending # Absent /\ (pending = Junk \/ handle.wrote \subseteq pending)
    \/ \E r \in handle.name .. rev : hist[r] = Junk \/ handle.wrote \subseteq hist[r]

OrderInv == NamesOrdered /\ CopyHas /\ SentHas

LEMMA RevisionsStay ==
  ASSUME TypeInv, Grows, handle # NoHandle, NEW r \in handle.name .. rev
  PROVE  r \in handle.name .. rev' /\ hist'[r] = hist[r]
<1>1. handle.name \in Nat /\ handle.name >= 1 /\ rev \in Nat
  BY NumbersTyped
<1> QED BY <1>1 DEF Grows

LEMMA OrderInitially == Init => OrderInv
<1> SUFFICES ASSUME Init PROVE OrderInv
  OBVIOUS
<1>1. NamesOrdered
  BY Values DEF Init, NamesOrdered, NoNewer
<1> QED BY <1>1, IdleTyped DEF Init, OrderInv, CopyHas, SentHas, Writable

LEMMA ServiceOrder ==
  ASSUME CacheInv, OrderInv, OtherStores \/ Complete \/ Truncate
  PROVE  OrderInv'
<1>1. UNCHANGED <<entry, disk, handle>> /\ (UNCHANGED job \/ (job = Idle /\ job' = Truncating))
  BY DEF OtherStores, Complete, Truncate
<1>2. (\E c : Store(c)) \/ UNCHANGED <<rev, hist>>
  BY DEF OtherStores, Complete, Truncate
<1>3. Grows
  <2>1. CASE UNCHANGED <<rev, hist>>
    BY <2>1, RemoteStays DEF CacheInv, TypeInv
  <2>2. ASSUME NEW c, Store(c) PROVE Grows
    BY <2>2, NumbersTyped, Values DEF CacheInv, TypeInv, RemoteTyped, Store, Grows
  <2> QED BY <1>2, <2>1, <2>2
<1>4. job' = job \/ (job.pc = "idle" /\ job'.pc = "truncate")
  BY <1>1, IdleTyped DEF Truncating, Down
<1>5. NamesOrdered'
  <2>1. \A r \in Names : fresh[r] # Absent => r <= rev'
    <3>1. \A r \in Names : r \in Nat
      BY Values
    <3> QED BY <1>3, <3>1, NumbersTyped DEF Grows, OrderInv, NamesOrdered, CacheInv
  <2> QED BY <1>1, <1>4, <2>1 DEF OrderInv, NamesOrdered, NoNewer, OnlyRemote, Runs, disk
<1>6. CopyHas'
  BY <1>1 DEF OrderInv, CopyHas, Writable, disk
<1>7. SentHas'
  <2> SUFFICES ASSUME job'.pc = "poll"
               PROVE  \/ pending' # Absent /\ (pending' = Junk \/ handle'.wrote \subseteq pending')
                      \/ \E r \in handle'.name .. rev' : hist'[r] = Junk \/ handle'.wrote \subseteq hist'[r]
    BY DEF SentHas
  <2>1. job.pc = "poll" /\ handle # NoHandle /\ handle' = handle
    BY <1>1, <1>4 DEF CacheInv, TypeInv, JobTyped, Writable
  <2>2. CASE \E r \in handle.name .. rev : hist[r] = Junk \/ handle.wrote \subseteq hist[r]
    BY <1>3, <2>1, <2>2, RevisionsStay DEF CacheInv
  <2>3. CASE pending # Absent /\ (pending = Junk \/ handle.wrote \subseteq pending)
    <3>1. CASE UNCHANGED pending
      BY <2>1, <2>3, <3>1
    <3>2. CASE Store(pending)
      <4>1. hist'[rev'] = pending /\ rev' \in handle.name .. rev'
        <5>1. handle.name \in Nat /\ handle.name <= rev /\ rev' = rev + 1 /\ rev \in Nat
          BY <2>1, <3>2, NumbersTyped DEF CacheInv, TypeInv, CopyTyped, Store
        <5>2. hist'[rev'] = pending
          BY <3>2, <5>1, NumbersTyped, Values DEF CacheInv, TypeInv, RemoteTyped, Store
        <5> QED BY <5>1, <5>2
      <4> QED BY <2>1, <2>3, <4>1
    <3> QED BY <3>1, <3>2 DEF OtherStores, Complete, Truncate
  <2> QED BY <2>1, <2>2, <2>3 DEF OrderInv, SentHas
<1> QED BY <1>5, <1>6, <1>7 DEF OrderInv

\* The steps of an open.
LEMMA OpenOrder ==
  ASSUME CacheInv, OrderInv, handle = NoHandle, Runs, UNCHANGED <<rev, hist>>, entry'.remote = entry.remote,
         \A r \in Names : fresh'[r] # Absent => fresh[r] # Absent \/ r = entry.remote,
         NoNewer \/ \A r \in Names : r # entry.remote => cached'[r] = cached[r],
         job'.pc \in {"updates", "patch"} => NoNewer,
         job'.pc # "poll",
         handle' = NoHandle \/ (handle'.name = entry.remote /\ handle'.wrote = {})
  PROVE  OrderInv'
<1>1. /\ rev \in Nat /\ entry.remote \in Nat /\ entry.remote <= rev /\ entry.remote \in Names
      /\ \A r \in Names : r \in Nat
  BY NumbersTyped, Values DEF CacheInv
<1>2. \A r \in Names : fresh'[r] # Absent => r <= rev'
  BY <1>1 DEF OrderInv, NamesOrdered
<1>3. NoNewer' \/ (OnlyRemote' /\ job'.pc \notin {"updates", "patch"})
  BY <1>1 DEF OrderInv, NamesOrdered, NoNewer, OnlyRemote
<1>4. handle' # NoHandle =>
        \A r \in Names : cached'[r] # Absent /\ fresh'[r] # Absent => r <= handle'.name
  BY <1>1, <1>3 DEF NoNewer, OnlyRemote
<1>5. NamesOrdered'
  BY <1>2, <1>3, <1>4 DEF NamesOrdered
<1>6. CopyHas' /\ SentHas'
  BY DEF CopyHas, SentHas, Writable
<1> QED BY <1>5, <1>6 DEF OrderInv

LEMMA OpensOrder ==
  ASSUME CacheInv, OrderInv, OpenCached \/ OpenFresh \/ OpenStep
  PROVE  OrderInv'
<1>1. /\ entry.remote \in Names /\ \A m : Deliver(m) =>
           handle'.name = entry.remote /\ handle'.wrote = {} /\ entry'.remote = entry.remote
      /\ fresh \in [Names -> Files] /\ cached \in [Names -> Files]
  BY NumbersTyped DEF Deliver, CacheInv, TypeInv, EntryTyped, Entries, DiskTyped
<1>2. Runs => NoNewer \/ OnlyRemote
  BY DEF OrderInv, NamesOrdered
<1>3. ASSUME OpenCached \/ OpenFresh PROVE OrderInv'
  <2>1. handle = NoHandle /\ Runs /\ UNCHANGED <<rev, hist, cached>> /\ job = Idle
    BY <1>3, IdleTyped DEF OpenCached, OpenFresh, Runs, remote, disk
  <2>2. \A r \in Names : fresh'[r] # Absent => fresh[r] # Absent \/ r = entry.remote
    <3>1. CASE UNCHANGED fresh
      BY <3>1
    <3>2. ASSUME NEW c, fresh' = OpenFreshCreated(c) PROVE <2>2
      BY <1>1, <3>2 DEF OpenFreshCreated
    <3> QED BY <1>3, <3>1, <3>2 DEF OpenCached, OpenFresh, disk
  <2>3. CASE UNCHANGED job /\ (Deliver("r") \/ Deliver("w"))
    BY <1>1, <2>1, <2>2, <2>3, IdleTyped, OpenOrder
  <2>4. ASSUME NEW m \in {"r", "w"}, Retrieve(m), cached[entry.remote] = Absent PROVE OrderInv'
    <3>1. UNCHANGED <<entry, handle>> /\ job'.pc \in {"updates", "links"}
          /\ (job'.pc = "updates" => cached[entry.local] # Absent)
      <4>1. PICK l \in {"updates", "links"} :
              /\ job' = [Idle EXCEPT !.pc = l, !.mode = m, !.last = entry.local]
              /\ l = "updates" => cached[entry.local] # Absent
        BY <2>4 DEF Retrieve
      <4> QED BY <2>4, <4>1 DEF Idle, Retrieve
    <3>2. job'.pc = "updates" => NoNewer
      <4>1. OnlyRemote => cached[entry.local] = Absent
        BY <2>4, NumbersTyped DEF OnlyRemote, CacheInv
      <4> QED BY <1>2, <2>1, <3>1, <4>1
    <3> QED BY <2>1, <2>2, <3>1, <3>2, OpenOrder
  <2> QED BY <1>3, <2>3, <2>4 DEF OpenCached, OpenFresh
<1>4. ASSUME OpenStep PROVE OrderInv'
  <2>1. handle = NoHandle /\ Runs /\ UNCHANGED <<rev, hist>> /\ job \in Jobs
    <3>1. job.pc \in Opening /\ UNCHANGED <<rev, hist>>
      BY <1>4 DEF OpenStep, GetUpdates, ApplyPatch, PatchesDone, GetLinks, Download, CheckIntegrity, Opening, remote
    <3> QED BY <3>1, JobOpening DEF Runs, Opening
  <2>2. job.pc \in {"updates", "patch"} => NoNewer
    BY <2>1 DEF OrderInv, NamesOrdered
  <2>3. \A l \in {"check", "http"} : job' = [job EXCEPT !.pc = l] => job'.pc = l
    BY <2>1 DEF Jobs
  <2>4. CASE GetUpdates \/ ApplyPatch \/ PatchesDone
    <3>1. UNCHANGED <<entry, handle, fresh>> /\ job.pc \in {"updates", "patch"}
      BY <2>4 DEF GetUpdates, ApplyPatch, PatchesDone, OpenFails, disk
    <3>2. job'.pc # "poll"
      <4>1. \E t, n : \E l \in {"links", "patch", "check"} :
              job' = Idle \/ job' = [job EXCEPT !.pc = l, !.todo = t] \/ job' = [job EXCEPT !.pc = l]
              \/ (job.pc = "patch" /\ job' = [job EXCEPT !.todo = t, !.last = n])
        BY <2>4 DEF GetUpdates, ApplyPatch, PatchesDone, OpenFails
      <4> QED BY <2>1, <4>1, IdleTyped DEF Jobs
    <3> QED BY <2>1, <2>2, <3>1, <3>2, OpenOrder
  <2>5. CASE GetLinks \/ Download
    <3>1. UNCHANGED <<entry, handle, fresh>> /\ (job' = Idle \/ \E l \in {"check", "http"} : job' = [job EXCEPT !.pc = l])
      BY <2>5 DEF GetLinks, Download, OpenFails, disk
    <3>2. \A r \in Names : r # entry.remote => cached'[r] = cached[r]
      <4>1. UNCHANGED cached \/ \E c : cached' = Downloaded(c)
        BY <2>5 DEF GetLinks, Download, disk
      <4> QED BY <1>1, <4>1 DEF Downloaded
    <3>3. job'.pc \in {"idle", "check", "http"}
      BY <2>3, <3>1, IdleTyped
    <3> QED BY <2>1, <3>1, <3>2, <3>3, OpenOrder
  <2>6. CASE CheckIntegrity
    <3>1. \A r \in Names : fresh'[r] # Absent => fresh[r] # Absent \/ r = entry.remote
      <4>1. UNCHANGED fresh \/ \E c : fresh' = OpenFreshCreated(c)
        BY <2>6 DEF CheckIntegrity
      <4> QED BY <1>1, <4>1 DEF OpenFreshCreated
    <3>2. job'.pc = "idle" /\ UNCHANGED cached
      BY <2>6, IdleTyped DEF CheckIntegrity, OpenFails
    <3>3. \/ UNCHANGED <<entry, handle>>
          \/ Deliver("r") \/ Deliver("w")
      BY <2>6 DEF CheckIntegrity, OpenFails
    <3> QED BY <1>1, <2>1, <3>1, <3>2, <3>3, OpenOrder
  <2> QED BY <1>4, <2>4, <2>5, <2>6 DEF OpenStep
<1> QED BY <1>3, <1>4

LEMMA WriteOrder ==
  ASSUME CacheInv, OrderInv, Write
  PROVE  OrderInv'
<1>1. PICK e \in Edits :
        /\ fresh' = [fresh EXCEPT ![handle.name] = Edited(@, e)]
        /\ handle' = [handle EXCEPT !.flushed = FALSE, !.wrote = @ \cup {e}]
  BY DEF Write
<1>2. handle \in Handle /\ handle.mode = "w" /\ Writable /\ handle.name \in Names /\ handle # NoHandle
      /\ UNCHANGED <<entry, cached, job, rev, hist>> /\ job = Idle
  BY NumbersTyped DEF Write, Writable, CacheInv, remote
<1>3. /\ handle'.mode = "w" /\ handle'.name = handle.name /\ handle'.wrote = handle.wrote \cup {e}
  BY <1>1, <1>2 DEF Handle
<1>4. fresh'[handle.name] = Edited(fresh[handle.name], e) /\ fresh[handle.name] # Absent
      /\ \A r \in Names : r # handle.name => fresh'[r] = fresh[r]
  BY <1>1, <1>2 DEF CacheInv, TypeInv, DiskTyped, CopyTyped
<1>5. \A r \in Names : fresh'[r] # Absent => fresh[r] # Absent
  BY <1>4
<1>6. NamesOrdered'
  BY <1>2, <1>3, <1>5 DEF OrderInv, NamesOrdered, NoNewer, OnlyRemote, Runs
<1>7. CopyHas'
  <2>1. fresh'[handle.name] # Junk => handle.wrote \cup {e} \subseteq fresh'[handle.name]
    BY <1>2, <1>4 DEF OrderInv, CopyHas, Edited
  <2> QED BY <1>3, <2>1 DEF CopyHas
<1>8. SentHas'
  BY <1>2, IdleTyped DEF SentHas
<1> QED BY <1>6, <1>7, <1>8 DEF OrderInv

\* What a flush sends, or finds beside its original, is the handle's copy.
LEMMA TargetIs ==
  ASSUME CacheInv, OrderInv, Writable, Target # Absent, Source # Absent
  PROVE  entry.local = handle.name /\ (Target = Junk \/ handle.wrote \subseteq Target)
<1>1. /\ entry.local \in Names /\ entry.local \in Nat /\ handle.name \in Nat /\ handle.name <= entry.local
      /\ entry.local <= handle.name
  BY NumbersTyped DEF CacheInv, TypeInv, CopyTyped, Writable, Target, Source, OrderInv, NamesOrdered
<1>2. entry.local = handle.name
  BY <1>1
<1> QED BY <1>2 DEF Target, OrderInv, CopyHas

LEMMA FlushOrder ==
  ASSUME CacheInv, OrderInv, Flush \/ FlushPolls
  PROVE  OrderInv'
<1>1. /\ Writable /\ handle \in Handle /\ handle # NoHandle /\ job.pc \in {"idle", "poll"}
      /\ UNCHANGED <<entry, disk, rev, hist>>
  <2>1. Writable /\ job.pc \in {"idle", "poll"} /\ UNCHANGED <<entry, disk, rev, hist>>
    BY IdleTyped DEF Flush, FlushPolls, UploadPatch, FlushFails, FlushSucceeds, Upload, Sends, Poll, remote,
                     CacheInv, TypeInv, JobTyped
  <2> QED BY <2>1, NumbersTyped DEF Writable, CacheInv
<1>2. PICK closing \in BOOLEAN :
        \/ job' \in {Closing(closing), Sync(closing)}
        \/ /\ job' = [Idle EXCEPT !.pc = "poll", !.closing = closing]
           /\ pending' = Target /\ Target # Absent /\ Source # Absent /\ UNCHANGED handle
  <2>1. job.closing \in BOOLEAN
    BY DEF CacheInv, TypeInv, JobTyped, Jobs
  <2> QED BY <2>1 DEF Flush, FlushPolls, UploadPatch, FlushFails, FlushSucceeds, Upload, Sends, Poll
<1>3. handle'.name = handle.name /\ handle'.mode = handle.mode /\ handle'.wrote = handle.wrote
  <2>1. UNCHANGED handle \/ handle' = [handle EXCEPT !.flushed = TRUE]
    BY DEF Flush, FlushPolls, UploadPatch, FlushFails, FlushSucceeds, Upload, Poll
  <2> QED BY <1>1, <2>1 DEF Handle
<1>4. job'.pc \in {"idle", "release", "sync", "poll"} /\ (job'.pc = "poll" => pending' = Target /\ Target # Absent /\ Source # Absent)
  BY <1>2, ClosingTyped
<1>5. NamesOrdered'
  BY <1>1, <1>3, <1>4 DEF OrderInv, NamesOrdered, NoNewer, OnlyRemote, Runs, disk
<1>6. CopyHas'
  BY <1>1, <1>3 DEF OrderInv, CopyHas, Writable, disk
<1>7. SentHas'
  BY <1>1, <1>3, <1>4, TargetIs DEF SentHas
<1> QED BY <1>5, <1>6, <1>7 DEF OrderInv

LEMMA EntryOrder ==
  ASSUME CacheInv, OrderInv, Learn \/ FlushUpdates \/ Release \/ Unmount
  PROVE  OrderInv'
<1>1. /\ entry' \in {entry, Known} /\ handle' \in {handle, NoHandle} /\ UNCHANGED <<rev, hist, disk>>
      /\ Runs /\ (job.pc \in {"updates", "patch"} => FALSE)
  BY IdleTyped DEF Learn, FlushUpdates, Release, Unmount, UpdateEntry, remote, Runs
<1>2. job'.pc \in {"idle", "release", "unmounted"}
  <2>1. job.closing \in BOOLEAN
    BY DEF CacheInv, TypeInv, JobTyped, Jobs
  <2> QED BY <2>1, IdleTyped, ClosingTyped DEF Learn, FlushUpdates, Release, Unmount
<1>3. NoNewer' \/ OnlyRemote'
  <2>1. CASE entry' = entry
    BY <1>1, <2>1 DEF OrderInv, NamesOrdered, NoNewer, OnlyRemote, disk
  <2>2. CASE entry' = Known
    BY <1>1, <2>2, KnownTyped DEF CacheInv, TypeInv, OrderInv, NamesOrdered, NoNewer, disk
  <2> QED BY <1>1, <2>1, <2>2
<1>4. NamesOrdered'
  BY <1>1, <1>2, <1>3 DEF OrderInv, NamesOrdered, disk
<1>5. CopyHas' /\ SentHas'
  BY <1>1, <1>2 DEF OrderInv, CopyHas, SentHas, Writable, disk
<1> QED BY <1>4, <1>5 DEF OrderInv

LEMMA TruncateOrder ==
  ASSUME CacheInv, OrderInv, TruncateLocal
  PROVE  OrderInv'
<1>1. job.pc = "truncate" /\ job' = Idle /\ UNCHANGED <<rev, hist>>
  BY DEF TruncateLocal, remote
<1>2. handle # NoHandle => handle.name \in Names
  BY NumbersTyped DEF CacheInv
<1>3. NamesOrdered'
  BY <1>1, IdleTyped, TruncationLeaves DEF CacheInv, OrderInv, NamesOrdered, NoNewer, OnlyRemote, Runs
<1>4. CopyHas'
  BY <1>2, TruncationLeaves DEF CacheInv, TypeInv, CopyTyped, OrderInv, CopyHas, Writable
<1>5. SentHas'
  BY <1>1, IdleTyped DEF SentHas
<1> QED BY <1>3, <1>4, <1>5 DEF OrderInv

LEMMA RestartOrder ==
  ASSUME CacheInv, OrderInv, Crash \/ Mount
  PROVE  OrderInv'
<1>1. /\ handle' = NoHandle /\ UNCHANGED <<rev, hist>>
  BY MountLeaves DEF Crash, CacheInv, remote
<1>2. CASE Crash
  <2>1. job'.pc = "crashed"
    BY <1>2, IdleTyped DEF Crash
  <2>2. \A r \in Names : fresh'[r] # Absent => r <= rev
    BY <1>2, CrashLeaves, NumbersTyped DEF CacheInv, OrderInv, NamesOrdered
  <2> QED BY <1>1, <2>1, <2>2 DEF OrderInv, NamesOrdered, CopyHas, SentHas, Writable, Runs
<1>3. CASE Mount
  <2>1. job'.pc = "idle" /\ UNCHANGED fresh
    BY <1>3, MountLeaves, IdleTyped DEF CacheInv
  <2>2. NoNewer' \/ OnlyRemote'
    <3>1. CASE entry'.remote = rev
      BY <2>1, <3>1 DEF OrderInv, NamesOrdered, NoNewer
    <3>2. ASSUME NEW e \in Stored, entry'.remote = e.remote,
                 \A r \in Names : \/ cached'[r] = Absent
                                  \/ r = e.remote /\ cached'[r] = e.data /\ cached'[r] = cached[r]
          PROVE  OnlyRemote'
      BY <3>2 DEF OnlyRemote
    <3> QED BY <1>3, <3>1, <3>2, MountLeaves DEF CacheInv
  <2> QED BY <1>1, <2>1, <2>2 DEF OrderInv, NamesOrdered, CopyHas, SentHas, Writable
<1> QED BY <1>2, <1>3

LEMMA OrderStep == CacheInv /\ OrderInv /\ [Next]_vars => OrderInv'
<1> SUFFICES ASSUME CacheInv, OrderInv, [Next]_vars PROVE OrderInv'
  OBVIOUS
<1>1. CASE UNCHANGED vars
  BY <1>1 DEF vars, remote, disk, OrderInv, NamesOrdered, NoNewer, OnlyRemote, Runs, CopyHas, SentHas, Writable
<1>2. CASE Next
  BY <1>2, ServiceOrder, OpensOrder, WriteOrder, FlushOrder, EntryOrder, TruncateOrder, RestartOrder DEF Next
<1> QED BY <1>1, <1>2

LEMMA OrderInductive == Spec => [](CacheInv /\ OrderInv)
BY CacheInit, CacheStep, OrderInitially, OrderStep, PTL DEF Spec

-----------------------------------------------------------------------------
(* The refinement.  Where copies are not to be trusted the file of         *)
(* StoredFile stays as it is; else every step is one of StoredFile or none.                   *)

LEMMA PromisedInit == Init => Promised!Init
<1> SUFFICES ASSUME Init PROVE Promised!Init
  OBVIOUS
<1>1. PICK c \in Contents : hist = [r \in Revs |-> IF r = 1 THEN c ELSE Absent]
  BY DEF Init
<1>2. hist[1] \in Contents /\ <<{}>>[1] = {} /\ {} \in Contents
  BY <1>1, Values
<1> QED BY <1>2 DEF Init, Promising, Opened, Promised!Init, Promised!Contents, Contents

\* Where copies are not to be trusted nothing happens.
LEMMA HiddenStutters ==
  ASSUME ~Trusted, UNCHANGED setting
  PROVE  UNCHANGED Promised!vars
BY DEF Trusted, Uncleaned, setting, Promising, Promised!vars

\* Otherwise the file is the one of the cache.
LEMMA Seen ==
  ASSUME Trusted, UNCHANGED setting
  PROVE  /\ Promising(rev, 1) = rev /\ Promising(rev, 1)' = rev'
         /\ Promising(hist, <<{}>>) = hist /\ Promising(hist, <<{}>>)' = hist'
         /\ Promising(entry.remote, 1) = entry.remote /\ Promising(entry.remote, 1)' = entry'.remote
         /\ Promising(Opened, NoHandle) = Opened /\ Promising(Opened, NoHandle)' = Opened'
BY DEF Trusted, Uncleaned, setting, Promising

\* What a handle is to StoredFile.
LEMMA OpenedIs ==
  ASSUME CacheInv, Trusted
  PROVE  /\ handle = NoHandle => Opened = NoHandle
         /\ handle # NoHandle /\ handle.mode = "r" =>
              /\ Opened = [since |-> handle.name, sees |-> cached[handle.name]]
              /\ Opened # NoHandle /\ handle.name \in Names
         /\ handle # NoHandle /\ handle.mode # "r" =>
              /\ handle.mode = "w" /\ handle.name \in Names /\ handle \in Handle
              /\ Opened = [since |-> handle.name, wrote |-> handle.wrote, stored |-> handle.flushed]
              /\ Opened # NoHandle
<1>1. handle = NoHandle => Opened = NoHandle
  BY DEF Opened
<1>2. ASSUME handle # NoHandle
      PROVE  handle \in Handle /\ handle.name \in Revs /\ handle.name \in Names /\ handle.mode \in {"r", "w"}
             /\ handle.wrote \in Contents /\ handle.flushed \in BOOLEAN
  BY <1>2, Values DEF CacheInv, TypeInv, HandleTyped, Handle
<1>3. ASSUME handle # NoHandle, handle.mode = "r"
      PROVE  Opened = [since |-> handle.name, sees |-> cached[handle.name]] /\ Opened # NoHandle
  <2>1. cached[handle.name] # Absent
    BY <1>3 DEF CacheInv, TypeInv, CopyTyped
  <2>2. PICK q \in handle.name .. rev : cached[handle.name] = hist[q]
    BY <1>2, <1>3, <2>1 DEF CacheInv, TypeInv, JobTyped, Sound, CachedSound
  <2>3. q \in 1 .. rev
    BY <1>2, <1>3, <2>2, Values
  <2>4. cached[handle.name] \in Contents
    BY <2>2, <2>3 DEF CacheInv, Sound, HistSound
  <2>5. [since |-> handle.name, sees |-> cached[handle.name]] \in [since : Revs, sees : Contents]
    BY <1>2, <1>3, <2>4
  <2> QED BY <1>3, <2>5, HandleAssumption DEF Opened
<1>4. ASSUME handle # NoHandle, handle.mode # "r"
      PROVE  /\ Opened = [since |-> handle.name, wrote |-> handle.wrote, stored |-> handle.flushed]
             /\ Opened # NoHandle
  <2>1. [since |-> handle.name, wrote |-> handle.wrote, stored |-> handle.flushed]
          \in [since : Revs, wrote : Contents, stored : BOOLEAN]
    BY <1>2, <1>4
  <2> QED BY <1>4, <2>1, HandleAssumption DEF Opened
<1> QED BY <1>1, <1>2, <1>3, <1>4

\* Steps of an open: none, or the open of StoredFile.
LEMMA OpenRefines ==
  ASSUME CacheInv, Trusted, OpenCached \/ OpenFresh \/ OpenStep
  PROVE  [Promised!Next]_(Promised!vars)
<1>1. UNCHANGED <<remote, setting>>
  BY DEF OpenCached, OpenFresh, OpenStep, GetUpdates, ApplyPatch, PatchesDone, GetLinks, Download,
         CheckIntegrity
<1>2. handle = NoHandle
  BY JobOpening DEF OpenCached, OpenFresh, OpenStep, GetUpdates, ApplyPatch, PatchesDone, GetLinks,
                    Download, CheckIntegrity, Opening
<1>8. job.pc # "crashed"
  BY IdleTyped DEF OpenCached, OpenFresh, OpenStep, GetUpdates, ApplyPatch, PatchesDone, GetLinks, Download,
                   CheckIntegrity
<1>3. \/ UNCHANGED <<entry, handle>>
      \/ Deliver("w")
      \/ Deliver("r") /\ UNCHANGED cached /\ cached[entry.remote] # Absent
  <2>1. Intact(cached[entry.remote]) => cached[entry.remote] # Absent
    BY Values DEF Intact, CacheInv, TypeInv, EntryTyped, Entries
  <2> QED BY <2>1 DEF OpenCached, OpenFresh, OpenStep, GetUpdates, ApplyPatch, PatchesDone, GetLinks,
              Download, CheckIntegrity, Retrieve, OpenFails, disk
<1>4. rev' = rev /\ hist' = hist
  BY <1>1 DEF remote
<1>5. CASE UNCHANGED <<entry, handle>>
  <2>1. Opened = NoHandle /\ Opened' = NoHandle
    BY <1>2, <1>5 DEF Opened
  <2> QED BY <1>1, <1>4, <1>5, <2>1, Seen DEF Promised!vars
<1>6. CASE Deliver("w")
  <2>1. handle' # NoHandle /\ handle'.mode = "w" /\ handle'.name = entry.remote
        /\ handle'.flushed = TRUE /\ handle'.wrote = {} /\ entry'.remote = entry.remote
    BY <1>1, <1>6, Delivers DEF CacheInv, Deliver
  <2>2. Opened = NoHandle /\ Opened' = [since |-> entry.remote, wrote |-> {}, stored |-> TRUE]
    BY <1>2, <2>1 DEF Opened
  <2>3. Promised!OpenWrite
    BY <1>1, <1>4, <2>1, <2>2, Seen DEF Promised!OpenWrite, Promised!Writer
  <2> QED BY <2>3 DEF Promised!Next
<1>7. CASE Deliver("r") /\ UNCHANGED cached /\ cached[entry.remote] # Absent
  <2>1. handle' # NoHandle /\ handle'.mode = "r" /\ handle'.name = entry.remote
        /\ entry'.remote = entry.remote
    BY <1>1, <1>7, Delivers DEF CacheInv
  <2>2. Opened = NoHandle /\ Opened' = [since |-> entry.remote, sees |-> cached[entry.remote]]
    BY <1>2, <1>7, <2>1 DEF Opened
  <2>3. entry.remote \in Revs
    BY DEF CacheInv, TypeInv, EntryTyped, Entries
  <2>4. PICK r \in entry.remote .. rev : cached[entry.remote] = hist[r]
    BY <1>7, <1>8, <2>3 DEF CacheInv, Sound, CachedSound
  <2>5. Promised!OpenRead
    BY <1>1, <1>4, <2>1, <2>2, <2>4, Seen DEF Promised!OpenRead, Promised!Reader
  <2> QED BY <2>5 DEF Promised!Next
<1> QED BY <1>3, <1>5, <1>6, <1>7

LEMMA ServiceRefines ==
  ASSUME CacheInv, Trusted, OtherStores \/ Complete \/ Truncate
  PROVE  [Promised!Next]_(Promised!vars)
<1>1. UNCHANGED <<entry, Opened, setting>>
  BY DEF OtherStores, Complete, Truncate, Opened, disk
<1>2. (\E c \in Contents : Store(c)) \/ UNCHANGED <<rev, hist>>
  <2>1. hist[rev] \in Contents /\ pending # Junk /\ pending \in Files
    BY NumbersTyped DEF CacheInv, TypeInv, RemoteTyped, Sound, HistSound
  <2> QED BY <2>1, Values DEF OtherStores, Complete, Truncate, Edited, Contents, Files
<1>3. CASE UNCHANGED <<rev, hist>>
  BY <1>1, <1>3, Seen DEF Promised!vars
<1>4. ASSUME NEW c \in Contents, Store(c) PROVE Promised!Change
  BY <1>1, <1>4, Seen DEF Store, Promised!Change, Promised!Store, Promised!Contents, Contents
<1> QED BY <1>2, <1>3, <1>4 DEF Promised!Next

LEMMA OthersRefine ==
  ASSUME CacheInv, Trusted, Learn \/ FlushUpdates \/ Release \/ Unmount \/ Crash \/ Mount
  PROVE  [Promised!Next]_(Promised!vars)
<1>0. UNCHANGED <<rev, hist, setting>>
  BY DEF Learn, FlushUpdates, Release, Unmount, Crash, Mount, remote
<1>1. CASE Learn \/ FlushUpdates
  <2>1. UNCHANGED Opened /\ entry'.remote \in {entry.remote, rev}
    BY <1>1, KnownTyped DEF CacheInv, TypeInv, Learn, FlushUpdates, UpdateEntry, Opened, disk, remote
  <2> QED BY <1>0, <2>1, Seen DEF Promised!Next, Promised!Learn, Promised!vars
<1>2. CASE Release \/ Unmount \/ Crash
  <2>1. handle' = NoHandle
    BY <1>2 DEF Release, Unmount, Crash
  <2>2. entry'.remote \in {entry.remote, rev}
    BY <1>2, KnownTyped DEF CacheInv, TypeInv, Release, UpdateEntry, Unmount, Crash
  <2>3. Opened' = NoHandle
    BY <2>1 DEF Opened
  <2>4. Promised!Close
    BY <1>0, <2>2, <2>3, Seen DEF Promised!Close
  <2> QED BY <2>4 DEF Promised!Next
<1>3. CASE Mount
  <2>1. handle = NoHandle /\ handle' = NoHandle /\ entry' \in Entries /\ entry'.remote <= rev /\ rev \in Nat
    BY <1>3, MountLeaves, NumbersTyped DEF CacheInv
  <2>2. entry'.remote \in 1 .. rev
    BY <2>1, Values DEF Entries
  <2>3. Promised!Mount
    BY <1>0, <2>1, <2>2, Seen DEF Promised!Mount, Opened
  <2> QED BY <2>3 DEF Promised!Next
<1> QED BY <1>1, <1>2, <1>3

LEMMA WriteRefines ==
  ASSUME CacheInv, Trusted, Write
  PROVE  Promised!Next
<1>0. UNCHANGED <<setting, rev, hist, entry>>
  BY DEF Write, remote
<1>1. handle \in Handle /\ handle.mode = "w" /\ handle # NoHandle
  BY DEF Write, Writable, CacheInv, TypeInv, HandleTyped
<1>2. PICK e \in Edits : handle' = [handle EXCEPT !.flushed = FALSE, !.wrote = @ \cup {e}]
  BY DEF Write
<1>3. /\ handle' \in Handle /\ handle'.mode = "w" /\ handle'.name = handle.name
      /\ handle'.wrote = handle.wrote \cup {e} /\ handle'.flushed = FALSE
  BY <1>1, <1>2 DEF Handle, Contents
<1>4. Opened' = [since |-> handle.name, wrote |-> handle.wrote \cup {e}, stored |-> FALSE]
  BY <1>3, HandleAssumption DEF Opened
<1>5. Opened = [since |-> handle.name, wrote |-> handle.wrote, stored |-> handle.flushed]
      /\ Opened # NoHandle
  BY <1>1, OpenedIs
<1>6. Opened' = [Opened EXCEPT !.wrote = @ \cup {e}, !.stored = FALSE] /\ "wrote" \in DOMAIN Opened
  <2>1. PICK f : f = FALSE
    OBVIOUS
  <2>2. PICK o : o = Opened
    OBVIOUS
  <2>3. PICK oo : oo = Opened'
    OBVIOUS
  <2>4. PICK w : w = handle.wrote
    OBVIOUS
  <2>5. PICK ww : ww = w \cup {e}
    OBVIOUS
  <2>6. PICK b : b = handle.flushed
    OBVIOUS
  <2>7. PICK r : r = handle.name
    OBVIOUS
  <2>8. o = [since |-> r, wrote |-> w, stored |-> b]
        /\ oo = [since |-> r, wrote |-> ww, stored |-> f]
    BY <1>4, <1>5, <2>1, <2>2, <2>3, <2>4, <2>5, <2>6, <2>7, Zenon
  <2>9. [o EXCEPT !.wrote = ww] = [since |-> r, wrote |-> ww, stored |-> b]
    BY <2>8
  <2>10. [[since |-> r, wrote |-> ww, stored |-> b] EXCEPT !.stored = f] = oo
    BY <2>8
  <2>11. [o EXCEPT !.wrote = ww, !.stored = f] = [[o EXCEPT !.wrote = ww] EXCEPT !.stored = f]
    BY <2>8
  <2>12. oo = [o EXCEPT !.wrote = ww, !.stored = f]
    BY <2>9, <2>10, <2>11, Zenon
  <2>13. o.wrote = w /\ "wrote" \in DOMAIN o
    BY <2>8
  <2> QED BY <2>1, <2>2, <2>3, <2>4, <2>5, <2>12, <2>13, Zenon
<1>7. Promised!Write
  BY <1>0, <1>5, <1>6, Seen DEF Promised!Write, Promised!Writing
<1> QED BY <1>7 DEF Promised!Next

\* A flush that reports success.
LEMMA FlushedRefines ==
  ASSUME CacheInv, Trusted, Writable, UNCHANGED <<rev, hist, entry, disk, setting>>,
         handle' = [handle EXCEPT !.flushed = TRUE],
         NEW r \in handle.name .. rev, handle.wrote \subseteq hist[r]
  PROVE  Promised!Flush
<1>1. handle \in Handle /\ handle.mode = "w" /\ handle # NoHandle
  BY NumbersTyped DEF Writable, CacheInv
<1>2. /\ Opened = [since |-> handle.name, wrote |-> handle.wrote, stored |-> handle.flushed]
      /\ Opened # NoHandle /\ handle.name \in Names
  BY <1>1, OpenedIs
<1>3. Opened' = [Opened EXCEPT !.stored = TRUE] /\ "wrote" \in DOMAIN Opened
      /\ Opened.wrote = handle.wrote /\ Opened.since = handle.name
  <2>1. handle' \in Handle /\ handle'.mode = "w" /\ handle'.name = handle.name
        /\ handle'.wrote = handle.wrote /\ handle'.flushed = TRUE
    BY <1>1 DEF Handle
  <2>2. Opened' = [since |-> handle.name, wrote |-> handle.wrote, stored |-> TRUE]
    BY <2>1, HandleAssumption DEF Opened
  <2>3. PICK t : t = TRUE
    OBVIOUS
  <2>4. PICK o : o = Opened
    OBVIOUS
  <2>5. PICK oo : oo = Opened'
    OBVIOUS
  <2>6. PICK b : b = handle.flushed
    OBVIOUS
  <2>7. PICK n : n = handle.name
    OBVIOUS
  <2>8. PICK w : w = handle.wrote
    OBVIOUS
  <2>9. o = [since |-> n, wrote |-> w, stored |-> b]
        /\ oo = [since |-> n, wrote |-> w, stored |-> t]
    BY <1>2, <2>2, <2>3, <2>4, <2>5, <2>6, <2>7, <2>8, Zenon
  <2>10. oo = [o EXCEPT !.stored = t]
    BY <2>9
  <2>11. o.wrote = w /\ o.since = n /\ "wrote" \in DOMAIN o
    BY <2>9
  <2> QED BY <2>3, <2>4, <2>5, <2>7, <2>8, <2>10, <2>11, Zenon
<1> QED BY <1>2, <1>3, Seen DEF Promised!Flush, Promised!Writing

LEMMA FlushRefines ==
  ASSUME CacheInv, OrderInv, Trusted, Flush \/ FlushPolls
  PROVE  [Promised!Next]_(Promised!vars)
<1>1. /\ UNCHANGED <<entry, disk, setting, rev, hist>> /\ Writable /\ job.pc # "crashed"
      /\ handle.name \in Nat /\ handle.name >= 1 /\ handle.name \in Revs
  <2>1. UNCHANGED <<entry, disk, setting, rev, hist>> /\ Writable /\ job.pc # "crashed"
    BY IdleTyped DEF Flush, FlushPolls, UploadPatch, FlushFails, FlushSucceeds, Upload, Sends, Poll, remote,
                     CacheInv, TypeInv, JobTyped
  <2> QED BY <2>1, NumbersTyped DEF Writable, CacheInv, Handle
<1>2. CASE UNCHANGED handle
  <2>1. UNCHANGED Opened
    BY <1>1, <1>2 DEF Opened, disk
  <2> QED BY <1>1, <2>1, Seen DEF Promised!vars
<1>3. CASE Flush /\ handle' = [handle EXCEPT !.flushed = TRUE] /\ Source # Absent /\ Unchanged
  <2>1. entry.local = handle.name /\ handle.wrote \subseteq Target
    BY <1>1, <1>3, TargetIs DEF Unchanged
  <2>2. PICK q \in handle.name .. rev : cached[handle.name] = hist[q]
    BY <1>1, <1>3, <2>1 DEF Source, CacheInv, Sound, CachedSound
  <2>3. handle.wrote \subseteq hist[q]
    BY <1>3, <2>1, <2>2 DEF Source, Unchanged
  <2> QED BY <1>1, <1>3, <2>2, <2>3, FlushedRefines DEF Promised!Next
<1>4. CASE FlushPolls /\ handle' = [handle EXCEPT !.flushed = TRUE] /\ pending = Absent
  <2>1. PICK q \in handle.name .. rev : hist[q] = Junk \/ handle.wrote \subseteq hist[q]
    BY <1>4 DEF FlushPolls, OrderInv, SentHas
  <2>2. q \in 1 .. rev
    BY <1>1, <2>1
  <2>3. handle.wrote \subseteq hist[q]
    BY <2>1, <2>2, Values DEF CacheInv, Sound, HistSound
  <2> QED BY <1>1, <1>4, <2>1, <2>3, FlushedRefines DEF Promised!Next
<1> QED BY <1>2, <1>3, <1>4
        DEF Flush, FlushPolls, UploadPatch, FlushFails, FlushSucceeds, Upload, Poll

LEMMA TruncateRefines ==
  ASSUME CacheInv, Trusted, TruncateLocal
  PROVE  [Promised!Next]_(Promised!vars)
<1>1. /\ UNCHANGED <<setting, rev, hist>> /\ entry'.remote = entry.remote /\ job.pc = "truncate"
      /\ entry.local \in Nat /\ entry.remote \in Nat /\ entry.local <= entry.remote /\ rev \in Nat
  BY TruncationLeaves, NumbersTyped DEF TruncateLocal, remote, CacheInv
<1>2. PICK q \in entry.remote .. rev : hist[q] = {}
  BY <1>1 DEF CacheInv, Sound, TruncationSound
<1>3. CASE Opened' = Opened
  BY <1>1, <1>3, Seen DEF Promised!vars
<1>4. CASE handle = NoHandle
  BY <1>3, <1>4, TruncationLeaves DEF Opened, CacheInv
<1>5. CASE handle # NoHandle /\ handle.mode = "r"
  <2>1. handle' = handle /\ handle.name \in Names /\ handle.name \in Nat /\ handle.name <= entry.local
        /\ Opened = [since |-> handle.name, sees |-> cached[handle.name]] /\ Opened # NoHandle
    BY <1>5, OpenedIs, TruncationLeaves, NumbersTyped DEF CacheInv, TypeInv, CopyTyped
  <2>2. cached'[handle.name] \in {cached[handle.name], {}}
    BY <2>1, TruncationLeaves DEF CacheInv
  <2>3. Opened' = [since |-> handle.name, sees |-> cached'[handle.name]]
    BY <1>5, <2>1 DEF Opened
  <2>4. Opened' = Opened \/ (Opened' = [Opened EXCEPT !.sees = {}] /\ "sees" \in DOMAIN Opened
                             /\ Opened.since = handle.name)
    BY <2>1, <2>2, <2>3
  <2>5. q \in handle.name .. rev
    BY <1>1, <1>2, <2>1
  <2>6. ASSUME Opened' # Opened PROVE Promised!Truncate
    BY <1>1, <1>2, <2>1, <2>4, <2>5, <2>6, Seen DEF Promised!Truncate, Promised!Reading
  <2> QED BY <1>3, <2>6 DEF Promised!Next
<1>6. CASE handle # NoHandle /\ handle.mode # "r"
  <2>1. /\ handle \in Handle /\ handle.mode = "w"
        /\ Opened = [since |-> handle.name, wrote |-> handle.wrote, stored |-> handle.flushed]
        /\ Opened # NoHandle /\ handle.name \in Nat /\ handle.name <= entry.local
    BY <1>6, OpenedIs, NumbersTyped DEF CacheInv, TypeInv, CopyTyped
  <2>2. CASE handle' = handle
    <3>1. Opened' = Opened
      BY <1>6, <2>1, <2>2 DEF Opened
    <3> QED BY <1>3, <3>1
  <2>3. CASE handle'.wrote = {} /\ handle' # handle
    <3>1. /\ handle' \in Handle /\ handle'.mode = "w" /\ handle'.name = handle.name
          /\ handle'.wrote = {} /\ handle'.flushed = handle.flushed /\ handle' # NoHandle
      BY <1>6, <2>1, <2>3, TruncationLeaves DEF CacheInv
    <3>2. Opened' = [since |-> handle.name, wrote |-> {}, stored |-> handle.flushed]
      BY <3>1 DEF Opened
    <3>3. Opened' = [Opened EXCEPT !.wrote = {}] /\ "wrote" \in DOMAIN Opened /\ Opened.since = handle.name
      BY <2>1, <3>2
    <3>4. q \in handle.name .. rev
      BY <1>1, <1>2, <2>1
    <3>5. Promised!Truncate
      BY <1>1, <1>2, <2>1, <3>3, <3>4, Seen DEF Promised!Truncate, Promised!Writing
    <3> QED BY <3>5 DEF Promised!Next
  <2> QED BY <1>6, <2>2, <2>3, TruncationLeaves DEF CacheInv
<1> QED BY <1>4, <1>5, <1>6

LEMMA StepRefines == CacheInv /\ OrderInv /\ [Next]_vars => [Promised!Next]_(Promised!vars)
<1> SUFFICES ASSUME CacheInv, OrderInv, [Next]_vars PROVE [Promised!Next]_(Promised!vars)
  OBVIOUS
<1>1. CASE UNCHANGED vars
  BY <1>1 DEF vars, remote, disk, setting, Promised!vars, Promising, Trusted, Uncleaned, Opened
<1>2. CASE Next /\ ~Trusted
  <2>1. UNCHANGED setting
    BY <1>2 DEF Next, OtherStores, Complete, Learn, OpenCached, OpenFresh, OpenStep, GetUpdates, ApplyPatch,
                PatchesDone, GetLinks, Download, CheckIntegrity, Write, Flush, FlushPolls, FlushUpdates,
                Release, Truncate, TruncateLocal, Unmount, Crash, Mount
  <2> QED BY <1>2, <2>1, HiddenStutters
<1>3. CASE Next /\ Trusted
  BY <1>3, OpenRefines, ServiceRefines, OthersRefine, WriteRefines, FlushRefines, TruncateRefines DEF Next
<1> QED BY <1>1, <1>2, <1>3

\* The cache, with its copies, patches, downloads and polls, failing calls, other
\* clients, truncations, unmounts and crashes anywhere, implements the file of
\* StoredFile: what a reader sees and what a reported flush has stored is never
\* anything StoredFile does not allow (filecache_open_file and
\* filecache_upload_patch).
THEOREM CacheImplements == Spec => Implements
BY PromisedInit, StepRefines, OrderInductive, PTL DEF Spec, Implements, Promised!Spec
-----------------------------------------------------------------------------
(* What gets to the service, when no copy is cut short.                    *)

Unrestarted == ops \cap {"remount", "crash"} = {}

\* What the service has, and what it was sent, is contents.
HomeHist == pending # Junk /\ \A r \in 1 .. rev : hist[r] \in Contents

\* What a copy holds the service has had, or it is nothing, or Junk: until the
\* cleanup after a crash, or if there are no restarts.  A copy for writing is
\* Junk only beside an original that is, which nothing replaces: patches and
\* downloads make copies of later revisions.
HomeCopy(r) ==
  /\ cached[r] = Junk => Unrestarted \/ job.pc = "crashed"
  /\ fresh[r] = Junk => Unrestarted /\ cached[r] = Junk /\ r <= entry.local
  /\ cached[r] \in {Absent, Junk, {}} \/ \E q \in 1 .. rev : r <= q /\ cached[r] = hist[q]
HomeCopies == entry.data # Junk /\ \A r \in Names : HomeCopy(r)

HomeJob ==
  /\ job.pc \in {"updates", "patch"} => entry.local <= job.last
  /\ job.pc \in {"updates", "links", "http"} => fresh[entry.remote] # Junk
  /\ \A i \in 1 .. Len(job.todo) : job.todo[i][1] < job.todo[i][2]

HomeHandle ==
  Writable /\ handle.flushed => \E r \in 1 .. rev : handle.name <= r /\ handle.wrote \subseteq hist[r]

Home == HomeHist /\ HomeCopies /\ HomeJob /\ HomeHandle
HomeInv == Uncut => Home

LEMMA HomeRemote ==
  ASSUME CacheInv, HomeHist, UNCHANGED <<rev, hist>> \/ \E c \in Contents : Store(c),
         pending' \in Files \ {Junk}
  PROVE  Grows /\ HomeHist'
<1>1. CASE UNCHANGED <<rev, hist>>
  BY <1>1, RemoteStays DEF CacheInv, TypeInv, HomeHist
<1>2. ASSUME NEW c \in Contents, Store(c) PROVE Grows /\ HomeHist'
  <2>1. Grows /\ hist'[rev'] = c /\ \A r \in 1 .. rev' : r = rev' \/ r \in 1 .. rev
    BY <1>2, StoreKeeps DEF CacheInv, TypeInv
  <2> QED BY <1>2, <2>1 DEF Grows, HomeHist
<1> QED BY <1>1, <1>2

\* The copies stay; the entry may move to later revisions.
LEMMA CopiesStay ==
  ASSUME CacheInv, HomeCopies, Grows, UNCHANGED <<disk, setting>>,
         job.pc = "crashed" => job'.pc = "crashed",
         entry'.local \in Nat, entry.local <= entry'.local, entry'.data # Junk
  PROVE  HomeCopies'
<1>1. entry.local \in Nat /\ UNCHANGED <<cached, fresh, ops>> /\ \A r \in Names : r \in Nat
  BY NumbersTyped, Values DEF CacheInv, disk, setting
<1>2. ASSUME NEW r \in Names PROVE HomeCopy(r)'
  <2>1. HomeCopy(r) /\ r \in Nat
    BY <1>1 DEF HomeCopies
  <2>2. cached[r] \in {Absent, Junk, {}} \/ \E q \in 1 .. rev' : r <= q /\ cached[r] = hist'[q]
    BY <2>1 DEF HomeCopy, Grows
  <2> QED BY <1>1, <2>1, <2>2 DEF HomeCopy, Unrestarted
<1> QED BY <1>2 DEF HomeCopies

\* The handle stays, or there is none; what it was flushed to stays.
LEMMA HandleStays ==
  ASSUME HomeHandle, Grows, handle' \in {handle, NoHandle}
  PROVE  HomeHandle'
BY DEF HomeHandle, Writable, Grows

LEMMA HomeService ==
  ASSUME CacheInv, Home, OtherStores \/ Complete \/ Truncate
  PROVE  Home'
<1>1. UNCHANGED <<entry, disk, handle, setting>> /\ (UNCHANGED job \/ (job = Idle /\ job' = Truncating))
  BY DEF OtherStores, Complete, Truncate
<1>2. hist[rev] \in Contents /\ pending \in Files \ {Junk}
  BY NumbersTyped DEF CacheInv, TypeInv, RemoteTyped, Home, HomeHist
<1>3. (\E c \in Contents : Store(c)) \/ UNCHANGED <<rev, hist>>
  BY <1>2, Values DEF OtherStores, Complete, Truncate, Edited, Contents
<1>4. pending' \in Files \ {Junk}
  BY <1>2, Values DEF OtherStores, Complete, Truncate
<1>5. Grows /\ HomeHist' /\ HomeHandle'
  BY <1>1, <1>3, <1>4, HomeRemote, HandleStays DEF Home
<1>6. HomeCopies'
  BY <1>1, <1>5, CopiesStay, IdleTyped, NumbersTyped DEF Home, HomeCopies, CacheInv
<1>7. HomeJob'
  <2>1. CASE UNCHANGED job
    BY <1>1, <2>1 DEF Home, HomeJob, disk
  <2>2. CASE job' = Truncating
    BY <2>2, IdleTyped DEF Truncating, Down, HomeJob
  <2> QED BY <1>1, <2>1, <2>2
<1> QED BY <1>5, <1>6, <1>7 DEF Home

LEMMA HomeEntry ==
  ASSUME CacheInv, Home, Learn \/ FlushUpdates \/ Release \/ Unmount
  PROVE  Home'
<1>1. job' \in {Idle, Closing(job.closing), Down("unmounted")} /\ entry' \in {entry, Known}
      /\ handle' \in {handle, NoHandle} /\ UNCHANGED <<remote, disk, setting>> /\ job.pc # "crashed"
  BY IdleTyped DEF Learn, FlushUpdates, Release, Unmount, UpdateEntry
<1>2. job'.pc \notin Opening /\ Len(job'.todo) = 0
  <2>1. job.closing \in BOOLEAN
    BY DEF CacheInv, TypeInv, JobTyped, Jobs
  <2> QED BY <1>1, <2>1, ClosingTyped, IdleTyped DEF Opening
<1>3. entry'.local = entry.local /\ entry'.data # Junk
  <2>1. hist[rev] # Junk
    BY NumbersTyped, Values DEF CacheInv, Home, HomeHist
  <2>2. entry.data # Junk
    BY DEF Home, HomeCopies
  <2> QED BY <1>1, <2>1, <2>2, KnownTyped DEF CacheInv, TypeInv
<1>4. Grows /\ HomeHist' /\ HomeHandle'
  BY <1>1, RemoteStays, HandleStays DEF Home, HomeHist, remote, CacheInv, TypeInv
<1>5. HomeCopies'
  BY <1>1, <1>3, <1>4, CopiesStay, NumbersTyped DEF Home, CacheInv
<1>6. HomeJob'
  BY <1>2 DEF HomeJob, Opening
<1> QED BY <1>4, <1>5, <1>6 DEF Home

\* The end of an open: the copy for writing, if it is made now, is that of the
\* revision of the entry.
LEMMA HomeDelivers ==
  ASSUME CacheInv, Home, job.pc # "crashed", NEW m \in {"r", "w"}, Deliver(m),
         UNCHANGED <<remote, cached, setting>>, job' = Idle,
         \/ UNCHANGED fresh
         \/ fresh' = [fresh EXCEPT ![entry.remote] = cached[entry.remote]]
  PROVE  Home'
<1>1. /\ handle'.mode = m /\ handle'.name = entry.remote /\ handle'.wrote = {}
      /\ entry'.remote = entry.remote /\ entry'.local = entry.remote /\ entry'.data = entry.data
  BY Delivers DEF CacheInv
<1>2. /\ entry.local \in Nat /\ entry.remote \in Nat /\ entry.local <= entry.remote
      /\ entry.remote \in Names /\ entry.remote \in 1 .. rev /\ \A r \in Names : r \in Nat
      /\ UNCHANGED <<rev, hist, pending, ops>> /\ fresh \in [Names -> Files]
  BY NumbersTyped, Values DEF CacheInv, TypeInv, DiskTyped, remote, setting
<1>3. HomeHist'
  BY <1>2 DEF Home, HomeHist
<1>4. ASSUME NEW r \in Names PROVE HomeCopy(r)'
  <2>1. HomeCopy(r) /\ r \in Nat /\ (fresh'[r] = fresh[r] \/ (r = entry.remote /\ fresh'[r] = cached[r]))
    BY <1>2 DEF Home, HomeCopies
  <2> QED BY <1>1, <1>2, <2>1 DEF HomeCopy, Unrestarted
<1>5. HomeCopies'
  BY <1>1, <1>4 DEF Home, HomeCopies
<1>6. HomeJob'
  BY IdleTyped DEF HomeJob
<1>7. HomeHandle'
  BY <1>1, <1>2 DEF HomeHandle
<1> QED BY <1>3, <1>5, <1>6, <1>7 DEF Home

\* The steps of an open that leave the copies alone.
LEMMA HomeProceeds ==
  ASSUME CacheInv, Home, job.pc # "crashed", UNCHANGED <<remote, entry, handle, setting, disk>>, HomeJob'
  PROVE  Home'
<1>1. Grows /\ HomeHist' /\ HomeHandle'
  BY RemoteStays, HandleStays DEF Home, HomeHist, remote, CacheInv, TypeInv
<1>2. HomeCopies'
  BY <1>1, CopiesStay, NumbersTyped DEF Home, HomeCopies, CacheInv
<1> QED BY <1>1, <1>2 DEF Home

\* The same, when a copy is made: of a revision whose copy for writing is no Junk.
LEMMA HomeCopied ==
  ASSUME CacheInv, Home, job.pc # "crashed", UNCHANGED <<remote, fresh, entry, handle, setting>>, HomeJob',
         NEW r \in Names, fresh[r] # Junk, NEW c,
         cached' = [cached EXCEPT ![r] = c],
         c = Junk => Unrestarted,
         c \in {Junk, {}} \/ \E q \in 1 .. rev : r <= q /\ c = hist[q]
  PROVE  Home'
<1>1. Grows /\ HomeHist' /\ HomeHandle'
  BY RemoteStays, HandleStays DEF Home, HomeHist, remote, CacheInv, TypeInv
<1>2. /\ UNCHANGED <<rev, hist, ops>> /\ cached \in [Names -> Files]
  BY DEF CacheInv, TypeInv, DiskTyped, remote, setting
<1>3. cached'[r] = c /\ \A s \in Names : s # r => cached'[s] = cached[s]
  BY <1>2
<1>4. ASSUME NEW s \in Names PROVE HomeCopy(s)'
  <2>1. HomeCopy(s)
    BY DEF Home, HomeCopies
  <2>2. CASE s = r
    BY <1>2, <1>3, <2>1, <2>2 DEF HomeCopy, Unrestarted
  <2>3. CASE s # r
    BY <1>2, <1>3, <2>1, <2>3 DEF HomeCopy, Unrestarted
  <2> QED BY <2>2, <2>3
<1>5. HomeCopies'
  BY <1>4 DEF Home, HomeCopies
<1> QED BY <1>1, <1>5 DEF Home

LEMMA RetrieveHome ==
  ASSUME CacheInv, Home, NEW m, Retrieve(m), fresh'[entry.remote] # Junk
  PROVE  HomeJob'
<1>1. PICK l \in {"updates", "links"} : job' = [Idle EXCEPT !.pc = l, !.mode = m, !.last = entry.local]
  BY DEF Retrieve
<1>2. job'.pc = l /\ job'.last = entry.local /\ Len(job'.todo) = 0 /\ entry' = entry /\ entry.local \in Nat
  BY <1>1, IdleTyped, NumbersTyped DEF Idle, Retrieve, CacheInv
<1> QED BY <1>1, <1>2 DEF HomeJob

LEMMA FailsHome == OpenFails => HomeJob'
BY IdleTyped DEF OpenFails, HomeJob

LEMMA HomeOpens ==
  ASSUME CacheInv, Home, Uncut, OpenCached \/ OpenFresh
  PROVE  Home'
<1>1. job = Idle /\ job.pc # "crashed" /\ UNCHANGED <<remote, cached, setting>>
  BY IdleTyped DEF OpenCached, OpenFresh, disk
<1>2. entry.remote \in Names /\ fresh \in [Names -> Files]
  BY NumbersTyped DEF CacheInv, TypeInv, DiskTyped
<1>3. cached[entry.remote] = Absent => fresh[entry.remote] # Junk
  BY <1>2, Values DEF Home, HomeCopies, HomeCopy
<1>4. CASE OpenCached
  <2>1. UNCHANGED <<fresh, disk>>
    BY <1>4 DEF OpenCached, disk
  <2>2. CASE Deliver("r") /\ UNCHANGED job
    BY <1>1, <2>1, <2>2, HomeDelivers
  <2>3. CASE cached[entry.remote] = Absent /\ Retrieve("r")
    <3>1. HomeJob' /\ UNCHANGED <<entry, handle>>
      BY <1>3, <2>1, <2>3, RetrieveHome DEF Retrieve
    <3> QED BY <1>1, <2>1, <3>1, HomeProceeds
  <2> QED BY <1>4, <2>2, <2>3 DEF OpenCached
<1>5. CASE OpenFresh
  <2>1. CASE Deliver("w") /\ UNCHANGED <<fresh, job>>
    BY <1>1, <2>1, HomeDelivers
  <2>2. CASE /\ \E c \in CopyOf(cached[entry.remote]) : fresh' = OpenFreshCreated(c)
             /\ Deliver("w") /\ UNCHANGED job
    <3>1. fresh' = [fresh EXCEPT ![entry.remote] = cached[entry.remote]]
      BY <2>2 DEF CopyOf, OpenFreshCreated, Uncut
    <3> QED BY <1>1, <2>2, <3>1, HomeDelivers
  <2>3. CASE fresh' = OpenFreshCreated({}) /\ Retrieve("w")
    <3>1. fresh'[entry.remote] = {} /\ \A r \in Names : r # entry.remote => fresh'[r] = fresh[r]
      BY <1>2, <2>3 DEF OpenFreshCreated
    <3>2. HomeJob' /\ UNCHANGED <<entry, handle>>
      BY <2>3, <3>1, Values, RetrieveHome DEF Retrieve
    <3>3. HomeHist' /\ HomeHandle'
      BY <1>1, <3>2, RemoteStays, HandleStays DEF Home, HomeHist, remote, CacheInv, TypeInv
    <3>4. HomeCopies'
      <4>1. UNCHANGED <<rev, hist, cached, ops>>
        BY <1>1 DEF remote, setting
      <4>2. ASSUME NEW r \in Names PROVE HomeCopy(r)'
        <5>1. HomeCopy(r) /\ (fresh'[r] = fresh[r] \/ fresh'[r] = {})
          BY <3>1 DEF Home, HomeCopies
        <5> QED BY <1>1, <3>2, <4>1, <5>1, Values DEF HomeCopy, Unrestarted
      <4> QED BY <3>2, <4>2 DEF Home, HomeCopies
    <3> QED BY <3>2, <3>3, <3>4 DEF Home
  <2> QED BY <1>5, <2>1, <2>2, <2>3 DEF OpenFresh
<1> QED BY <1>4, <1>5

LEMMA HomeUpdates ==
  ASSUME CacheInv, Home, GetUpdates \/ PatchesDone \/ GetLinks
  PROVE  Home'
<1>1. job.pc # "crashed" /\ job \in Jobs /\ UNCHANGED <<remote, disk, setting, entry, handle>>
  BY JobOpening DEF GetUpdates, PatchesDone, GetLinks, OpenFails, Opening
<1>2. UNCHANGED <<entry, fresh>> /\ HomeJob
  BY <1>1 DEF Home, disk
<1>3. ASSUME NEW list \in Offered, job.pc = "updates",
             job' = [job EXCEPT !.pc = IF list = <<>> THEN "links" ELSE "patch", !.todo = list]
      PROVE  HomeJob'
  <2>1. \A i \in 1 .. Len(list) : list[i][1] < list[i][2]
    <3>1. list \in PatchLists
      BY DEF Offered
    <3>2. CASE list = <<>>
      BY <3>2
    <3>3. ASSUME NEW p \in Patches, list = <<p>> PROVE <2>1
      BY <3>3 DEF Patches
    <3>4. ASSUME NEW p \in Patches, NEW q \in Patches, list = <<p, q>> PROVE <2>1
      BY <3>4 DEF Patches
    <3> QED BY <3>1, <3>2, <3>3, <3>4 DEF PatchLists
  <2>2. job'.pc \in {"links", "patch"} /\ job'.todo = list /\ job'.last = job.last
    <3>1. \E l \in {"links", "patch"} : job' = [job EXCEPT !.pc = l, !.todo = list]
      BY <1>3
    <3> QED BY <1>1, <3>1 DEF Jobs
  <2> QED BY <1>2, <1>3, <2>1, <2>2 DEF HomeJob
<1>4. ASSUME \E l \in {"check", "http"} : job' = [job EXCEPT !.pc = l],
             job' = [job EXCEPT !.pc = "http"] => job.pc = "links"
      PROVE  HomeJob'
  <2>1. job'.pc \in {"check", "http"} /\ job'.todo = job.todo /\ (job'.pc = "http" => job.pc = "links")
    BY <1>1, <1>4 DEF Jobs
  <2> QED BY <1>2, <2>1 DEF HomeJob
<1>5. HomeJob'
  <2>1. CASE GetUpdates
    BY <1>3, <2>1, FailsHome DEF GetUpdates
  <2>2. CASE PatchesDone
    <3>1. job' = [job EXCEPT !.pc = "check"] => job'.pc = "check"
      BY <1>1 DEF Jobs
    <3>2. job' = [job EXCEPT !.pc = "http"] => job'.pc = "http"
      BY <1>1 DEF Jobs
    <3> QED BY <1>4, <2>2, <3>1, <3>2, FailsHome DEF PatchesDone
  <2>3. CASE GetLinks
    BY <1>4, <2>3, FailsHome DEF GetLinks
  <2> QED BY <2>1, <2>2, <2>3
<1> QED BY <1>1, <1>5, HomeProceeds

LEMMA HomePatch ==
  ASSUME CacheInv, Home, Uncut, ApplyPatch
  PROVE  Home'
<1> DEFINE p == Head(job.todo)
           c == IF cached[p[1]] = hist[p[1]] THEN hist[p[2]] ELSE Junk
<1>1. job.pc # "crashed" /\ job \in Jobs /\ UNCHANGED <<remote, fresh, setting, entry, handle>>
      /\ job.pc = "patch" /\ job.todo # <<>>
  BY JobOpening DEF ApplyPatch, Opening, OpenFails
<1>2. /\ Len(job.todo) \in Nat /\ Len(job.todo) >= 1 /\ p = job.todo[1]
      /\ p \in Revs \X Revs /\ p[2] <= rev /\ Len(Tail(job.todo)) = Len(job.todo) - 1
      /\ \A i \in 1 .. Len(Tail(job.todo)) : Tail(job.todo)[i] = job.todo[i + 1]
  BY <1>1, PatchesLeft DEF CacheInv
<1>3. /\ \A i \in 1 .. Len(job.todo) : job.todo[i][1] < job.todo[i][2]
      /\ entry.local <= job.last
  BY <1>1 DEF Home, HomeJob
<1>4. p[1] < p[2] /\ p[1] \in Nat /\ p[2] \in Nat /\ p[2] \in Names /\ p[2] \in 1 .. rev /\ p[2] <= p[2]
  <2>1. p[1] < p[2]
    BY <1>2, <1>3
  <2> QED BY <1>2, <2>1, Values DEF CacheInv, TypeInv, RemoteTyped
<1> HIDE DEF p
<1>5. ASSUME Fits(p) PROVE fresh[p[2]] # Junk /\ c = hist[p[2]]
  <2>1. p[1] = job.last /\ c = hist[p[2]]
    BY <1>5 DEF Fits
  <2>2. ~(p[2] <= entry.local)
    BY <1>3, <1>4, <2>1, NumbersTyped DEF CacheInv
  <2> QED BY <1>4, <2>1, <2>2 DEF Home, HomeCopies, HomeCopy
<1> HIDE DEF c
<1>6. CASE Fits(p) /\ cached' = Patched(p, c) /\ c = hist[p[2]]
           /\ job' = [job EXCEPT !.todo = Tail(job.todo), !.last = p[2]]
  <2>1. job'.pc = "patch" /\ job'.todo = Tail(job.todo) /\ job'.last = p[2]
    BY <1>1, <1>6 DEF Jobs
  <2>2. \A i \in 1 .. Len(Tail(job.todo)) : Tail(job.todo)[i][1] < Tail(job.todo)[i][2]
    <3>1. \A i \in 1 .. Len(Tail(job.todo)) : i + 1 \in 1 .. Len(job.todo)
      BY <1>2
    <3> QED BY <1>2, <1>3, <3>1
  <2>3. entry.local <= p[2]
    BY <1>3, <1>4, <1>6, NumbersTyped DEF Fits, CacheInv
  <2>4. HomeJob'
    BY <1>1, <2>1, <2>2, <2>3 DEF HomeJob
  <2>5. hist[p[2]] # Junk
    BY <1>4, Values DEF Home, HomeHist
  <2> QED BY <1>1, <1>4, <1>5, <1>6, <2>4, <2>5, HomeCopied DEF Patched
<1>7. CASE Fits(p) /\ cached' = Patched(p, c) /\ OpenFails
  <2>1. hist[p[2]] # Junk
    BY <1>4, Values DEF Home, HomeHist
  <2> QED BY <1>1, <1>4, <1>5, <1>7, <2>1, FailsHome, HomeCopied DEF Patched
<1>8. CASE OpenFails /\ UNCHANGED cached
  BY <1>1, <1>8, FailsHome, HomeProceeds DEF disk
<1>9. CASE Fits(p) /\ "download" \in faults /\ cached' = Patched(p, Junk) /\ OpenFails
  <2>1. Unrestarted
    BY <1>9 DEF Uncut, Unrestarted
  <2> QED BY <1>1, <1>4, <1>5, <1>9, <2>1, FailsHome, HomeCopied DEF Patched
<1> QED BY <1>6, <1>7, <1>8, <1>9 DEF ApplyPatch, p, c

LEMMA HomeDownload ==
  ASSUME CacheInv, Home, Uncut, Download
  PROVE  Home'
<1>1. job.pc # "crashed" /\ job \in Jobs /\ UNCHANGED <<remote, fresh, setting, entry, handle>>
      /\ job.pc = "http"
  BY JobOpening DEF Download, Opening, OpenFails
<1>2. fresh[entry.remote] # Junk /\ HomeJob
  BY <1>1 DEF Home, HomeJob
<1>3. PICK c \in {hist[rev], Junk, {}} :
        cached' = [cached EXCEPT ![entry.remote] = c] /\ (c = Junk => c = hist[rev] \/ "download" \in faults)
  BY DEF Download, Downloaded
<1>4. hist[rev] # Junk /\ rev \in 1 .. rev /\ entry.remote <= rev /\ entry.remote \in Names
  BY NumbersTyped, Values DEF Home, HomeHist, CacheInv
<1>5. c = Junk => Unrestarted
  BY <1>3, <1>4 DEF Uncut, Unrestarted
<1>6. HomeJob'
  <2>1. CASE OpenFails
    BY <2>1, FailsHome
  <2>2. CASE job' = [job EXCEPT !.pc = "check"]
    <3>1. job'.pc = "check" /\ job'.todo = job.todo
      BY <1>1, <2>2 DEF Jobs
    <3> QED BY <1>2, <3>1 DEF HomeJob
  <2> QED BY <2>1, <2>2 DEF Download
<1> QED BY <1>1, <1>2, <1>3, <1>4, <1>5, <1>6, HomeCopied

LEMMA HomeCheck ==
  ASSUME CacheInv, Home, Uncut, CheckIntegrity
  PROVE  Home'
<1>1. job.pc # "crashed" /\ UNCHANGED <<remote, cached, setting>>
  BY JobOpening DEF CheckIntegrity, Opening
<1>2. CASE OpenFails /\ UNCHANGED fresh
  BY <1>1, <1>2, FailsHome, HomeProceeds DEF disk, OpenFails
<1>3. CASE Deliver("r") /\ job' = Idle /\ UNCHANGED fresh
  BY <1>1, <1>3, HomeDelivers
<1>4. CASE /\ \E c \in CopyOf(cached[entry.remote]) : fresh' = OpenFreshCreated(c)
           /\ Deliver("w") /\ job' = Idle
  <2>1. fresh' = [fresh EXCEPT ![entry.remote] = cached[entry.remote]]
    BY <1>4 DEF CopyOf, OpenFreshCreated, Uncut
  <2> QED BY <1>1, <1>4, <2>1, HomeDelivers
<1> QED BY <1>2, <1>3, <1>4 DEF CheckIntegrity

LEMMA HomeWrite ==
  ASSUME CacheInv, Home, Write
  PROVE  Home'
<1>1. PICK e \in Edits :
        /\ fresh' = [fresh EXCEPT ![handle.name] = Edited(@, e)]
        /\ handle' = [handle EXCEPT !.flushed = FALSE, !.wrote = @ \cup {e}]
  BY DEF Write
<1>2. handle \in Handle /\ handle.name \in Names /\ fresh \in [Names -> Files]
      /\ UNCHANGED <<entry, cached, job, rev, hist, pending, ops>> /\ job = Idle
  BY NumbersTyped DEF Write, Writable, CacheInv, TypeInv, DiskTyped, remote, setting
<1>3. ~handle'.flushed
  BY <1>1, <1>2 DEF Handle
<1>4. \A r \in Names : fresh'[r] = Junk => fresh[r] = Junk
  <2>1. \A c \in Files, e2 \in Edits : Edited(c, e2) = Junk => c = Junk \/ c = Absent
    <3>1. \A c \in Contents, e2 \in Edits : c \cup {e2} \in Contents
      BY DEF Contents
    <3> QED BY <3>1, Values DEF Edited
  <2>2. fresh[handle.name] # Absent /\ fresh'[handle.name] = Edited(fresh[handle.name], e)
    BY <1>1, <1>2 DEF CacheInv, TypeInv, CopyTyped, Write, Writable
  <2> QED BY <1>1, <1>2, <2>1, <2>2
<1>5. HomeHist' /\ HomeJob' /\ HomeHandle'
  BY <1>2, <1>3, IdleTyped DEF Home, HomeHist, HomeJob, HomeHandle
<1>6. HomeCopies'
  BY <1>2, <1>4 DEF Home, HomeCopies, HomeCopy, Unrestarted
<1> QED BY <1>5, <1>6 DEF Home

\* What a flush sends is content, and is in the copy of the handle.
LEMMA HomeTarget ==
  ASSUME CacheInv, OrderInv, Home, Writable, Target # Absent, Source # Absent,
         Source = {} \/ Patchable \/ Unchanged
  PROVE  Target \in Contents /\ entry.local = handle.name /\ handle.wrote \subseteq Target
<1>1. entry.local \in Names /\ Target \in Files
  BY NumbersTyped DEF CacheInv, TypeInv, DiskTyped, Target
<1>2. Target # Junk
  <2>1. Target = Junk => Source = Junk
    BY <1>1 DEF Target, Source, Home, HomeCopies, HomeCopy
  <2>2. Patchable => Source # Junk
    BY Values DEF Patchable, Home, HomeHist
  <2> QED BY <2>1, <2>2, Values DEF Unchanged
<1> QED BY <1>1, <1>2, TargetIs, Values

LEMMA HomeFlush ==
  ASSUME CacheInv, OrderInv, Home, Flush \/ FlushPolls
  PROVE  Home'
<1>1. /\ Writable /\ UNCHANGED <<entry, disk, setting, rev, hist>> /\ handle \in Handle /\ job.pc # "crashed"
      /\ job.closing \in BOOLEAN
  <2>1. Writable /\ UNCHANGED <<entry, disk, setting, rev, hist>> /\ job.pc # "crashed"
    BY IdleTyped DEF Flush, FlushPolls, UploadPatch, FlushFails, FlushSucceeds, Upload, Sends, Poll, remote,
                     CacheInv, TypeInv, JobTyped
  <2> QED BY <2>1, NumbersTyped DEF Writable, CacheInv, TypeInv, JobTyped, Jobs
<1>2. /\ \E closing \in BOOLEAN : job' \in {Closing(closing), Sync(closing), [Idle EXCEPT !.pc = "poll", !.closing = closing]}
      /\ \/ UNCHANGED pending
         \/ pending' = Target /\ Target # Absent /\ Source # Absent /\ (Source = {} \/ Patchable)
      /\ \/ UNCHANGED handle
         \/ /\ handle' = [handle EXCEPT !.flushed = TRUE]
            /\ \/ Source # Absent /\ Unchanged
               \/ job.pc = "poll" /\ pending = Absent
  BY <1>1 DEF Flush, FlushPolls, UploadPatch, FlushFails, FlushSucceeds, Upload, Sends, Poll, remote
<1>3. Grows
  BY <1>1, RemoteStays DEF CacheInv, TypeInv
<1>4. HomeHist'
  BY <1>1, <1>2, HomeTarget, Values DEF Home, HomeHist
<1>5. HomeCopies'
  BY <1>1, <1>3, CopiesStay, NumbersTyped DEF Home, HomeCopies, CacheInv
<1>6. HomeJob'
  <2>1. job'.pc \notin Opening /\ Len(job'.todo) = 0
    BY <1>2, ClosingTyped, IdleTyped DEF Opening
  <2> QED BY <2>1 DEF HomeJob, Opening
<1>7. CASE UNCHANGED handle
  BY <1>3, <1>4, <1>5, <1>6, <1>7, HandleStays DEF Home
<1>8. CASE handle' = [handle EXCEPT !.flushed = TRUE]
  <2>1. /\ handle'.mode = handle.mode /\ handle'.name = handle.name /\ handle'.wrote = handle.wrote
        /\ handle.name \in Nat /\ handle.name >= 1
    BY <1>1, <1>8, NumbersTyped DEF Handle, CacheInv, Writable
  <2>2. CASE Source # Absent /\ Unchanged
    <3>1. Target \in Contents /\ entry.local = handle.name /\ handle.wrote \subseteq Target
          /\ entry.local \in 1 .. rev /\ entry.local \in Names /\ Target = Source
      BY <1>1, <2>1, <2>2, HomeTarget, NumbersTyped DEF Unchanged, CacheInv
    <3>2. Source = {} \/ \E q \in 1 .. rev : handle.name <= q /\ Source = hist[q]
      BY <2>2, <3>1, Values DEF Source, Home, HomeCopies, HomeCopy
    <3>3. \E r \in 1 .. rev : handle.name <= r /\ handle.wrote \subseteq hist[r]
      <4>1. CASE Source = {}
        BY <2>1, <3>1, <4>1
      <4> QED BY <3>1, <3>2, <4>1
    <3> QED BY <1>1, <1>4, <1>5, <1>6, <2>1, <3>3 DEF Home, HomeHandle
  <2>3. CASE job.pc = "poll" /\ pending = Absent
    <3>1. PICK q \in handle.name .. rev : hist[q] = Junk \/ handle.wrote \subseteq hist[q]
      BY <2>3 DEF OrderInv, SentHas
    <3>2. q \in 1 .. rev /\ handle.name <= q
      BY <2>1, <3>1, NumbersTyped DEF CacheInv
    <3>3. handle.wrote \subseteq hist[q]
      BY <3>1, <3>2, Values DEF Home, HomeHist
    <3> QED BY <1>1, <1>4, <1>5, <1>6, <2>1, <3>2, <3>3 DEF Home, HomeHandle
  <2>4. CASE UNCHANGED handle
    BY <1>7, <2>4
  <2> QED BY <1>2, <2>2, <2>3, <2>4
<1> QED BY <1>2, <1>7, <1>8

LEMMA HomeTruncate ==
  ASSUME CacheInv, Home, TruncateLocal
  PROVE  Home'
<1>1. /\ job.pc = "truncate" /\ job' = Idle /\ UNCHANGED <<rev, hist, pending, ops>>
      /\ entry.local \in Nat /\ entry.remote \in Nat /\ entry.local <= entry.remote
      /\ \A r \in Names : r \in Nat
  BY NumbersTyped, Values DEF TruncateLocal, remote, setting, CacheInv
<1>2. HomeHist' /\ HomeJob'
  BY <1>1, IdleTyped DEF Home, HomeHist, HomeJob
<1>3. entry'.local = entry.remote /\ entry'.data = entry.data
  BY TruncationLeaves DEF CacheInv
<1>4. ASSUME NEW r \in Names PROVE HomeCopy(r)'
  <2>1. HomeCopy(r) /\ r \in Nat
    BY <1>1 DEF Home, HomeCopies
  <2>2. /\ cached'[r] \in {cached[r], {}} /\ fresh'[r] \in {fresh[r], {}}
        /\ r \notin {entry.local, entry.remote} => cached'[r] = cached[r]
        /\ r \in {entry.local, entry.remote} /\ fresh[r] # Absent => fresh'[r] = {}
    BY TruncationLeaves DEF CacheInv
  <2>3. fresh'[r] = Junk => fresh[r] = Junk /\ cached'[r] = cached[r]
    BY <2>2, Values
  <2>4. cached'[r] = Junk => cached[r] = Junk
    BY <2>2, Values
  <2> QED BY <1>1, <1>3, <2>1, <2>2, <2>3, <2>4 DEF HomeCopy, Unrestarted
<1>5. HomeCopies'
  BY <1>3, <1>4 DEF Home, HomeCopies
<1>6. HomeHandle'
  BY <1>1, TruncationLeaves DEF CacheInv, Home, HomeHandle, Writable
<1> QED BY <1>2, <1>5, <1>6 DEF Home

LEMMA HomeCrash ==
  ASSUME CacheInv, Home, Uncut, Crash
  PROVE  Home'
<1>1. job'.pc = "crashed" /\ Len(job'.todo) = 0 /\ handle' = NoHandle /\ ~Unrestarted
      /\ UNCHANGED <<rev, hist, pending, entry, ops>>
  BY IdleTyped DEF Crash, remote, setting, Unrestarted
<1>2. HomeHist' /\ HomeJob' /\ HomeHandle'
  BY <1>1 DEF Home, HomeHist, HomeJob, HomeHandle, Writable
<1>3. ASSUME NEW r \in Names PROVE HomeCopy(r)'
  <2>1. HomeCopy(r) /\ cached'[r] \in {cached[r], {}, Junk} /\ fresh'[r] # Junk
    BY <1>1, CrashLeaves DEF CacheInv, Home, HomeCopies, HomeCopy, Uncut
  <2> QED BY <1>1, <2>1 DEF HomeCopy, Unrestarted
<1>4. HomeCopies'
  BY <1>1, <1>3 DEF Home, HomeCopies
<1> QED BY <1>2, <1>4 DEF Home

LEMMA HomeMount ==
  ASSUME CacheInv, Home, Uncut, Mount
  PROVE  Home'
<1>1. /\ job'.pc = "idle" /\ Len(job'.todo) = 0 /\ handle' = NoHandle
      /\ UNCHANGED <<rev, hist, pending, fresh, ops>> /\ ~Unrestarted /\ ~Runs
  <2>1. job.pc \in {"unmounted", "crashed"} /\ ~Unrestarted
    BY DEF Mount, Runs, CacheInv, TypeInv, JobTyped, Unrestarted
  <2> QED BY <2>1, MountLeaves, IdleTyped DEF CacheInv, remote, setting, Runs
<1>2. hist[rev] # Junk /\ entry.data # Junk /\ \A e \in Stored : e.data # Junk
  <2>1. \A r \in 1 .. rev : hist[r] # Junk
    BY Values DEF Home, HomeHist
  <2>2. entry.data # Junk
    BY DEF Home, HomeCopies
  <2>3. ASSUME NEW e \in Stored PROVE e.data # Junk
    <3>1. e.remote \in 1 .. rev
      BY <1>1, StoredTyped, NumbersTyped, Values DEF CacheInv, Entries
    <3> QED BY <1>1, <2>1, <2>2, <3>1, StoredTyped DEF CacheInv
  <2> QED BY <2>1, <2>2, <2>3, NumbersTyped DEF CacheInv
<1>3. entry'.data # Junk
  BY <1>2, MountLeaves DEF CacheInv
<1>4. \A r \in Names : cached'[r] \in {Absent, cached[r]} /\ cached'[r] # Junk
  <2>1. CASE "lost" \in ops /\ UNCHANGED cached
    <3>1. job.pc # "crashed"
      BY <2>1 DEF Uncut, Uncleaned, CacheInv, TypeInv, JobTyped
    <3> QED BY <1>1, <2>1, <3>1 DEF Home, HomeCopies, HomeCopy
  <2>2. ASSUME NEW e \in Stored,
               \A r \in Names : \/ cached'[r] = Absent
                                \/ r = e.remote /\ cached'[r] = e.data /\ cached'[r] = cached[r]
        PROVE  \A r \in Names : cached'[r] \in {Absent, cached[r]} /\ cached'[r] # Junk
    BY <1>2, <2>2, Values
  <2> QED BY <2>1, <2>2, MountLeaves DEF CacheInv
<1>5. HomeHist' /\ HomeJob' /\ HomeHandle'
  BY <1>1 DEF Home, HomeHist, HomeJob, HomeHandle, Writable
<1>6. ASSUME NEW r \in Names PROVE HomeCopy(r)'
  <2>1. HomeCopy(r)
    BY DEF Home, HomeCopies
  <2> QED BY <1>1, <1>4, <2>1 DEF HomeCopy, Unrestarted
<1>7. HomeCopies'
  BY <1>3, <1>6 DEF HomeCopies
<1> QED BY <1>5, <1>7 DEF Home

LEMMA HomeInitially == Init => HomeInv
<1> SUFFICES ASSUME Init PROVE Home
  BY DEF HomeInv
<1>1. handle = NoHandle /\ job = Idle /\ rev = 1 /\ CacheInv
  BY CacheInit DEF Init
<1>2. PICK c \in Contents : hist = [r \in Revs |-> IF r = 1 THEN c ELSE Absent]
  BY DEF Init
<1>3. HomeHist
  BY <1>1, <1>2, Values DEF Init, HomeHist
<1>4. HomeCopies
  BY <1>2, Values DEF Init, HomeCopies, HomeCopy
<1>5. HomeJob /\ HomeHandle
  BY <1>1, IdleTyped DEF HomeJob, HomeHandle, Writable
<1> QED BY <1>3, <1>4, <1>5 DEF Home

LEMMA HomeStep == CacheInv /\ OrderInv /\ HomeInv /\ [Next]_vars => HomeInv'
<1> SUFFICES ASSUME CacheInv, OrderInv, HomeInv, [Next]_vars PROVE HomeInv'
  OBVIOUS
<1>1. Uncut' <=> Uncut
  <2>1. UNCHANGED setting
    BY DEF Next, OpenStep, OtherStores, Complete, Learn, OpenCached, OpenFresh, GetUpdates, ApplyPatch,
           PatchesDone, GetLinks, Download, CheckIntegrity, Write, Flush, FlushPolls, FlushUpdates, Release,
           Truncate, TruncateLocal, Unmount, Crash, Mount, vars
  <2> QED BY <2>1 DEF Uncut, Uncleaned, setting
<1>2. ASSUME Uncut PROVE Home'
  <2>1. Home
    BY <1>2 DEF HomeInv
  <2>2. CASE UNCHANGED vars
    BY <2>1, <2>2 DEF vars, Home, HomeHist, HomeCopies, HomeCopy, Unrestarted, HomeJob, HomeHandle, Writable,
                      remote, disk, setting
  <2>3. CASE Next
    BY <1>2, <2>1, <2>3, HomeService, HomeEntry, HomeOpens, HomeUpdates, HomePatch, HomeDownload, HomeCheck,
       HomeWrite, HomeFlush, HomeTruncate, HomeCrash, HomeMount DEF Next, OpenStep
  <2> QED BY <2>2, <2>3
<1> QED BY <1>1, <1>2 DEF HomeInv

LEMMA HomeInductive == Spec => [](CacheInv /\ HomeInv)
BY CacheInit, HomeInitially, CacheStep, OrderInductive, HomeStep, PTL DEF Spec

\* What a flush reported as done is in a revision of the file that the service
\* has, not older than the one opened: for any number of edits, revisions and
\* flushes, however calls, patches, downloads and polls fail, and wherever the
\* process ends (filecache_upload_patch).
THEOREM FlushesReach == Spec => []FlushedReached
<1>1. CacheInv /\ HomeInv => FlushedReached
  <2> SUFFICES ASSUME CacheInv, HomeInv, Uncut, Writable, handle.flushed
               PROVE  \E r \in handle.name .. rev : hist[r] # Junk /\ handle.wrote \subseteq hist[r]
    BY DEF FlushedReached
  <2>1. PICK r \in 1 .. rev : handle.name <= r /\ handle.wrote \subseteq hist[r]
    BY DEF HomeInv, Home, HomeHandle
  <2>2. hist[r] # Junk
    BY Values DEF HomeInv, Home, HomeHist
  <2>3. r \in handle.name .. rev
    BY <2>1, NumbersTyped DEF CacheInv, Writable
  <2> QED BY <2>1, <2>2, <2>3
<1> QED BY <1>1, HomeInductive, PTL

\* Nothing but contents of the file ever gets to the service.
THEOREM OnlyContentsAreSent == Spec => []JunkStaysHome
<1>1. HomeInv => JunkStaysHome
  BY Values DEF HomeInv, Home, HomeHist, JunkStaysHome
<1> QED BY <1>1, HomeInductive, PTL

-----------------------------------------------------------------------------
(* Nothing fails, and the file is changed only here.                       *)

\* Then the entry is that of now but between an upload and the update that
\* follows it; what was sent is the copy of the handle; a copy has the content of
\* its revision, the copy for writing of the revision of now, and of the handle,
\* all of the content of now; and the patches of an open lead from a copy that is
\* there to the revision wanted.
Undisturbed == faults = {} /\ ops = {}

QuietEntry == job.pc \in {"poll", "sync"} \/ entry = Known

QuietSent ==
  pending # Absent => job.pc = "poll" /\ pending = Target /\ hist[rev] \subseteq pending

QuietCopies ==
  /\ \A r \in Revs : cached[r] # Absent => cached[r] = hist[r]
  /\ fresh[rev] # Absent =>
       \/ job.pc \in Opening /\ job.mode = "w"
       \/ cached[rev] # Absent /\ hist[rev] \subseteq fresh[rev]

QuietHandle == Writable => handle.name = entry.local /\ hist[rev] \subseteq fresh[handle.name]

QuietJob ==
  /\ job.pc \notin {"truncate", "unmounted", "crashed"}
  /\ job.pc \in {"updates", "patch"} => cached[job.last] # Absent
  /\ job.pc = "updates" => job.last = entry.local
  /\ job.pc = "check" => cached[entry.remote] # Absent
  /\ job.pc = "patch" =>
       /\ job.todo = <<>> => job.last = entry.remote
       /\ job.todo # <<>> => job.todo[1][1] = job.last /\ job.todo[Len(job.todo)][2] = entry.remote
       /\ \A i \in 2 .. Len(job.todo) : job.todo[i][1] = job.todo[i - 1][2]

Quiet == QuietEntry /\ QuietSent /\ QuietCopies /\ QuietHandle /\ QuietJob
QuietInv == Undisturbed => Quiet

LEMMA QuietFacts ==
  ASSUME CacheInv, Undisturbed, Quiet
  PROVE  /\ Trusted /\ Sound /\ Uncut /\ cached[0] = Absent
         /\ rev \in Nat /\ rev \in 1 .. rev /\ rev \in Revs /\ rev \in Names /\ hist[rev] \in Contents
         /\ job.pc \notin {"poll", "sync"} => entry = Known /\ entry.remote = rev /\ entry.data = hist[rev]
         /\ \A r \in Names : cached[r] # Absent => r \in 1 .. rev /\ cached[r] = hist[r]
         /\ cached \in [Names -> Files] /\ fresh \in [Names -> Files]
         /\ pending # Absent => job.pc = "poll"
<1>1. Trusted /\ Sound /\ Uncut /\ cached[0] = Absent
  BY DEF Undisturbed, Trusted, Uncleaned, Hidden, Uncut, CacheInv, Sound, CachedSound
<1>2. rev \in Nat /\ rev \in 1 .. rev /\ rev \in Revs /\ rev \in Names /\ hist[rev] \in Contents
  BY <1>1, NumbersTyped DEF CacheInv, TypeInv, RemoteTyped, Sound, HistSound
<1>3. job.pc \notin {"poll", "sync"} => entry = Known /\ entry.remote = rev /\ entry.data = hist[rev]
  BY KnownTyped DEF Quiet, QuietEntry, CacheInv, TypeInv
<1>4. ASSUME NEW r \in Names, cached[r] # Absent PROVE r \in 1 .. rev /\ cached[r] = hist[r]
  <2>1. r \in Revs /\ r \in Nat /\ r >= 1
    BY <1>1, <1>4, Values
  <2>2. \E q \in r .. rev : cached[r] = hist[q]
    BY <1>1, <1>4, <2>1 DEF Sound, CachedSound, Quiet, QuietJob
  <2> QED BY <1>2, <1>4, <2>1, <2>2 DEF Quiet, QuietCopies
<1> QED BY <1>1, <1>2, <1>3, <1>4 DEF CacheInv, TypeInv, DiskTyped, Quiet, QuietSent

\* Opening.

LEMMA QuietDelivers ==
  ASSUME CacheInv, Undisturbed, Quiet, handle = NoHandle, NEW m \in {"r", "w"}, Deliver(m),
         UNCHANGED <<remote, cached, setting>>, job' = Idle,
         job = Idle \/ (job.pc \in Opening /\ job.mode = m),
         \/ UNCHANGED fresh /\ (m = "w" => job = Idle /\ fresh[entry.remote] # Absent)
         \/ /\ fresh' = [fresh EXCEPT ![entry.remote] = cached[entry.remote]]
            /\ m = "w" /\ cached[entry.remote] # Absent
  PROVE  Quiet'
<1>1. /\ handle'.mode = m /\ handle'.name = rev
      /\ entry'.remote = rev /\ entry'.local = rev /\ entry'.data = hist[rev]
      /\ entry = Known /\ entry.remote = rev
  <2>1. job.pc \notin {"poll", "sync"}
    BY IdleTyped DEF Opening
  <2> QED BY <2>1, QuietFacts, Delivers DEF CacheInv
<1>2. entry' = Known' /\ UNCHANGED <<rev, hist>>
  <2>1. UNCHANGED <<rev, hist>>
    BY DEF remote
  <2>2. entry' \in Entries
    BY Delivers DEF CacheInv, EntryTyped
  <2>3. entry' = [entry' EXCEPT !.remote = rev, !.data = hist[rev]]
    BY <1>1, <2>2 DEF Entries
  <2> QED BY <2>1, <2>3 DEF Known
<1>3. QuietJob' /\ QuietEntry' /\ QuietSent'
  <2>1. pending' = Absent
    BY QuietFacts, IdleTyped DEF remote, Opening
  <2> QED BY <1>2, <2>1, IdleTyped DEF QuietJob, QuietEntry, QuietSent
<1>4. fresh'[rev] # Absent => cached[rev] # Absent /\ hist[rev] \subseteq fresh'[rev]
  <2>1. job = Idle => job.pc \notin Opening
    BY IdleTyped DEF Opening
  <2>2. CASE UNCHANGED fresh /\ (m = "w" => job = Idle)
    BY <2>1, <2>2 DEF Quiet, QuietCopies
  <2>3. CASE fresh' = [fresh EXCEPT ![entry.remote] = cached[entry.remote]] /\ cached[entry.remote] # Absent
    <3>1. fresh' = [fresh EXCEPT ![rev] = cached[rev]] /\ cached[rev] = hist[rev] /\ cached[rev] # Absent
      BY <1>1, <2>3, QuietFacts
    <3>2. fresh'[rev] = hist[rev]
      BY <3>1, QuietFacts
    <3> QED BY <3>1, <3>2
  <2> QED BY <2>2, <2>3
<1>5. QuietCopies'
  BY <1>2, <1>4 DEF Quiet, QuietCopies
<1>6. QuietHandle'
  <2>1. m = "w" => fresh'[rev] # Absent
    BY <1>1, QuietFacts
  <2> QED BY <1>1, <1>2, <1>4, <2>1 DEF QuietHandle, Writable
<1> QED BY <1>3, <1>5, <1>6 DEF Quiet

\* An open goes on: what copies there are stay.
LEMMA QuietProceeds ==
  ASSUME CacheInv, Undisturbed, Quiet, handle = NoHandle, UNCHANGED <<remote, entry, handle, fresh>>,
         job'.pc \in Opening /\ job'.mode = job.mode, job.pc \in Opening,
         \/ UNCHANGED cached
         \/ \E r \in 1 .. rev : cached' = [cached EXCEPT ![r] = hist[r]],
         QuietJob'
  PROVE  Quiet'
<1>1. UNCHANGED <<rev, hist>> /\ QuietEntry' /\ QuietSent'
  <2>1. entry = Known /\ pending = Absent
    BY QuietFacts DEF Opening
  <2> QED BY <2>1 DEF remote, Known, QuietEntry, QuietSent
<1>2. \A r \in Revs : cached'[r] # Absent => cached'[r] = hist[r]
  <2>1. \A r \in Revs : cached[r] # Absent => cached[r] = hist[r]
    BY DEF Quiet, QuietCopies
  <2>2. ASSUME NEW q \in 1 .. rev, cached' = [cached EXCEPT ![q] = hist[q]],
               NEW r \in Revs, cached'[r] # Absent
        PROVE  cached'[r] = hist[r]
    <3>1. r \in Names
      BY Values
    <3>2. CASE r = q
      BY <2>2, <3>1, <3>2, QuietFacts
    <3>3. CASE r # q
      BY <2>1, <2>2, <3>1, <3>3, QuietFacts
    <3> QED BY <3>2, <3>3
  <2> QED BY <2>1, <2>2
<1>3. \A r \in Names : cached[r] # Absent => cached'[r] # Absent
  <2>1. \A r \in 1 .. rev : hist[r] # Absent
    BY QuietFacts, Values DEF Sound, HistSound
  <2> QED BY <2>1, QuietFacts
<1>4. QuietCopies'
  BY <1>1, <1>2, <1>3, QuietFacts DEF Quiet, QuietCopies
<1>5. QuietHandle'
  BY DEF QuietHandle, Writable
<1> QED BY <1>1, <1>4, <1>5 DEF Quiet

LEMMA QuietOpens ==
  ASSUME CacheInv, Undisturbed, Quiet, OpenCached \/ OpenFresh
  PROVE  Quiet'
<1>1. handle = NoHandle /\ job = Idle /\ job.pc = "idle" /\ UNCHANGED <<remote, cached, setting, rev, hist>>
  BY IdleTyped DEF OpenCached, OpenFresh, disk, remote
<1>2. entry = Known /\ entry.remote = rev /\ pending' = Absent
  BY <1>1, QuietFacts DEF remote
<1>3. ASSUME NEW m \in {"r", "w"}, Retrieve(m), cached[rev] = Absent,
             UNCHANGED fresh \/ (m = "w" /\ \A r \in Names : r # rev => fresh'[r] = fresh[r])
      PROVE  Quiet'
  <2>1. job'.pc \in {"updates", "links"} /\ job'.mode = m /\ job'.last = entry.local
        /\ (job'.pc = "updates" => cached[entry.local] # Absent)
    <3>1. PICK l \in {"updates", "links"} :
            /\ job' = [Idle EXCEPT !.pc = l, !.mode = m, !.last = entry.local]
            /\ l = "updates" => cached[entry.local] # Absent
      BY <1>3 DEF Retrieve
    <3> QED BY <3>1 DEF Idle
  <2>2. UNCHANGED <<entry, handle>>
    BY <1>3 DEF Retrieve
  <2>3. QuietJob'
    BY <1>1, <2>1, <2>2 DEF QuietJob
  <2>4. QuietEntry' /\ QuietSent' /\ QuietHandle'
    BY <1>1, <1>2, <2>2 DEF QuietEntry, QuietSent, QuietHandle, Known, Writable
  <2>5. fresh[rev] = Absent
    BY <1>1, <1>3, IdleTyped DEF Quiet, QuietCopies, Opening
  <2>6. QuietCopies'
    BY <1>1, <1>3, <2>1, <2>5 DEF Quiet, QuietCopies, Opening
  <2> QED BY <2>3, <2>4, <2>6 DEF Quiet
<1>4. CASE OpenCached
  <2>1. UNCHANGED fresh
    BY <1>4 DEF OpenCached, disk
  <2>2. CASE Deliver("r") /\ UNCHANGED job
    BY <1>1, <2>1, <2>2, QuietDelivers
  <2>3. CASE cached[entry.remote] = Absent /\ Retrieve("r")
    BY <1>2, <1>3, <2>1, <2>3
  <2> QED BY <1>4, <2>2, <2>3 DEF OpenCached
<1>5. CASE OpenFresh
  <2>1. CASE fresh[entry.remote] # Absent /\ Deliver("w") /\ UNCHANGED <<fresh, job>>
    BY <1>1, <2>1, QuietDelivers
  <2>2. CASE /\ cached[entry.remote] # Absent
             /\ \E c \in CopyOf(cached[entry.remote]) : fresh' = OpenFreshCreated(c)
             /\ Deliver("w") /\ UNCHANGED job
    <3>1. fresh' = [fresh EXCEPT ![entry.remote] = cached[entry.remote]]
      BY <2>2 DEF CopyOf, OpenFreshCreated, Undisturbed
    <3> QED BY <1>1, <2>2, <3>1, QuietDelivers
  <2>3. CASE cached[entry.remote] = Absent /\ fresh' = OpenFreshCreated({}) /\ Retrieve("w")
    <3>1. \A r \in Names : r # rev => fresh'[r] = fresh[r]
      BY <1>2, <2>3, QuietFacts DEF OpenFreshCreated
    <3> QED BY <1>2, <1>3, <2>3, <3>1
  <2> QED BY <1>5, <2>1, <2>2, <2>3 DEF OpenFresh
<1> QED BY <1>4, <1>5

\* When nothing fails, no step of an open makes it fail.
LEMMA QuietUpdates ==
  ASSUME CacheInv, Undisturbed, Quiet, GetUpdates
  PROVE  Quiet' /\ job' # Idle
<1>1. handle = NoHandle /\ job \in Jobs /\ UNCHANGED <<remote, fresh, cached>> /\ job.pc \in Opening
  BY JobOpening DEF GetUpdates, Opening, disk
<1>2. PICK list \in Offered :
        job' = [job EXCEPT !.pc = IF list = <<>> THEN "links" ELSE "patch", !.todo = list]
        /\ UNCHANGED <<entry, handle>>
  BY DEF GetUpdates, Undisturbed
<1>3. list = <<>> \/ LeadsTo(list)
  BY DEF Offered, Undisturbed
<1>4. /\ job'.pc = IF list = <<>> THEN "links" ELSE "patch"
      /\ job'.todo = list /\ job'.last = job.last /\ job'.mode = job.mode
  <2>1. \E l \in {"links", "patch"} : job' = [job EXCEPT !.pc = l, !.todo = list]
                                      /\ l = IF list = <<>> THEN "links" ELSE "patch"
    BY <1>2
  <2> QED BY <1>1, <2>1 DEF Jobs
<1>5. job.last = entry.local /\ cached[job.last] # Absent
  BY DEF GetUpdates, Quiet, QuietJob
<1>6. list # <<>> => list[1][1] = entry.local
  <2>1. list \in PatchLists
    BY DEF Offered
  <2>2. \A p, q : Head(<<p>>) = p /\ Head(<<p, q>>) = p
    OBVIOUS
  <2>3. ASSUME NEW p \in Patches, list = <<p>>, LeadsTo(list) PROVE list[1][1] = entry.local
    BY <2>2, <2>3 DEF LeadsTo
  <2>4. ASSUME NEW p \in Patches, NEW q \in Patches, list = <<p, q>>, LeadsTo(list)
        PROVE  list[1][1] = entry.local
    BY <2>2, <2>4 DEF LeadsTo
  <2> QED BY <1>3, <2>1, <2>3, <2>4 DEF PatchLists
<1>7. QuietJob'
  BY <1>1, <1>2, <1>3, <1>4, <1>5, <1>6 DEF QuietJob, LeadsTo
<1>8. job'.pc \in Opening /\ job' # Idle
  BY <1>4, IdleTyped DEF Opening
<1>9. Quiet'
  BY <1>1, <1>2, <1>4, <1>7, <1>8, QuietProceeds
<1> QED BY <1>8, <1>9

LEMMA QuietPatch ==
  ASSUME CacheInv, Undisturbed, Quiet, ApplyPatch
  PROVE  Quiet' /\ job' # Idle
<1> DEFINE p == Head(job.todo)
           n == Len(job.todo)
<1>1. handle = NoHandle /\ job \in Jobs /\ UNCHANGED <<remote, fresh>> /\ job.pc = "patch" /\ job.todo # <<>>
      /\ job.pc \in Opening
  BY JobOpening DEF ApplyPatch, Opening
<1>2. /\ n \in Nat /\ n >= 1 /\ p = job.todo[1] /\ p \in Revs \X Revs /\ p[2] <= rev
      /\ Len(Tail(job.todo)) = n - 1
      /\ \A i \in 1 .. Len(Tail(job.todo)) : Tail(job.todo)[i] = job.todo[i + 1]
  BY <1>1, PatchesLeft DEF CacheInv
<1>3. /\ cached[job.last] # Absent /\ job.todo[1][1] = job.last /\ job.todo[n][2] = entry.remote
      /\ \A i \in 2 .. n : job.todo[i][1] = job.todo[i - 1][2]
  BY <1>1 DEF Quiet, QuietJob
<1> HIDE DEF p, n
<1>4. /\ p[1] = job.last /\ p[1] \in Names /\ cached[p[1]] = hist[p[1]] /\ cached[p[1]] # Absent
      /\ p[2] \in Names /\ p[2] \in 1 .. rev
  <2>1. p[1] \in Names /\ p[2] \in Names /\ p[2] \in 1 .. rev
    BY <1>2, Values, QuietFacts
  <2> QED BY <1>2, <1>3, <2>1, QuietFacts
<1>5. Fits(p) /\ FALSE \notin DownloadPatch /\ "download" \notin faults
  BY <1>4 DEF Fits, DownloadPatch, Undisturbed
<1>6. /\ cached' = [cached EXCEPT ![p[2]] = hist[p[2]]]
      /\ job' = [job EXCEPT !.todo = Tail(job.todo), !.last = p[2]]
      /\ UNCHANGED <<entry, handle>>
  BY <1>4, <1>5 DEF ApplyPatch, Patched, p
<1>7. job'.pc = "patch" /\ job'.todo = Tail(job.todo) /\ job'.last = p[2] /\ job'.mode = job.mode
  BY <1>1, <1>6 DEF Jobs
<1>8. cached'[p[2]] # Absent
  <2>1. hist[p[2]] # Absent
    BY <1>4, QuietFacts, Values DEF Sound, HistSound
  <2> QED BY <1>4, <1>6, <2>1, QuietFacts
<1>9. /\ Tail(job.todo) = <<>> => p[2] = entry.remote
      /\ Tail(job.todo) # <<>> =>
           Tail(job.todo)[1][1] = p[2] /\ Tail(job.todo)[Len(Tail(job.todo))][2] = entry.remote
      /\ \A i \in 2 .. Len(Tail(job.todo)) : Tail(job.todo)[i][1] = Tail(job.todo)[i - 1][2]
  <2>1. Tail(job.todo) = <<>> <=> n = 1
    <3>1. Tail(job.todo) \in Seq(Revs \X Revs) /\ (Tail(job.todo) = <<>> <=> Len(Tail(job.todo)) = 0)
      BY <1>1, PatchesLeft, EmptySeq DEF CacheInv
    <3> QED BY <1>2, <3>1
  <2>2. n = 1 => p[2] = entry.remote
    BY <1>2, <1>3
  <2>3. ASSUME n > 1
        PROVE  Tail(job.todo)[1][1] = p[2] /\ Tail(job.todo)[Len(Tail(job.todo))][2] = entry.remote
    <3>1. Tail(job.todo)[1] = job.todo[2] /\ Tail(job.todo)[n - 1] = job.todo[n]
      BY <1>2, <2>3
    <3>2. job.todo[2][1] = job.todo[1][2]
      BY <1>2, <1>3, <2>3
    <3> QED BY <1>2, <1>3, <3>1, <3>2
  <2>4. ASSUME NEW i \in 2 .. n - 1
        PROVE  Tail(job.todo)[i][1] = Tail(job.todo)[i - 1][2]
    <3>1. Tail(job.todo)[i] = job.todo[i + 1] /\ Tail(job.todo)[i - 1] = job.todo[i]
      BY <1>2
    <3>2. i + 1 \in 2 .. n /\ i + 1 - 1 = i
      BY <1>2
    <3>3. job.todo[i + 1][1] = job.todo[i][2]
      BY <1>3, <3>2
    <3> QED BY <3>1, <3>3
  <2> QED BY <1>2, <2>1, <2>2, <2>3, <2>4
<1>10. QuietJob'
  BY <1>6, <1>7, <1>8, <1>9 DEF QuietJob
<1>11. job'.pc \in Opening /\ job' # Idle
  BY <1>7, IdleTyped DEF Opening
<1>12. Quiet'
  BY <1>1, <1>4, <1>6, <1>7, <1>10, <1>11, QuietProceeds
<1> QED BY <1>11, <1>12

LEMMA QuietDownload ==
  ASSUME CacheInv, Undisturbed, Quiet, PatchesDone \/ GetLinks \/ Download
  PROVE  Quiet' /\ job' # Idle
<1>1. handle = NoHandle /\ job \in Jobs /\ job.pc \in Opening /\ job.pc \notin {"poll", "sync"}
      /\ UNCHANGED <<remote, fresh, entry, handle>>
  BY JobOpening DEF PatchesDone, GetLinks, Download, OpenFails, Opening, disk
<1>2. entry.remote = rev /\ rev \in 1 .. rev /\ hist[rev] # Absent
  BY <1>1, QuietFacts, Values
<1>3. ASSUME NEW l \in {"check", "http"}, job' = [job EXCEPT !.pc = l],
             UNCHANGED cached \/ cached' = [cached EXCEPT ![rev] = hist[rev]],
             l = "check" => cached'[rev] # Absent
      PROVE  Quiet' /\ job' # Idle
  <2>1. job'.pc = l /\ job'.mode = job.mode /\ job'.pc \in Opening /\ job' # Idle
    BY <1>1, <1>3, IdleTyped DEF Jobs, Opening
  <2>2. QuietJob'
    BY <1>1, <1>2, <1>3, <2>1 DEF QuietJob
  <2> QED BY <1>1, <1>2, <1>3, <2>1, <2>2, QuietProceeds
<1>4. CASE PatchesDone
  <2>1. job.last = entry.remote /\ cached[job.last] # Absent
    BY <1>4 DEF PatchesDone, Quiet, QuietJob
  <2>2. job' = [job EXCEPT !.pc = "check"] /\ UNCHANGED cached
    BY <1>4, <2>1 DEF PatchesDone, disk
  <2> QED BY <1>2, <1>3, <2>1, <2>2
<1>5. CASE GetLinks
  <2>1. job' = [job EXCEPT !.pc = "http"] /\ UNCHANGED cached
    BY <1>5 DEF GetLinks, Undisturbed, disk
  <2> QED BY <1>3, <2>1
<1>6. CASE Download
  <2>1. job' = [job EXCEPT !.pc = "check"] /\ cached' = [cached EXCEPT ![rev] = hist[rev]]
    BY <1>2, <1>6 DEF Download, Downloaded, Undisturbed
  <2>2. cached'[rev] # Absent
    BY <1>2, <2>1, QuietFacts
  <2> QED BY <1>3, <2>1, <2>2
<1> QED BY <1>4, <1>5, <1>6

LEMMA QuietCheck ==
  ASSUME CacheInv, Undisturbed, Quiet, CheckIntegrity
  PROVE  Quiet' /\ handle' # NoHandle
<1>1. handle = NoHandle /\ job \in Jobs /\ job.pc = "check" /\ UNCHANGED <<remote, cached, setting>>
  BY JobOpening DEF CheckIntegrity, Opening
<1>2. entry.remote = rev /\ entry.data = hist[rev] /\ cached[entry.remote] # Absent
      /\ cached[entry.remote] = hist[rev] /\ job.pc \in Opening
  <2>1. entry.remote = rev /\ entry.data = hist[rev] /\ job.pc \in Opening
    BY <1>1, QuietFacts DEF Opening
  <2>2. cached[entry.remote] # Absent
    BY <1>1 DEF Quiet, QuietJob
  <2> QED BY <2>1, <2>2, QuietFacts
<1>3. CASE job.mode = "r" /\ Deliver("r") /\ job' = Idle /\ UNCHANGED fresh
  BY <1>1, <1>2, <1>3, QuietDelivers, Delivers DEF CacheInv
<1>4. CASE /\ job.mode = "w" /\ Deliver("w") /\ job' = Idle
           /\ \E c \in CopyOf(cached[entry.remote]) : fresh' = OpenFreshCreated(c)
  <2>1. fresh' = [fresh EXCEPT ![entry.remote] = cached[entry.remote]]
    BY <1>4 DEF CopyOf, OpenFreshCreated, Undisturbed
  <2> QED BY <1>1, <1>2, <1>4, <2>1, QuietDelivers, Delivers DEF CacheInv
<1> QED BY <1>2, <1>3, <1>4 DEF CheckIntegrity, Intact

LEMMA QuietWrite ==
  ASSUME CacheInv, Undisturbed, Quiet, Write
  PROVE  Quiet'
<1>1. PICK e \in Edits :
        /\ fresh' = [fresh EXCEPT ![handle.name] = Edited(@, e)]
        /\ handle' = [handle EXCEPT !.flushed = FALSE, !.wrote = @ \cup {e}]
  BY DEF Write
<1>2. handle \in Handle /\ handle.mode = "w" /\ Writable /\ handle.name \in Names
      /\ UNCHANGED <<entry, cached, job, rev, hist>> /\ job = Idle /\ pending' = Absent
  BY NumbersTyped, QuietFacts, IdleTyped DEF Write, Writable, CacheInv, remote
<1>3. /\ handle'.mode = "w" /\ handle'.name = handle.name
  BY <1>1, <1>2 DEF Handle
<1>4. fresh[handle.name] \in Contents
  BY <1>2, Values, QuietFacts DEF Writable, CacheInv, TypeInv, CopyTyped, Sound, FreshSound
<1>5. /\ fresh'[handle.name] = fresh[handle.name] \cup {e}
      /\ \A r \in Names : r # handle.name => fresh'[r] = fresh[r]
  BY <1>1, <1>2, <1>4, QuietFacts, Values DEF Edited
<1>6. QuietJob' /\ QuietEntry' /\ QuietSent'
  BY <1>2, IdleTyped DEF QuietJob, Quiet, QuietEntry, QuietSent, Known
<1>7. QuietCopies'
  <2>1. fresh[rev] # Absent => cached[rev] # Absent /\ hist[rev] \subseteq fresh[rev]
    BY <1>2, IdleTyped DEF Quiet, QuietCopies, Opening
  <2>2. fresh'[rev] # Absent => cached[rev] # Absent /\ hist[rev] \subseteq fresh'[rev]
    <3>1. CASE rev = handle.name
      BY <1>4, <1>5, <2>1, <3>1, Values
    <3>2. CASE rev # handle.name
      BY <1>5, <2>1, <3>2, QuietFacts
    <3> QED BY <3>1, <3>2
  <2> QED BY <1>2, <2>2 DEF Quiet, QuietCopies
<1>8. QuietHandle'
  BY <1>2, <1>3, <1>5 DEF Quiet, QuietHandle
<1> QED BY <1>6, <1>7, <1>8 DEF Quiet

\* A flush sends all that the file has, and more.
LEMMA QuietFlush ==
  ASSUME CacheInv, Undisturbed, Quiet, Flush \/ FlushPolls
  PROVE  Quiet'
<1>1. /\ Writable /\ job.pc \in {"idle", "poll"} /\ UNCHANGED <<entry, fresh, cached, rev, hist>>
      /\ handle \in Handle /\ job.closing \in BOOLEAN
  <2>1. Writable /\ job.pc \in {"idle", "poll"} /\ UNCHANGED <<entry, fresh, cached, rev, hist>>
    BY IdleTyped DEF Flush, FlushPolls, UploadPatch, FlushFails, FlushSucceeds, Upload, Sends, Poll, remote, disk,
                     CacheInv, TypeInv, JobTyped
  <2> QED BY <2>1, NumbersTyped DEF Writable, CacheInv, TypeInv, JobTyped, Jobs
<1>2. PICK closing \in BOOLEAN :
        \/ job' = Sync(closing) /\ (Flush \/ pending = Absent) /\ UNCHANGED pending
        \/ job.pc = "idle" /\ job' = Closing(closing) /\ UNCHANGED pending
        \/ job.pc = "idle" /\ job' = [Idle EXCEPT !.pc = "poll", !.closing = closing] /\ pending' = Target
  BY <1>1, IdleTyped DEF Flush, FlushPolls, UploadPatch, FlushFails, FlushSucceeds, Upload, Sends, Poll, remote,
                         Undisturbed
<1>3. handle'.name = handle.name /\ handle'.mode = handle.mode
  <2>1. UNCHANGED handle \/ handle' = [handle EXCEPT !.flushed = TRUE]
    BY DEF Flush, FlushPolls, UploadPatch, FlushFails, FlushSucceeds, Upload, Poll
  <2> QED BY <1>1, <2>1 DEF Handle
<1>4. /\ handle.name = entry.local /\ hist[rev] \subseteq fresh[handle.name] /\ Target' = Target
      /\ job.pc \in {"idle", "poll"} /\ job.pc \notin Opening /\ (Flush => job.pc = "idle")
  BY <1>1, IdleTyped DEF Quiet, QuietHandle, Target, Opening, Flush
<1>5. QuietSent'
  <2>1. CASE UNCHANGED pending /\ pending = Absent
    BY <2>1 DEF QuietSent
  <2>2. CASE job.pc = "idle" /\ UNCHANGED pending
    BY <2>1, <2>2, QuietFacts
  <2>3. CASE job' = [Idle EXCEPT !.pc = "poll", !.closing = closing] /\ pending' = Target
    BY <1>1, <1>4, <2>3, ClosingTyped DEF QuietSent, Target
  <2> QED BY <1>2, <1>4, <2>1, <2>2, <2>3
<1>6. /\ job'.pc \in {"idle", "release", "sync", "poll"}
      /\ job'.pc \in {"idle", "release"} => job.pc = "idle"
  BY <1>2, ClosingTyped
<1>7. QuietEntry' /\ QuietJob'
  <2>1. job.pc = "idle" => entry = Known
    BY QuietFacts
  <2> QED BY <1>1, <1>6, <2>1 DEF QuietEntry, QuietJob, Known
<1>8. QuietCopies' /\ QuietHandle'
  BY <1>1, <1>3, <1>4 DEF Quiet, QuietCopies, QuietHandle
<1> QED BY <1>5, <1>7, <1>8 DEF Quiet

\* What was sent has all that the file has.
LEMMA QuietComplete ==
  ASSUME CacheInv, OrderInv, Undisturbed, Quiet, Complete
  PROVE  Quiet' /\ hist[rev] \subseteq hist'[rev']
<1>1. /\ job.pc = "poll" /\ pending = Target /\ hist[rev] \subseteq pending /\ pending' = Absent
      /\ Store(pending) /\ UNCHANGED <<entry, cached, fresh, job, handle>> /\ Writable
  BY DEF Complete, Quiet, QuietSent, disk, CacheInv, TypeInv, JobTyped
<1>2. rev' = rev + 1 /\ hist'[rev'] = pending /\ rev' \in Names /\ \A r \in 1 .. rev : hist'[r] = hist[r]
  <2>1. pending \in {Junk} \cup Contents /\ Absent \in Files
    BY Values DEF Complete, CacheInv, TypeInv, RemoteTyped
  <2>2. rev + 1 \in Names
    BY <1>1, QuietFacts, Values DEF Store
  <2> QED BY <1>1, <2>1, <2>2, StoreKeeps DEF CacheInv, TypeInv, Grows
<1>3. \A r \in Revs : cached[r] # Absent => cached[r] = hist'[r]
  <2>1. \A r \in Revs : r \in Names
    BY Values
  <2> QED BY <1>2, <2>1, QuietFacts
<1>4. fresh[rev'] = Absent
  BY <1>2, QuietFacts DEF OrderInv, NamesOrdered
<1>5. QuietCopies'
  BY <1>1, <1>3, <1>4 DEF QuietCopies
<1>6. QuietHandle'
  BY <1>1, <1>2 DEF Quiet, QuietHandle, Target, Writable
<1>7. QuietEntry' /\ QuietSent' /\ QuietJob'
  BY <1>1 DEF QuietEntry, QuietSent, QuietJob, Quiet
<1> QED BY <1>1, <1>2, <1>5, <1>6, <1>7 DEF Quiet

LEMMA QuietEntries ==
  ASSUME CacheInv, Undisturbed, Quiet, Learn \/ FlushUpdates \/ Release
  PROVE  Quiet'
<1>1. job' \in {Idle, Closing(job.closing)} /\ handle' \in {handle, NoHandle}
      /\ UNCHANGED <<rev, hist, pending, cached, fresh>> /\ job.pc \notin Opening
      /\ job.pc \notin {"poll"}
  BY IdleTyped DEF Learn, FlushUpdates, Release, Opening, remote, disk
<1>2. entry' = Known /\ Known.local = entry.local
  <2>1. entry' = Known
    <3>1. CASE Learn
      BY <3>1 DEF Learn
    <3>2. CASE FlushUpdates
      BY <3>2 DEF FlushUpdates, UpdateEntry, Undisturbed
    <3>3. CASE Release
      BY <3>3, QuietFacts, IdleTyped DEF Release, UpdateEntry, Undisturbed
    <3> QED BY <3>1, <3>2, <3>3
  <2> QED BY <2>1, KnownTyped DEF CacheInv, TypeInv
<1>3. job'.pc \notin Opening /\ QuietJob'
  <2>1. job'.pc \in {"idle", "release"}
    BY <1>1, IdleTyped DEF Closing, Idle
  <2> QED BY <2>1 DEF Opening, QuietJob
<1>4. QuietEntry' /\ QuietSent'
  <2>0. pending' = Absent
    BY <1>1, QuietFacts
  <2>1. Known = [Known EXCEPT !.remote = rev, !.data = hist[rev]]
    <3>1. Known \in Entries /\ Known.remote = rev /\ Known.data = hist[rev]
      BY KnownTyped DEF CacheInv, TypeInv
    <3> QED BY <3>1 DEF Entries
  <2> QED BY <1>1, <1>2, <2>0, <2>1 DEF QuietEntry, QuietSent, Known
<1>5. QuietCopies' /\ QuietHandle'
  BY <1>1, <1>2 DEF Quiet, QuietCopies, QuietHandle, Writable
<1> QED BY <1>3, <1>4, <1>5 DEF Quiet

LEMMA QuietInitially == Init => QuietInv
<1> SUFFICES ASSUME Init PROVE Quiet
  BY DEF QuietInv
<1>1. QuietEntry
  <2>1. entry \in Entries /\ entry.remote = rev /\ entry.data = hist[rev]
    BY CacheInit DEF Init, CacheInv, TypeInv, EntryTyped
  <2>2. entry = [entry EXCEPT !.remote = rev, !.data = hist[rev]]
    BY <2>1 DEF Entries
  <2> QED BY <2>2 DEF QuietEntry, Known
<1>2. QuietCopies
  BY Values DEF Init, QuietCopies
<1>3. QuietSent /\ QuietHandle /\ QuietJob
  BY IdleTyped DEF Init, QuietSent, QuietHandle, QuietJob, Writable
<1> QED BY <1>1, <1>2, <1>3 DEF Quiet

LEMMA QuietStep == CacheInv /\ OrderInv /\ QuietInv /\ [Next]_vars => QuietInv'
<1> SUFFICES ASSUME CacheInv, OrderInv, QuietInv, [Next]_vars PROVE QuietInv'
  OBVIOUS
<1>1. Undisturbed' <=> Undisturbed
  <2>1. UNCHANGED setting
    BY DEF Next, OpenStep, OtherStores, Complete, Learn, OpenCached, OpenFresh, GetUpdates, ApplyPatch,
           PatchesDone, GetLinks, Download, CheckIntegrity, Write, Flush, FlushPolls, FlushUpdates, Release,
           Truncate, TruncateLocal, Unmount, Crash, Mount, vars
  <2> QED BY <2>1 DEF Undisturbed, setting
<1>2. ASSUME Undisturbed PROVE Quiet'
  <2>1. Quiet
    BY <1>2 DEF QuietInv
  <2>2. CASE UNCHANGED vars
    BY <2>1, <2>2 DEF vars, Quiet, QuietEntry, QuietSent, QuietCopies, QuietHandle, QuietJob, Known, Writable,
                      Target, remote, disk, setting
  <2>3. CASE Next
    <3>1. ~OtherStores /\ ~Truncate /\ ~TruncateLocal /\ ~Unmount /\ ~Crash /\ ~Mount
      BY <1>2, <2>1 DEF Undisturbed, OtherStores, Truncate, TruncateLocal, Unmount, Crash, Mount, Runs,
                        Quiet, QuietJob
    <3> QED BY <1>2, <2>1, <2>3, <3>1, QuietComplete, QuietEntries, QuietOpens, QuietUpdates, QuietPatch,
               QuietDownload, QuietCheck, QuietWrite, QuietFlush DEF Next, OpenStep
  <2> QED BY <2>2, <2>3
<1> QED BY <1>1, <1>2 DEF QuietInv

LEMMA QuietInductive == Spec => [](CacheInv /\ OrderInv /\ QuietInv)
BY CacheInit, QuietInitially, CacheStep, OrderInductive, QuietStep, PTL DEF Spec

\* A flush loses nothing of what the file has when nothing fails and nothing else
\* happens: the handle's copy was made of the revision of now
\* (filecache_open_file), and it is what is sent.
THEOREM FlushesLoseNothing == Spec => NothingLost
<1>1. CacheInv /\ OrderInv /\ QuietInv /\ [Next]_vars => [faults = {} /\ ops = {} => Adds]_vars
  BY QuietComplete DEF QuietInv, Undisturbed, Adds
<1> QED BY <1>1, QuietInductive, PTL DEF Spec, NothingLost

\* An open of the revision of now is answered with the file, whatever patches
\* there are (filecache_update_file), when nothing fails and nothing else happens:
\* no other client, no truncation and no restart.
THEOREM OpensAreAnswered == Spec => AnsweredOpens
<1>1. ASSUME CacheInv, QuietInv, faults = {}, ops = {}, OpenStep, job' = Idle
      PROVE  handle' # NoHandle
  <2>1. Undisturbed /\ Quiet
    BY <1>1 DEF QuietInv, Undisturbed
  <2> QED BY <1>1, <2>1, QuietUpdates, QuietPatch, QuietDownload, QuietCheck DEF OpenStep
<1>2. CacheInv /\ QuietInv /\ [Next]_vars =>
        [faults = {} /\ ops = {} /\ OpenStep /\ job' = Idle /\ entry = Known => handle' # NoHandle]_vars
  BY <1>1
<1> QED BY <1>2, QuietInductive, PTL DEF Spec, AnsweredOpens

=============================================================================
