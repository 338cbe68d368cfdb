-------------------------- MODULE OpenFilesProofs --------------------------
(***************************************************************************)
(* For any number of handles, paths, files and edits, whatever is renamed, *)
(* unlinked or fails meanwhile: the two string bags of a mount hold each   *)
(* path as often as it is open, so that release never ends the process.    *)
(* And while no file has two writers and none is renamed, what a flush     *)
(* reports as stored is in the file.                                       *)
(***************************************************************************)
EXTENDS OpenFiles, FiniteSetTheorems, SequenceTheorems, TLAPS

RemoteTyped ==
  /\ at \in [Paths -> Keys \cup {None}]
  /\ hist \in [Keys -> Seq(Contents)]
  /\ \A k \in Keys : Rev(k) <= MaxRev
  /\ \A p \in Paths : at[p] # None => Rev(at[p]) >= 1

CopiesTyped ==
  /\ lrev \in [Keys -> 0 .. MaxRev]
  /\ fresh \in [Keys -> [Revs -> {None} \cup Contents]]

HandlesTyped ==
  /\ handle \in [Handles -> {Closed} \cup Record]
  /\ ops \in OpSets

BagsTyped ==
  writefiles \in [Paths -> Nat] /\ readonlyfiles \in [Paths -> Nat] /\ fatal = FALSE

\* Who writes to a file of the service has a copy of it.
WritersHaveCopies ==
  \A h \in Writers : ~handle[h].local =>
    /\ handle[h].file \in Keys /\ handle[h].name \in Revs
    /\ fresh[handle[h].file][handle[h].name] \in Contents

\* Calls of flush and release are made through handles in use, and the calls
\* that create and release make are the only ones then.
CallsInv ==
  /\ calls \in [Handles -> 0 .. 2]
  /\ phase \in [Handles -> {"none", "create", "release", "released"}]
  /\ \A h \in Handles :
       /\ calls[h] > 0 \/ phase[h] # "none" => h \in Open
       /\ phase[h] \in {"create", "release"} => calls[h] = 1
       /\ phase[h] = "released" => calls[h] = 0

OpenInv == /\ RemoteTyped /\ CopiesTyped /\ HandlesTyped /\ BagsTyped
           /\ WritersHaveCopies /\ CallsInv /\ BagsMatch

-----------------------------------------------------------------------------
LEMMA OnFinite ==
  ASSUME NEW p, NEW r
  PROVE  IsFiniteSet(On(p, r)) /\ IsFiniteSet(On(p, r)')
<1>1. On(p, r) \in SUBSET Handles /\ On(p, r)' \in SUBSET Handles
  BY DEF On, Open
<1> QED BY <1>1, FS_Subset, OpenFilesAssumption

\* While no handle is opened or closed, the bags may stay as they are.
LEMMA BagsStay ==
  ASSUME BagsMatch, UNCHANGED <<bags, fatal>>, Open' = Open,
         \A h \in Open : handle'[h].path = handle[h].path /\ handle'[h].readonly = handle[h].readonly
  PROVE  BagsMatch'
<1>1. \A p \in Paths, r \in BOOLEAN : On(p, r)' = On(p, r)
  BY DEF On
<1> QED BY <1>1 DEF BagsMatch, bags

\* A handle that is opened goes into the bag of its kind.
LEMMA BagsGrow ==
  ASSUME BagsMatch, BagsTyped, NEW h \in Handles, handle[h] = Closed, NEW o \in Record,
         handle \in [Handles -> {Closed} \cup Record],
         handle' = [handle EXCEPT ![h] = o], fatal' = fatal,
         writefiles' = IF o.readonly THEN writefiles ELSE Added(writefiles, o.path),
         readonlyfiles' = IF o.readonly THEN Added(readonlyfiles, o.path) ELSE readonlyfiles
  PROVE  BagsMatch' /\ BagsTyped'
<1>0. o # Closed /\ o.path \in Paths /\ o.readonly \in BOOLEAN
  BY ClosedAssumption DEF Record
<1>1. Open' = Open \cup {h} /\ h \notin Open
  BY <1>0 DEF Open
<1>2. ASSUME NEW p \in Paths, NEW r \in BOOLEAN
      PROVE  /\ h \notin On(p, r)
             /\ On(p, r)' = IF p = o.path /\ r = o.readonly THEN On(p, r) \cup {h} ELSE On(p, r)
  <2>1. handle'[h] = o /\ \A g \in Open : handle'[g] = handle[g]
    BY <1>1 DEF Open
  <2> QED BY <2>1, <1>1 DEF On
<1>3. ASSUME NEW p \in Paths, NEW r \in BOOLEAN
      PROVE  Cardinality(On(p, r)') = IF p = o.path /\ r = o.readonly
                                      THEN Cardinality(On(p, r)) + 1 ELSE Cardinality(On(p, r))
  BY <1>2, OnFinite, FS_AddElement
<1>4. BagsTyped'
  BY <1>0 DEF BagsTyped, Added
<1>5. ASSUME NEW p \in Paths
      PROVE  /\ writefiles'[p] = Cardinality(On(p, FALSE)')
             /\ readonlyfiles'[p] = Cardinality(On(p, TRUE)')
  <2>1. Cardinality(On(p, FALSE)') = (IF p = o.path /\ FALSE = o.readonly
                                      THEN Cardinality(On(p, FALSE)) + 1 ELSE Cardinality(On(p, FALSE)))
    BY <1>3
  <2>2. Cardinality(On(p, TRUE)') = (IF p = o.path /\ TRUE = o.readonly
                                      THEN Cardinality(On(p, TRUE)) + 1 ELSE Cardinality(On(p, TRUE)))
    BY <1>3
  <2>3. writefiles[p] = Cardinality(On(p, FALSE)) /\ readonlyfiles[p] = Cardinality(On(p, TRUE))
    BY DEF BagsMatch
  <2> QED BY <2>1, <2>2, <2>3, <1>0 DEF Added, BagsTyped
<1> QED BY <1>4, <1>5 DEF BagsMatch

\* A handle that is released is in its bag, and goes out of it.
LEMMA BagsShrink ==
  ASSUME OpenInv, NEW h \in Handles, Release(h)
  PROVE  BagsMatch' /\ BagsTyped'
<1> DEFINE o == handle[h]
<1>0. h \in Open /\ o \in Record /\ o.path \in Paths /\ o.readonly \in BOOLEAN
  BY DEF OpenInv, CallsInv, HandlesTyped, Release, Open, Record
<1>1. h \in On(o.path, o.readonly)
  BY <1>0 DEF On
<1>2. \A p \in Paths, r \in BOOLEAN : IsFiniteSet(On(p, r)) /\ Cardinality(On(p, r)) \in Nat
  BY OnFinite, FS_CardinalityType
<1>3. ASSUME NEW r \in BOOLEAN, r = o.readonly
      PROVE  Cardinality(On(o.path, r)) \in Nat /\ Cardinality(On(o.path, r)) > 0
  <2>1. h \in On(o.path, r)
    BY <1>1, <1>3
  <2>2. IsFiniteSet(On(o.path, r)) /\ Cardinality(On(o.path, r)) \in Nat
    BY <1>0, <1>2
  <2>3. Cardinality(On(o.path, r)) # 0
    BY <2>1, <2>2, FS_EmptySet
  <2> QED BY <2>2, <2>3
<1>4. /\ writefiles' = IF o.readonly THEN writefiles ELSE Removed(writefiles, o.path)
      /\ readonlyfiles' = IF o.readonly THEN Removed(readonlyfiles, o.path) ELSE readonlyfiles
      /\ handle' = [handle EXCEPT ![h] = Closed] /\ fatal' = fatal
  <2>1. Has(IF o.readonly THEN readonlyfiles ELSE writefiles, o.path)
    <3>1. CASE o.readonly = TRUE
      <4>1. Cardinality(On(o.path, TRUE)) > 0
        BY <3>1, <1>3
      <4> QED BY <3>1, <4>1, <1>0 DEF OpenInv, BagsMatch, Has
    <3>2. CASE o.readonly = FALSE
      <4>1. Cardinality(On(o.path, FALSE)) > 0
        BY <3>2, <1>3
      <4> QED BY <3>2, <4>1, <1>0 DEF OpenInv, BagsMatch, Has
    <3> QED BY <3>1, <3>2, <1>0
  <2> QED BY <2>1, <1>0 DEF Release, Entry
<1>5. Open' = Open \ {h}
  BY <1>0, <1>4 DEF Open, OpenInv, HandlesTyped
<1>6. ASSUME NEW p \in Paths, NEW r \in BOOLEAN
      PROVE  On(p, r)' = IF p = o.path /\ r = o.readonly THEN On(p, r) \ {h} ELSE On(p, r)
  <2>1. \A g \in Open' : handle'[g] = handle[g]
    BY <1>4, <1>5 DEF Open
  <2> QED BY <2>1, <1>5 DEF On
<1>7. ASSUME NEW p \in Paths, NEW r \in BOOLEAN
      PROVE  Cardinality(On(p, r)') = IF p = o.path /\ r = o.readonly
                                      THEN Cardinality(On(p, r)) - 1 ELSE Cardinality(On(p, r))
  BY <1>1, <1>6, OnFinite, FS_RemoveElement
<1>8. ASSUME NEW p \in Paths
      PROVE  /\ writefiles'[p] = Cardinality(On(p, FALSE)') /\ writefiles'[p] \in Nat
             /\ readonlyfiles'[p] = Cardinality(On(p, TRUE)') /\ readonlyfiles'[p] \in Nat
  <2> DEFINE w == Cardinality(On(p, FALSE))
             r == Cardinality(On(p, TRUE))
             ww == Cardinality(On(p, FALSE)')
             rr == Cardinality(On(p, TRUE)')
  <2>1. ww = (IF p = o.path /\ FALSE = o.readonly THEN w - 1 ELSE w)
    BY <1>7
  <2>2. rr = (IF p = o.path /\ TRUE = o.readonly THEN r - 1 ELSE r)
    BY <1>7
  <2>3. writefiles[p] = w /\ readonlyfiles[p] = r
    BY DEF OpenInv, BagsMatch
  <2>4. w \in Nat /\ r \in Nat
    BY <1>2
  <2>5. (p = o.path /\ FALSE = o.readonly => w > 0) /\ (p = o.path /\ TRUE = o.readonly => r > 0)
    BY <1>3
  <2> HIDE DEF w, r, ww, rr
  <2>6. writefiles'[p] = ww /\ writefiles'[p] \in Nat /\ readonlyfiles'[p] = rr /\ readonlyfiles'[p] \in Nat
    <3>1. CASE o.readonly = TRUE
      BY <3>1, <2>1, <2>2, <2>3, <2>4, <2>5, <1>0, <1>4 DEF OpenInv, BagsTyped, Removed
    <3>2. CASE o.readonly = FALSE
      BY <3>2, <2>1, <2>2, <2>3, <2>4, <2>5, <1>0, <1>4 DEF OpenInv, BagsTyped, Removed
    <3> QED BY <3>1, <3>2, <1>0
  <2> QED BY <2>6 DEF w, r, ww, rr
<1>9. writefiles' \in [Paths -> Nat] /\ readonlyfiles' \in [Paths -> Nat]
  BY <1>4, <1>8 DEF OpenInv, BagsTyped, Removed
<1> QED BY <1>4, <1>8, <1>9 DEF BagsMatch, BagsTyped, OpenInv

-----------------------------------------------------------------------------
LEMMA Latest ==
  ASSUME RemoteTyped, NEW p \in Paths, at[p] # None
  PROVE  at[p] \in Keys /\ Rev(at[p]) \in Revs /\ hist[at[p]][Rev(at[p])] \in Contents
<1>1. at[p] \in Keys /\ hist[at[p]] \in Seq(Contents) /\ Len(hist[at[p]]) \in Nat
  BY LenProperties DEF RemoteTyped
<1>2. Rev(at[p]) \in Revs
  BY <1>1, OpenFilesAssumption DEF RemoteTyped, Rev, Revs
<1> QED BY <1>1, <1>2, ElementOfSeq DEF Rev, Revs

\* A revision more of one file.
LEMMA Revise ==
  ASSUME RemoteTyped, NEW k \in Keys, NEW c \in Contents, Rev(k) < MaxRev,
         hist' = [hist EXCEPT ![k] = Append(@, c)],
         at' \in [Paths -> Keys \cup {None}],
         \A p \in Paths : at'[p] # None /\ at'[p] # at[p] => at'[p] = k
  PROVE  RemoteTyped'
<1>1. hist[k] \in Seq(Contents) /\ Rev(k) \in Nat
  BY LenProperties DEF RemoteTyped, Rev
<1>2. Append(hist[k], c) \in Seq(Contents) /\ Len(Append(hist[k], c)) = Rev(k) + 1
  BY <1>1, AppendProperties DEF Rev
<1>3. hist' \in [Keys -> Seq(Contents)]
  BY <1>2 DEF RemoteTyped
<1>4. Rev(k)' = Rev(k) + 1 /\ \A j \in Keys : j # k => Rev(j)' = Rev(j)
  BY <1>2 DEF RemoteTyped, Rev
<1>5. \A j \in Keys : Rev(j)' <= MaxRev
  BY <1>1, <1>4, OpenFilesAssumption DEF RemoteTyped
<1>6. ASSUME NEW p \in Paths, at'[p] # None PROVE Rev(at[p])' >= 1
  <2>1. at'[p] \in Keys
    BY <1>6
  <2>2. CASE at'[p] = k
    BY <2>2, <1>1, <1>4 DEF Rev
  <2>3. CASE at'[p] # k
    <3>1. at'[p] = at[p] /\ Rev(at[p]) >= 1
      BY <2>3, <1>6 DEF RemoteTyped
    <3> QED BY <2>1, <2>3, <3>1, <1>4 DEF Rev
  <2> QED BY <2>2, <2>3
<1> QED BY <1>3, <1>5, <1>6 DEF RemoteTyped

LEMMA OpenFilesInit == Init => OpenInv
<1> SUFFICES ASSUME Init PROVE OpenInv
  OBVIOUS
<1>1. PICK p \in Paths, k \in Keys, c \in Contents :
        /\ at = [q \in Paths |-> IF q = p THEN k ELSE None]
        /\ hist = [j \in Keys |-> IF j = k THEN <<c>> ELSE <<>>]
  BY DEF Init
<1>2. RemoteTyped
  <2>1. Len(<<c>>) = 1 /\ <<c>> \in Seq(Contents) /\ Len(<<>>) = 0 /\ <<>> \in Seq(Contents)
    OBVIOUS
  <2> QED BY <1>1, <2>1, OpenFilesAssumption DEF RemoteTyped, Rev
<1>3. CopiesTyped /\ HandlesTyped /\ BagsTyped /\ Open = {}
  BY OpenFilesAssumption DEF Init, CopiesTyped, HandlesTyped, BagsTyped, Open, Revs
<1>4. WritersHaveCopies /\ CallsInv
  BY <1>3 DEF Init, WritersHaveCopies, CallsInv, Writers
<1>5. BagsMatch
  <2>1. \A q, r : On(q, r) = {}
    BY <1>3 DEF On
  <2> QED BY <2>1, FS_EmptySet DEF Init, BagsMatch
<1> QED BY <1>2, <1>3, <1>4, <1>5 DEF OpenInv

-----------------------------------------------------------------------------
LEMMA OpenStep ==
  ASSUME OpenInv, NEW h \in Handles, NEW p \in Paths, NEW readonly \in BOOLEAN,
         OpenFile(h, p, readonly)
  PROVE  OpenInv'
<1> DEFINE k == at[p]
           o == [path |-> p, local |-> FALSE, readonly |-> readonly, flushed |-> TRUE,
                 file |-> k, name |-> Rev(k), data |-> {}, wrote |-> {}]
<1>1. k \in Keys /\ Rev(k) \in Revs /\ hist[k][Rev(k)] \in Contents
  BY Latest DEF OpenFile, OpenInv
<1>2. o \in Record /\ o.path = p /\ o.readonly = readonly
  BY <1>1 DEF Record, Contents, Revs
<1>3. handle' = [handle EXCEPT ![h] = o] /\ handle[h] = Closed /\ h \notin Open
  BY DEF OpenFile, Open
<1>4. BagsMatch' /\ BagsTyped'
  <2>1. fatal' = fatal
    BY DEF OpenFile
  <2>2. /\ writefiles' = IF o.readonly THEN writefiles ELSE Added(writefiles, o.path)
        /\ readonlyfiles' = IF o.readonly THEN Added(readonlyfiles, o.path) ELSE readonlyfiles
    BY <1>2 DEF OpenFile
  <2> HIDE DEF o
  <2> QED BY <1>2, <1>3, <2>1, <2>2, BagsGrow DEF OpenInv, HandlesTyped
<1>5. HandlesTyped'
  <2>1. ops' = ops
    BY DEF OpenFile
  <2> HIDE DEF o
  <2> QED BY <1>2, <1>3, <2>1 DEF OpenInv, HandlesTyped
<1>6. FreshCopy(k) \in Contents
  BY <1>1 DEF FreshCopy, OpenInv, CopiesTyped
<1>7. CopiesTyped' /\ (fresh' = fresh \/ fresh' = [fresh EXCEPT ![k][Rev(k)] = FreshCopy(k)])
  BY <1>1, <1>6 DEF OpenInv, CopiesTyped, OpenFile, Revs
<1>8. Open' = Open \cup {h} /\ \A g \in Open : handle'[g] = handle[g]
  <2> HIDE DEF o
  <2> QED BY <1>2, <1>3, ClosedAssumption DEF OpenInv, HandlesTyped, Open
<1>9. WritersHaveCopies'
  <2> SUFFICES ASSUME NEW g \in Writers', ~handle'[g].local
               PROVE  /\ handle'[g].file \in Keys /\ handle'[g].name \in Revs
                      /\ fresh'[handle'[g].file][handle'[g].name] \in Contents
    BY DEF WritersHaveCopies
  <2>1. CASE g = h
    <3>1. handle'[h] = o /\ ~readonly
      BY <2>1, <1>3 DEF Writers, OpenInv, HandlesTyped
    <3>2. fresh'[k][Rev(k)] = FreshCopy(k)
      BY <3>1, <1>1 DEF OpenFile, OpenInv, CopiesTyped
    <3>3. handle'[h].file = k /\ handle'[h].name = Rev(k)
      BY <3>1
    <3>4. fresh'[handle'[h].file][handle'[h].name] \in Contents
      BY <3>2, <3>3, <1>6
    <3>5. handle'[h].file \in Keys /\ handle'[h].name \in Revs
      BY <3>3, <1>1
    <3> QED BY <2>1, <3>4, <3>5
  <2>2. CASE g # h
    <3>1. g \in Writers /\ handle'[g] = handle[g]
      BY <2>2, <1>8 DEF Writers, Open
    <3>2. handle[g].file \in Keys /\ handle[g].name \in Revs
          /\ fresh[handle[g].file][handle[g].name] \in Contents
      BY <3>1 DEF OpenInv, WritersHaveCopies
    <3> DEFINE n == Rev(k)
               c == FreshCopy(k)
    <3>3. k \in Keys /\ n \in Revs /\ c \in Contents
          /\ (fresh' = fresh \/ fresh' = [fresh EXCEPT ![k][n] = c])
      BY <1>1, <1>6, <1>7
    <3> HIDE DEF k, n, c
    <3>4. fresh'[handle[g].file][handle[g].name] \in Contents
      <4>1. CASE fresh' = fresh
        BY <3>2, <4>1
      <4>2. ASSUME NEW f \in Keys, NEW r \in Revs, fresh[f][r] \in Contents,
                   fresh' = [fresh EXCEPT ![k][n] = c]
            PROVE  fresh'[f][r] \in Contents
        BY <3>3, <4>2 DEF OpenInv, CopiesTyped
      <4> QED BY <3>2, <3>3, <4>1, <4>2
    <3> QED BY <3>1, <3>2, <3>4
  <2> QED BY <2>1, <2>2
<1>10. CallsInv' /\ RemoteTyped'
  BY <1>8 DEF OpenFile, OpenInv, CallsInv, RemoteTyped, Rev
<1> QED BY <1>4, <1>5, <1>7, <1>9, <1>10 DEF OpenInv

LEMMA CreateStep ==
  ASSUME OpenInv, NEW h \in Handles, NEW p \in Paths, Create(h, p)
  PROVE  OpenInv'
<1> DEFINE o == [path |-> p, local |-> TRUE, readonly |-> FALSE, flushed |-> FALSE,
                 file |-> None, name |-> 0, data |-> {}, wrote |-> {}]
<1>2. o \in Record /\ o.path = p /\ o.readonly = FALSE /\ o.local = TRUE
  BY OpenFilesAssumption DEF Record, Contents
<1>3. handle' = [handle EXCEPT ![h] = o] /\ handle[h] = Closed
  BY DEF Create
<1> HIDE DEF o
<1>4. BagsMatch' /\ BagsTyped'
  <2>1. fatal' = fatal /\ writefiles' = (IF o.readonly THEN writefiles ELSE Added(writefiles, o.path))
        /\ readonlyfiles' = (IF o.readonly THEN Added(readonlyfiles, o.path) ELSE readonlyfiles)
    BY <1>2 DEF Create
  <2> QED BY <1>2, <1>3, <2>1, BagsGrow DEF OpenInv, HandlesTyped
<1>5. HandlesTyped'
  BY <1>2, <1>3 DEF OpenInv, HandlesTyped, Create
<1>8. Open' = Open \cup {h} /\ handle'[h] = o /\ \A g \in Open : handle'[g] = handle[g]
  BY <1>2, <1>3, ClosedAssumption DEF OpenInv, HandlesTyped, Open
<1>9. WritersHaveCopies'
  BY <1>2, <1>8 DEF OpenInv, WritersHaveCopies, Writers, Create
<1>10. CallsInv'
  BY <1>8 DEF Create, OpenInv, CallsInv
<1>11. RemoteTyped' /\ CopiesTyped'
  BY DEF Create, OpenInv, RemoteTyped, CopiesTyped, Rev
<1> QED BY <1>4, <1>5, <1>9, <1>10, <1>11 DEF OpenInv

LEMMA WriteStep ==
  ASSUME OpenInv, NEW h \in Handles, NEW e \in Edits, Write(h, e)
  PROVE  OpenInv'
<1> DEFINE o == handle[h]
           n == [o EXCEPT !.data = IF o.local THEN @ \cup {e} ELSE @, !.wrote = @ \cup {e},
                          !.flushed = FALSE]
<1>1. h \in Writers /\ h \in Open /\ o \in Record
  BY DEF Write, Writers, Open, OpenInv, HandlesTyped
<1>2. n \in Record /\ n.path = o.path /\ n.readonly = o.readonly /\ n.local = o.local
      /\ n.file = o.file /\ n.name = o.name
  BY <1>1 DEF Record, Contents
<1>3. handle' = [handle EXCEPT ![h] = n]
  BY DEF Write
<1> HIDE DEF n
<1>4. HandlesTyped'
  BY <1>2, <1>3 DEF OpenInv, HandlesTyped, Write
<1>5. handle'[h] = n /\ (\A g \in Open : g # h => handle'[g] = handle[g]) /\ Open' = Open
  BY <1>1, <1>2, <1>3, ClosedAssumption DEF OpenInv, HandlesTyped, Open
<1>6. BagsMatch' /\ BagsTyped'
  BY <1>2, <1>5, BagsStay DEF OpenInv, Write, bags, BagsTyped
<1>7. \/ fresh' = fresh
      \/ /\ ~o.local
         /\ fresh' = [fresh EXCEPT ![o.file][o.name] = @ \cup {e}]
         /\ o.file \in Keys /\ o.name \in Revs /\ fresh[o.file][o.name] \in Contents
  BY <1>1 DEF Write, OpenInv, WritersHaveCopies
<1>8. CopiesTyped' /\ \A k \in Keys, r \in Revs : fresh[k][r] \in Contents => fresh'[k][r] \in Contents
  BY <1>7 DEF OpenInv, CopiesTyped, Write, Contents
<1>9. WritersHaveCopies'
  <2>1. Writers' = Writers
    BY <1>2, <1>5 DEF Writers
  <2> QED BY <2>1, <1>2, <1>5, <1>8 DEF OpenInv, WritersHaveCopies, Writers
<1>10. CallsInv' /\ RemoteTyped'
  BY <1>5 DEF Write, OpenInv, CallsInv, RemoteTyped, Rev
<1> QED BY <1>4, <1>6, <1>8, <1>9, <1>10 DEF OpenInv

\* What leaves the handles alone but for their calls.
LEMMA CallStep ==
  ASSUME OpenInv, NEW h \in Handles, FlushCheck(h) \/ StartRelease(h)
  PROVE  OpenInv'
<1>1. UNCHANGED <<at, hist, lrev, fresh, handle, bags, fatal, ops>>
  BY DEF FlushCheck, StartRelease
<1>2. RemoteTyped' /\ CopiesTyped' /\ HandlesTyped' /\ BagsTyped' /\ WritersHaveCopies' /\ Open' = Open
  BY <1>1 DEF OpenInv, RemoteTyped, CopiesTyped, HandlesTyped, BagsTyped, WritersHaveCopies,
              Writers, Open, Rev, bags
<1>3. BagsMatch'
  BY <1>1, <1>2, BagsStay DEF OpenInv
<1>4. CallsInv'
  BY <1>2 DEF FlushCheck, StartRelease, MaxCalls, OpenInv, CallsInv
<1> QED BY <1>2, <1>3, <1>4 DEF OpenInv

\* The part of flush that concerns the service and the handle.
LEMMA UploadStep ==
  ASSUME OpenInv, NEW h \in Open,
         \/ UNCHANGED <<at, hist, handle>>
         \/ handle[h].local /\ UploadLocal(h)
         \/ ~handle[h].local /\ UploadPatch(h)
  PROVE  /\ RemoteTyped'
         /\ handle' = handle \/ \E k \in Keys \cup {None} :
              /\ k = handle[h].file \/ handle[h].local
              /\ handle' = [handle EXCEPT ![h] = [@ EXCEPT !.flushed = TRUE, !.file = k]]
<1> DEFINE o == handle[h]
<1>0. h \in Handles /\ o \in Record /\ o.path \in Paths /\ o.data \in Contents
      /\ o.file \in Keys \cup {None}
  BY DEF Open, OpenInv, HandlesTyped, Record
<1>1. CASE UNCHANGED <<at, hist, handle>>
  BY <1>1 DEF OpenInv, RemoteTyped, Rev
<1>2. CASE o.local /\ UploadLocal(h)
  <2>1. CASE at[o.path] # None /\ Rev(at[o.path]) < MaxRev
             /\ hist' = [hist EXCEPT ![at[o.path]] = Append(@, o.data)]
             /\ Flushed(h, at[o.path]) /\ UNCHANGED at
    <3>1. at[o.path] \in Keys
      BY <1>0, <2>1 DEF OpenInv, RemoteTyped
    <3>2. RemoteTyped'
      BY <1>0, <2>1, <3>1, Revise DEF OpenInv, RemoteTyped
    <3> QED BY <1>2, <2>1, <3>1, <3>2 DEF Flushed
  <2>2. ASSUME at[o.path] = None, NEW k \in Keys, hist[k] = <<>>, hist' = [hist EXCEPT ![k] = <<o.data>>],
               at' = [at EXCEPT ![o.path] = k], Flushed(h, k)
        PROVE  RemoteTyped' /\ handle' = [handle EXCEPT ![h] = [@ EXCEPT !.flushed = TRUE, !.file = k]]
    <3>1. hist' = [hist EXCEPT ![k] = Append(@, o.data)]
      <4>1. Append(<<>>, o.data) = <<o.data>>
        OBVIOUS
      <4> QED BY <2>2, <4>1
    <3>2. Rev(k) < MaxRev
      BY <2>2, OpenFilesAssumption DEF Rev
    <3>3. at' \in [Paths -> Keys \cup {None}] /\ \A p \in Paths : at'[p] = at[p] \/ at'[p] = k
      BY <2>2, <1>0 DEF OpenInv, RemoteTyped
    <3>4. RemoteTyped'
      BY <1>0, <3>1, <3>2, <3>3, Revise DEF OpenInv
    <3> QED BY <2>2, <3>4 DEF Flushed
  <2> QED BY <1>2, <2>1, <2>2 DEF UploadLocal
<1>3. CASE ~o.local /\ UploadPatch(h)
  <2> DEFINE k == at[o.path]
  <2>1. k \in Keys /\ lrev[k] \in Revs /\ fresh[k][lrev[k]] \in Contents
    <3>1. k # None /\ lrev[k] # 0 /\ fresh[k][lrev[k]] # None
      BY <1>3 DEF UploadPatch, PatchKey
    <3>2. k \in Keys
      BY <1>0, <3>1 DEF OpenInv, RemoteTyped
    <3> HIDE DEF k
    <3>3. lrev[k] \in Revs
      BY <3>1, <3>2, OpenFilesAssumption DEF OpenInv, CopiesTyped, Revs
    <3>4. fresh[k][lrev[k]] \in {None} \cup Contents
      BY <3>2, <3>3 DEF OpenInv, CopiesTyped
    <3> QED BY <3>1, <3>2, <3>3, <3>4
  <2>2. RemoteTyped'
    <3>1. CASE UNCHANGED hist
      BY <1>3, <3>1 DEF UploadPatch, OpenInv, RemoteTyped, Rev
    <3>2. CASE Rev(k) < MaxRev /\ hist' = [hist EXCEPT ![k] = Append(@, fresh[k][lrev[k]])]
      <4>1. at' = at
        BY <1>3 DEF UploadPatch
      <4> QED BY <3>2, <4>1, <2>1, Revise DEF OpenInv, RemoteTyped
    <3> QED BY <1>3, <3>1, <3>2 DEF UploadPatch, PatchKey
  <2>3. handle' = [handle EXCEPT ![h] = [@ EXCEPT !.flushed = TRUE, !.file = o.file]]
    <3>1. [o EXCEPT !.flushed = TRUE] = [o EXCEPT !.flushed = TRUE, !.file = o.file]
      BY <1>0 DEF Record
    <3> QED BY <1>3, <3>1 DEF UploadPatch
  <2> QED BY <1>0, <2>2, <2>3
<1> QED BY <1>1, <1>2, <1>3

LEMMA FlushStep ==
  ASSUME OpenInv, NEW h \in Handles, Flush(h)
  PROVE  OpenInv'
<1>1. h \in Open /\ calls[h] > 0
  BY DEF Flush, OpenInv, CallsInv
<1>2. Returns(h) /\ UNCHANGED <<lrev, fresh, bags, fatal, ops>>
  BY DEF Flush, FlushFails
<1>3. /\ RemoteTyped'
      /\ handle' = handle \/ \E k \in Keys \cup {None} :
           /\ k = handle[h].file \/ handle[h].local
           /\ handle' = [handle EXCEPT ![h] = [@ EXCEPT !.flushed = TRUE, !.file = k]]
  BY <1>1, UploadStep DEF Flush, FlushFails
<1>4. handle[h] \in Record
  BY <1>1 DEF OpenInv, HandlesTyped, Open
<1>5. /\ handle' \in [Handles -> {Closed} \cup Record] /\ Open' = Open
      /\ \A g \in Open :
           /\ handle'[g].path = handle[g].path /\ handle'[g].readonly = handle[g].readonly
           /\ handle'[g].local = handle[g].local
           /\ ~handle[g].local => handle'[g].file = handle[g].file /\ handle'[g].name = handle[g].name
  <2>1. CASE handle' = handle
    BY <2>1 DEF Open, OpenInv, HandlesTyped
  <2>2. ASSUME NEW k \in Keys \cup {None}, k = handle[h].file \/ handle[h].local,
               handle' = [handle EXCEPT ![h] = [@ EXCEPT !.flushed = TRUE, !.file = k]]
        PROVE  <1>5!1 /\ <1>5!2
    <3> DEFINE n == [handle[h] EXCEPT !.flushed = TRUE, !.file = k]
    <3>1. n \in Record /\ n.path = handle[h].path /\ n.readonly = handle[h].readonly
          /\ n.local = handle[h].local /\ n.name = handle[h].name /\ n.file = k
      BY <1>4 DEF Record
    <3>2. handle' = [handle EXCEPT ![h] = n]
      BY <2>2
    <3> HIDE DEF n
    <3>3. handle'[h] = n /\ \A g \in Handles : g # h => handle'[g] = handle[g]
      BY <3>2 DEF OpenInv, HandlesTyped
    <3>4. handle' \in [Handles -> {Closed} \cup Record]
      BY <3>1, <3>2 DEF OpenInv, HandlesTyped
    <3>5. Open' = Open
      BY <1>1, <3>1, <3>3, ClosedAssumption DEF Open
    <3> QED BY <3>1, <3>3, <3>4, <3>5, <2>2 DEF Open
  <2> QED BY <1>3, <2>1, <2>2
<1>6. HandlesTyped' /\ CopiesTyped' /\ BagsTyped'
  BY <1>2, <1>5 DEF OpenInv, HandlesTyped, CopiesTyped, BagsTyped, bags
<1>7. WritersHaveCopies'
  <2>1. Writers' = Writers
    BY <1>5 DEF Writers
  <2>2. fresh' = fresh
    BY <1>2
  <2> QED BY <2>1, <2>2, <1>5 DEF OpenInv, WritersHaveCopies, Writers
<1>8. BagsMatch'
  BY <1>2, <1>5, BagsStay DEF OpenInv
<1>9. CallsInv'
  BY <1>1, <1>2, <1>5 DEF Returns, OpenInv, CallsInv
<1> QED BY <1>3, <1>6, <1>7, <1>8, <1>9 DEF OpenInv

LEMMA ReleaseStep ==
  ASSUME OpenInv, NEW h \in Handles, Release(h)
  PROVE  OpenInv'
<1>1. BagsMatch' /\ BagsTyped'
  BY BagsShrink
<1>2. handle' = [handle EXCEPT ![h] = Closed] /\ phase' = [phase EXCEPT ![h] = "none"] /\ calls[h] = 0
  BY <1>1 DEF Release, BagsMatch, OpenInv, CallsInv
<1>3. UNCHANGED <<at, hist, lrev, fresh, calls, ops>>
  BY DEF Release
<1>4. HandlesTyped' /\ CopiesTyped' /\ RemoteTyped'
  BY <1>2, <1>3 DEF OpenInv, HandlesTyped, CopiesTyped, RemoteTyped, Rev
<1>5. Open' = Open \ {h} /\ \A g \in Open' : handle'[g] = handle[g]
  BY <1>2 DEF Open, OpenInv, HandlesTyped
<1>6. WritersHaveCopies' /\ CallsInv'
  BY <1>2, <1>3, <1>5 DEF OpenInv, WritersHaveCopies, Writers, CallsInv
<1> QED BY <1>1, <1>4, <1>6 DEF OpenInv

LEMMA PathStep ==
  ASSUME OpenInv, NEW p \in Paths, (\E q \in Paths : Rename(p, q)) \/ Unlink(p)
  PROVE  OpenInv'
<1>1. UNCHANGED <<hist, lrev, fresh, handle, calls, phase, bags, fatal, ops>>
  BY DEF Rename, Unlink
<1>2. CopiesTyped' /\ HandlesTyped' /\ BagsTyped' /\ WritersHaveCopies' /\ CallsInv' /\ Open' = Open
  BY <1>1 DEF OpenInv, CopiesTyped, HandlesTyped, BagsTyped, WritersHaveCopies, Writers,
              CallsInv, Open, bags
<1>3. BagsMatch'
  BY <1>1, <1>2, BagsStay DEF OpenInv
<1>4. at' \in [Paths -> Keys \cup {None}]
      /\ \A x \in Paths : at'[x] # None => \E y \in Paths : at'[x] = at[y]
  BY DEF Rename, Unlink, OpenInv, RemoteTyped
<1>5. RemoteTyped'
  BY <1>1, <1>4 DEF OpenInv, RemoteTyped, Rev
<1> QED BY <1>2, <1>3, <1>5 DEF OpenInv

LEMMA OpenFilesStep == OpenInv /\ [Next]_vars => OpenInv'
<1> SUFFICES ASSUME OpenInv, [Next]_vars PROVE OpenInv'
  OBVIOUS
<1>1. CASE Next
  BY <1>1, OpenStep, CreateStep, WriteStep, CallStep, FlushStep, ReleaseStep, PathStep DEF Next
<1>2. CASE UNCHANGED vars
  <2>1. RemoteTyped' /\ CopiesTyped' /\ HandlesTyped' /\ BagsTyped' /\ WritersHaveCopies'
        /\ CallsInv' /\ Open' = Open
    BY <1>2 DEF vars, OpenInv, RemoteTyped, CopiesTyped, HandlesTyped, BagsTyped,
                WritersHaveCopies, Writers, CallsInv, Open, Rev
  <2>2. BagsMatch'
    BY <1>2, <2>1, BagsStay DEF OpenInv, vars, bags
  <2> QED BY <2>1, <2>2 DEF OpenInv
<1> QED BY <1>1, <1>2

LEMMA OpenFilesInductive == Spec => []OpenInv
BY OpenFilesInit, OpenFilesStep, PTL DEF Spec

\* The variables have their types (fuse/operations.h, struct mediafirefs_openfile).
THEOREM OpenFilesTypeCorrect == Spec => []TypeOK
<1>1. OpenInv => TypeOK
  BY DEF OpenInv, RemoteTyped, CopiesTyped, HandlesTyped, BagsTyped, CallsInv, BagsMatch, TypeOK, Open
<1> QED BY <1>1, OpenFilesInductive, PTL

\* The bags of open paths agree with the handles, and release never ends the
\* process over a missing entry (release.c:84 and 97), whatever is renamed or
\* fails while files are open.
THEOREM BagsCorrect == Spec => []BagsMatch
<1>1. OpenInv => BagsMatch
  BY DEF OpenInv
<1> QED BY <1>1, OpenFilesInductive, PTL

-----------------------------------------------------------------------------
(* One writer at a time, and no renames.                                   *)

\* Then the file of the writer stays at its path, no copy for writing is of a
\* later revision than the writer's, so that a flush that finds the copy of the
\* revision that the tree calls local finds the writer's; and what it wrote is
\* in that copy, or in its own for a file that it created.
Sole == ops \cap {"writers", "rename"} = {}

CopiesOld == \A k \in Keys, r \in Revs : fresh[k][r] # None => r <= Rev(k)
OneWriter == \A g, h \in Writers : g = h
Keeps(h) ==
  LET o == handle[h] IN
    /\ o.file # None => at[o.path] = o.file /\ o.name <= Rev(o.file)
    /\ o.local => o.name = 0 /\ o.wrote \subseteq o.data
    /\ ~o.local => /\ o.name <= lrev[o.file]
                   /\ o.wrote \subseteq fresh[o.file][o.name]
                   /\ \A r \in Revs : fresh[o.file][r] # None => r <= o.name
    /\ o.flushed => Stored(h)

SoleWriter == CopiesOld /\ OneWriter /\ \A h \in Writers : Keeps(h)
SoleInv == Sole => SoleWriter

LEMMA WriterFacts ==
  ASSUME OpenInv, NEW h \in Writers
  PROVE  /\ h \in Handles /\ h \in Open /\ handle[h] \in Record /\ ~handle[h].readonly
         /\ handle[h].path \in Paths /\ handle[h].name \in Nat /\ handle[h].file \in Keys \cup {None}
         /\ handle[h].data \in Contents /\ handle[h].wrote \in Contents
         /\ handle[h].file # None => handle[h].file \in Keys /\ lrev[handle[h].file] \in Nat
         /\ ~handle[h].local =>
              /\ handle[h].file \in Keys /\ handle[h].file # None /\ handle[h].name \in Revs
              /\ fresh[handle[h].file][handle[h].name] \in Contents
<1>1. h \in Handles /\ h \in Open /\ handle[h] \in Record /\ ~handle[h].readonly
  BY DEF Writers, Open, OpenInv, HandlesTyped
<1>2. \A k \in Keys : Rev(k) \in Nat /\ lrev[k] \in Nat
  BY LenProperties, OpenFilesAssumption DEF OpenInv, RemoteTyped, CopiesTyped, Rev
<1>3. /\ handle[h].path \in Paths /\ handle[h].name \in Nat /\ handle[h].file \in Keys \cup {None}
      /\ handle[h].data \in Contents /\ handle[h].wrote \in Contents
  BY <1>1, OpenFilesAssumption DEF Record
<1> QED BY <1>1, <1>2, <1>3, OpenFilesAssumption DEF OpenInv, WritersHaveCopies

\* Files only get more revisions.
LEMMA HistGrows ==
  ASSUME OpenInv,
         hist' = hist \/ \E k \in Keys, c \in Contents : hist' = [hist EXCEPT ![k] = Append(@, c)]
  PROVE  \A k \in Keys : /\ Rev(k) \in Nat /\ Rev(k)' \in Nat /\ Rev(k) <= Rev(k)'
                         /\ \A r \in 1 .. Rev(k) : r \in 1 .. Rev(k)' /\ hist'[k][r] = hist[k][r]
<1>1. \A k \in Keys : hist[k] \in Seq(Contents) /\ Rev(k) \in Nat
  BY LenProperties DEF OpenInv, RemoteTyped, Rev
<1>2. CASE hist' = hist
  BY <1>1, <1>2 DEF Rev
<1>3. ASSUME NEW k \in Keys, NEW c \in Contents, hist' = [hist EXCEPT ![k] = Append(@, c)],
             NEW j \in Keys
      PROVE  /\ Rev(j)' \in Nat /\ Rev(j) <= Rev(j)'
             /\ \A r \in 1 .. Rev(j) : r \in 1 .. Rev(j)' /\ hist'[j][r] = hist[j][r]
  <2>1. CASE j = k
    <3>1. hist'[k] = Append(hist[k], c)
      BY <1>3 DEF OpenInv, RemoteTyped
    <3>2. Len(hist'[k]) = Len(hist[k]) + 1 /\ \A r \in 1 .. Len(hist[k]) : hist'[k][r] = hist[k][r]
      BY <1>1, <3>1, AppendProperties
    <3> QED BY <1>1, <2>1, <3>2 DEF Rev
  <2>2. CASE j # k
    <3>1. hist'[j] = hist[j]
      BY <1>3, <2>2 DEF OpenInv, RemoteTyped
    <3> QED BY <1>1, <3>1 DEF Rev
  <2> QED BY <2>1, <2>2
<1> QED BY <1>1, <1>2, <1>3

\* A writer that a step leaves alone, with the copies of its file.
LEMMA KeepsStay ==
  ASSUME OpenInv, OpenInv', NEW h \in Writers, Keeps(h), handle'[h] = handle[h],
         hist' = hist \/ \E k \in Keys, c \in Contents : hist' = [hist EXCEPT ![k] = Append(@, c)],
         handle[h].file # None => at'[handle[h].path] = at[handle[h].path],
         ~handle[h].local => /\ handle[h].name <= lrev'[handle[h].file]
                             /\ fresh'[handle[h].file] = fresh[handle[h].file]
  PROVE  Keeps(h)'
<1> DEFINE o == handle[h]
<1>1. /\ o.name \in Nat /\ (o.file # None => o.file \in Keys /\ lrev[o.file] \in Nat)
      /\ (~o.local => o.file # None)
  BY WriterFacts
<1>2. o.file # None => /\ Rev(o.file) \in Nat /\ Len(hist'[o.file]) \in Nat /\ Rev(o.file) <= Len(hist'[o.file])
                       /\ \A r \in 1 .. Rev(o.file) : r \in 1 .. Len(hist'[o.file]) /\ hist'[o.file][r] = hist[o.file][r]
  BY <1>1, HistGrows DEF Rev
<1>3. /\ o.file # None => at[o.path] = o.file /\ o.name <= Rev(o.file)
      /\ o.local => o.name = 0 /\ o.wrote \subseteq o.data
      /\ ~o.local => /\ o.name <= lrev[o.file]
                     /\ o.wrote \subseteq fresh[o.file][o.name]
                     /\ \A r \in Revs : fresh[o.file][r] # None => r <= o.name
      /\ o.flushed => o.file # None /\ \E r \in 1 .. Rev(o.file) : o.name <= r /\ o.wrote \subseteq hist[o.file][r]
  BY DEF Keeps, Stored
<1> HIDE DEF o
<1>4. /\ o.file # None => at'[o.path] = o.file /\ o.name <= Len(hist'[o.file])
      /\ ~o.local => /\ o.name <= lrev'[o.file]
                     /\ o.wrote \subseteq fresh'[o.file][o.name]
                     /\ \A r \in Revs : fresh'[o.file][r] # None => r <= o.name
  BY <1>1, <1>2, <1>3 DEF o
<1>5. o.flushed => o.file # None /\ \E r \in 1 .. Len(hist'[o.file]) : o.name <= r /\ o.wrote \subseteq hist'[o.file][r]
  BY <1>2, <1>3
<1>6. handle'[h] = o
  BY DEF o
<1> QED BY <1>3, <1>4, <1>5, <1>6 DEF Keeps, Stored, Rev

LEMMA SoleOpens ==
  ASSUME OpenInv, OpenInv', Sole, SoleWriter, NEW h \in Handles, NEW p \in Paths,
         NEW readonly \in BOOLEAN, OpenFile(h, p, readonly)
  PROVE  SoleWriter'
<1> DEFINE k == at[p]
           o == [path |-> p, local |-> FALSE, readonly |-> readonly, flushed |-> TRUE,
                 file |-> k, name |-> Rev(k), data |-> {}, wrote |-> {}]
<1>1. /\ k \in Keys /\ Rev(k) \in Revs /\ Rev(k) \in Nat /\ Rev(k) >= 1 /\ k # None
      /\ \A j \in Keys : Rev(j)' = Rev(j)
      /\ UNCHANGED <<at, hist>> /\ handle[h] = Closed
  BY Latest, OpenFilesAssumption DEF OpenFile, OpenInv, Revs, Rev
<1>2. /\ handle'[h] = o /\ \A g \in Handles : g # h => handle'[g] = handle[g]
      /\ o.readonly = readonly /\ o # Closed
  <2>1. handle' = [handle EXCEPT ![h] = o]
    BY DEF OpenFile
  <2>2. o \in Record
    BY <1>1 DEF Record, Contents, Revs
  <2> HIDE DEF o
  <2>3. handle'[h] = o /\ \A g \in Handles : g # h => handle'[g] = handle[g]
    BY <2>1 DEF OpenInv, HandlesTyped
  <2> QED BY <2>2, <2>3, ClosedAssumption DEF o
<1>3. /\ lrev'[k] = Rev(k) /\ \A j \in Keys : j # k => lrev'[j] = lrev[j]
  BY <1>1 DEF OpenFile, OpenInv, CopiesTyped
<1>4. \A j \in Keys, r \in Revs : fresh'[j][r] = fresh[j][r] \/ (j = k /\ r = Rev(k))
  BY <1>1 DEF OpenFile, OpenInv, CopiesTyped
<1>5. CopiesOld'
  <2>1. \A j \in Keys, r \in Revs : fresh'[j][r] # None => r <= Rev(j)
    BY <1>1, <1>4 DEF SoleWriter, CopiesOld
  <2> QED BY <1>1, <2>1 DEF CopiesOld
<1>6. CASE readonly
  <2>1. Writers' = Writers /\ \A g \in Writers : handle'[g] = handle[g]
    BY <1>1, <1>2, <1>6 DEF Writers, Open
  <2>2. ASSUME NEW g \in Writers PROVE Keeps(g)'
    <3>1. Keeps(g) /\ fresh' = fresh
      BY <1>6 DEF SoleWriter, OpenFile
    <3>2. ~handle[g].local => handle[g].name <= lrev'[handle[g].file]
      <4>1. handle[g].file # None => handle[g].name <= Rev(handle[g].file)
        BY <3>1 DEF Keeps
      <4>2. ~handle[g].local => handle[g].name <= lrev[handle[g].file]
        BY <3>1 DEF Keeps
      <4> QED BY <1>3, <4>1, <4>2, WriterFacts
    <3> QED BY <1>1, <2>1, <3>1, <3>2, KeepsStay
  <2> QED BY <1>5, <2>1, <2>2 DEF SoleWriter, OneWriter
<1>7. CASE ~readonly
  <2>1. Writers' = {h}
    <3>1. Writers = {}
      BY <1>7 DEF OpenFile, MayWrite, Sole
    <3> QED BY <1>2, <1>7, <3>1 DEF Writers, Open
  <2>2. Keeps(h)'
    <3>1. /\ o.file = k /\ o.path = p /\ o.name = Rev(k) /\ ~o.local /\ o.wrote = {}
      OBVIOUS
    <3>2. /\ at'[p] = k /\ Rev(k) <= Len(hist'[k]) /\ Rev(k) <= lrev'[k]
          /\ \A r \in Revs : fresh'[k][r] # None => r <= Rev(k)
      BY <1>1, <1>3, <1>5 DEF CopiesOld, Rev
    <3>3. Rev(k) \in 1 .. Len(hist'[k])
      BY <1>1 DEF Rev
    <3> HIDE DEF k, o
    <3>4. o.file = k /\ k # None /\ \E r \in 1 .. Len(hist'[k]) : o.name <= r /\ o.wrote \subseteq hist'[k][r]
      BY <1>1, <3>1, <3>3
    <3> QED BY <1>1, <1>2, <3>1, <3>2, <3>4 DEF Keeps, Stored, Rev
  <2> QED BY <1>5, <2>1, <2>2 DEF SoleWriter, OneWriter
<1> QED BY <1>6, <1>7

LEMMA SoleCreates ==
  ASSUME OpenInv, Sole, SoleWriter, NEW h \in Handles, NEW p \in Paths, Create(h, p)
  PROVE  SoleWriter'
<1> DEFINE o == [path |-> p, local |-> TRUE, readonly |-> FALSE, flushed |-> FALSE,
                 file |-> None, name |-> 0, data |-> {}, wrote |-> {}]
<1>1. handle' = [handle EXCEPT ![h] = o] /\ UNCHANGED <<at, hist, lrev, fresh>>
  BY DEF Create
<1>2. Writers = {}
  BY DEF Create, MayWrite, Sole
<1>3. Writers' = {h} /\ handle'[h] = o
  <2>1. o.readonly = FALSE /\ o \in Record
    BY OpenFilesAssumption DEF Record, Contents
  <2> HIDE DEF o
  <2>2. handle'[h] = o /\ \A g \in Handles : g # h => handle'[g] = handle[g]
    BY <1>1 DEF OpenInv, HandlesTyped
  <2> QED BY <1>2, <2>1, <2>2, ClosedAssumption DEF Writers, Open
<1>4. Keeps(h)'
  BY <1>3 DEF Keeps
<1>5. CopiesOld'
  BY <1>1 DEF SoleWriter, CopiesOld, Rev
<1> QED BY <1>3, <1>4, <1>5 DEF SoleWriter, OneWriter

LEMMA SoleWrites ==
  ASSUME OpenInv, SoleWriter, NEW h \in Handles, NEW e \in Edits, Write(h, e)
  PROVE  SoleWriter'
<1> DEFINE o == handle[h]
           n == [o EXCEPT !.data = IF o.local THEN @ \cup {e} ELSE @, !.wrote = @ \cup {e},
                          !.flushed = FALSE]
<1>1. h \in Writers /\ h \in Open /\ o \in Record /\ Writers = {h} /\ Keeps(h)
  BY WriterFacts DEF Write, SoleWriter, OneWriter
<1>2. /\ n.path = o.path /\ n.readonly = o.readonly /\ n.local = o.local /\ n.file = o.file
      /\ n.name = o.name /\ n.wrote = o.wrote \cup {e} /\ ~n.flushed /\ n \in Record
      /\ o.local => n.data = o.data \cup {e}
  BY <1>1 DEF Record, Contents
<1>3. handle' = [handle EXCEPT ![h] = n] /\ UNCHANGED <<at, hist, lrev>>
  BY DEF Write
<1>4. /\ o.local => fresh' = fresh
      /\ ~o.local => /\ fresh' = [fresh EXCEPT ![o.file][o.name] = @ \cup {e}]
                     /\ o.file \in Keys /\ o.name \in Revs /\ fresh[o.file][o.name] \in Contents
  BY <1>1, WriterFacts DEF Write
<1> HIDE DEF n
<1>5. handle'[h] = n /\ Writers' = {h}
  <2>1. handle'[h] = n /\ \A g \in Handles : g # h => handle'[g] = handle[g]
    BY <1>3 DEF OpenInv, HandlesTyped
  <2> QED BY <1>1, <1>2, <2>1, ClosedAssumption DEF Writers, Open
<1>6. ~o.local => fresh'[o.file][o.name] = fresh[o.file][o.name] \cup {e}
  BY <1>4 DEF OpenInv, CopiesTyped
<1>7. \A k \in Keys, r \in Revs : fresh'[k][r] # None => fresh[k][r] # None
  <2>1. \A k \in Keys, r \in Revs : fresh'[k][r] = fresh[k][r] \/ (~o.local /\ k = o.file /\ r = o.name)
    BY <1>4 DEF OpenInv, CopiesTyped
  <2> QED BY <1>4, <2>1, OpenFilesAssumption DEF Contents
<1>8. CopiesOld'
  BY <1>3, <1>7 DEF SoleWriter, CopiesOld, Rev
<1>9. Keeps(h)'
  <2>1. /\ o.file # None => at[o.path] = o.file /\ o.name <= Rev(o.file)
        /\ o.local => o.name = 0 /\ o.wrote \subseteq o.data
        /\ ~o.local => /\ o.name <= lrev[o.file]
                       /\ o.wrote \subseteq fresh[o.file][o.name]
                       /\ \A r \in Revs : fresh[o.file][r] # None => r <= o.name
    BY <1>1 DEF Keeps
  <2>2. /\ o.file # None => at[o.path] = o.file /\ o.name <= Len(hist[o.file])
        /\ o.local => o.name = 0 /\ n.wrote \subseteq n.data
        /\ ~o.local => /\ o.name <= lrev[o.file]
                       /\ n.wrote \subseteq fresh'[o.file][o.name]
                       /\ \A r \in Revs : fresh'[o.file][r] # None => r <= o.name
    BY <1>2, <1>4, <1>6, <1>7, <2>1 DEF Rev
  <2> HIDE DEF o
  <2> QED BY <1>2, <1>3, <1>5, <2>2 DEF Keeps, Rev
<1> QED BY <1>5, <1>8, <1>9 DEF SoleWriter, OneWriter

\* The handle of a writer after its own flush.
LEMMA SoleFlushes ==
  ASSUME OpenInv, SoleWriter, NEW h \in Writers,
         \/ handle[h].local /\ UploadLocal(h)
         \/ ~handle[h].local /\ UploadPatch(h)
  PROVE  \E k \in Keys :
           /\ handle'[h] = [handle[h] EXCEPT !.flushed = TRUE, !.file = k]
           /\ k = handle[h].file \/ handle[h].local
           /\ at'[handle[h].path] = k
           /\ handle[h].name <= Len(hist'[k])
           /\ \E r \in 1 .. Len(hist'[k]) : handle[h].name <= r /\ handle[h].wrote \subseteq hist'[k][r]
<1> DEFINE o == handle[h]
<1>1. /\ h \in Handles /\ o \in Record /\ o.path \in Paths /\ o.data \in Contents /\ o.name \in Nat
      /\ (o.file # None => at[o.path] = o.file /\ o.name <= Rev(o.file))
  BY WriterFacts DEF SoleWriter, Keeps
<1>2. \A k \in Keys : hist[k] \in Seq(Contents) /\ Rev(k) \in Nat /\ k # None
  BY LenProperties, OpenFilesAssumption DEF OpenInv, RemoteTyped, Rev
<1>3. \A k \in Keys : \A c : hist' = [hist EXCEPT ![k] = Append(@, c)] /\ c \in Contents =>
        Len(hist'[k]) = Rev(k) + 1 /\ hist'[k][Rev(k) + 1] = c
  <2> SUFFICES ASSUME NEW k \in Keys, NEW c \in Contents, hist' = [hist EXCEPT ![k] = Append(@, c)]
               PROVE  Len(hist'[k]) = Rev(k) + 1 /\ hist'[k][Rev(k) + 1] = c
    OBVIOUS
  <2>1. hist'[k] = Append(hist[k], c)
    BY DEF OpenInv, RemoteTyped
  <2> QED BY <1>2, <2>1, AppendProperties DEF Rev
<1>4. CASE o.local /\ UploadLocal(h)
  <2>1. PICK k \in Keys : /\ Flushed(h, k) /\ at'[o.path] = k
                          /\ hist' = [hist EXCEPT ![k] = Append(@, o.data)]
    <3>1. CASE /\ at[o.path] # None
               /\ hist' = [hist EXCEPT ![at[o.path]] = Append(@, o.data)]
               /\ Flushed(h, at[o.path]) /\ UNCHANGED at
      BY <1>1, <3>1 DEF OpenInv, RemoteTyped
    <3>2. ASSUME NEW k \in Keys, hist[k] = <<>>, hist' = [hist EXCEPT ![k] = <<o.data>>],
                 at' = [at EXCEPT ![o.path] = k], Flushed(h, k)
          PROVE  /\ Flushed(h, k) /\ at'[o.path] = k
                 /\ hist' = [hist EXCEPT ![k] = Append(@, o.data)]
      <4>1. Append(<<>>, o.data) = <<o.data>>
        OBVIOUS
      <4> QED BY <1>1, <3>2, <4>1 DEF OpenInv, RemoteTyped
    <3> QED BY <1>4, <3>1, <3>2 DEF UploadLocal
  <2>2. handle'[h] = [o EXCEPT !.flushed = TRUE, !.file = k]
    BY <1>1, <2>1 DEF Flushed, OpenInv, HandlesTyped
  <2>3. o.name = 0 /\ o.wrote \subseteq o.data
    BY <1>4 DEF SoleWriter, Keeps
  <2>4. Rev(k) + 1 \in 1 .. Len(hist'[k]) /\ hist'[k][Rev(k) + 1] = o.data /\ 0 <= Rev(k) + 1 /\ 0 <= Len(hist'[k])
    <3>1. Len(hist'[k]) = Rev(k) + 1 /\ hist'[k][Rev(k) + 1] = o.data
      BY <1>1, <1>3, <2>1
    <3>2. Rev(k) \in Nat
      BY <1>2
    <3> QED BY <3>1, <3>2
  <2> QED BY <1>4, <2>1, <2>2, <2>3, <2>4
<1>5. CASE ~o.local /\ UploadPatch(h)
  <2>1. /\ o.file \in Keys /\ o.file # None /\ o.name \in Revs /\ at[o.path] = o.file
        /\ fresh[o.file][o.name] \in Contents /\ lrev[o.file] \in Nat /\ o.name <= lrev[o.file]
        /\ o.wrote \subseteq fresh[o.file][o.name]
        /\ \A r \in Revs : fresh[o.file][r] # None => r <= o.name
        /\ o.name <= Rev(o.file)
    BY <1>1, <1>5, WriterFacts DEF SoleWriter, Keeps
  <2>2. lrev[o.file] = o.name
    <3>1. lrev[o.file] # 0 /\ fresh[o.file][lrev[o.file]] # None
      BY <1>5, <2>1 DEF UploadPatch, PatchKey
    <3>2. lrev[o.file] \in Revs
      BY <2>1, <3>1, OpenFilesAssumption DEF OpenInv, CopiesTyped, Revs
    <3> QED BY <1>1, <2>1, <3>1, <3>2
  <2>3. handle'[h] = [o EXCEPT !.flushed = TRUE] /\ at' = at
    BY <1>1, <1>5 DEF UploadPatch, OpenInv, HandlesTyped
  <2>4. [o EXCEPT !.flushed = TRUE] = [o EXCEPT !.flushed = TRUE, !.file = o.file]
    BY <1>1 DEF Record
  <2>5. o.name \in Nat /\ o.name >= 1 /\ Rev(o.file) \in Nat
    BY <1>2, <2>1, OpenFilesAssumption DEF Revs
  <2>6. o.name <= Len(hist'[o.file])
        /\ \E r \in 1 .. Len(hist'[o.file]) : o.name <= r /\ o.wrote \subseteq hist'[o.file][r]
    <3>1. CASE fresh[o.file][o.name] = hist[o.file][o.name] /\ UNCHANGED hist
      <4>1. o.name \in 1 .. Len(hist'[o.file]) /\ o.wrote \subseteq hist'[o.file][o.name]
        BY <2>1, <2>5, <3>1 DEF Rev
      <4> QED BY <2>5, <4>1
    <3>2. CASE hist' = [hist EXCEPT ![o.file] = Append(@, fresh[o.file][o.name])]
      <4>1. Len(hist'[o.file]) = Rev(o.file) + 1 /\ hist'[o.file][Rev(o.file) + 1] = fresh[o.file][o.name]
        BY <1>3, <2>1, <3>2
      <4>2. Rev(o.file) + 1 \in 1 .. Len(hist'[o.file]) /\ o.name <= Rev(o.file) + 1
        BY <2>1, <2>5, <4>1
      <4> QED BY <2>1, <4>1, <4>2
    <3> QED BY <1>5, <2>1, <2>2, <3>1, <3>2 DEF UploadPatch, PatchKey
  <2> QED BY <2>1, <2>3, <2>4, <2>6
<1> QED BY <1>4, <1>5

LEMMA FlushDoes ==
  ASSUME OpenInv, NEW h \in Handles, Flush(h)
  PROVE  /\ h \in Open /\ UNCHANGED <<lrev, fresh>>
         /\ hist' = hist \/ \E k \in Keys, c \in Contents : hist' = [hist EXCEPT ![k] = Append(@, c)]
         /\ \A p \in Paths : at[p] # None => at'[p] = at[p]
         /\ \A g \in Handles : g # h => handle'[g] = handle[g]
         /\ \/ handle'[h] = handle[h]
            \/ \E k \in Keys \cup {None} : handle'[h] = [handle[h] EXCEPT !.flushed = TRUE, !.file = k]
<1> DEFINE o == handle[h]
<1>1. h \in Open /\ o \in Record /\ o.path \in Paths /\ o.data \in Contents
      /\ o.file \in Keys \cup {None}
  BY DEF Flush, OpenInv, CallsInv, HandlesTyped, Open, Record
<1>2. CASE FlushFails(h)
  BY <1>1, <1>2 DEF Flush, FlushFails
<1>3. CASE UploadLocal(h)
  <2>1. Append(<<>>, o.data) = <<o.data>>
    OBVIOUS
  <2>2. hist' = hist \/ \E k \in Keys, c \in Contents : hist' = [hist EXCEPT ![k] = Append(@, c)]
    <3>1. CASE at[o.path] # None /\ hist' = [hist EXCEPT ![at[o.path]] = Append(@, o.data)]
      BY <1>1, <3>1 DEF OpenInv, RemoteTyped
    <3>2. ASSUME NEW k \in Keys, hist[k] = <<>>, hist' = [hist EXCEPT ![k] = <<o.data>>]
          PROVE  hist' = [hist EXCEPT ![k] = Append(@, o.data)]
      BY <2>1, <3>2
    <3> QED BY <1>1, <1>3, <3>1, <3>2 DEF UploadLocal
  <2>3. \A p \in Paths : at[p] # None => at'[p] = at[p]
    BY <1>1, <1>3 DEF UploadLocal, OpenInv, RemoteTyped
  <2>4. \E k \in Keys \cup {None} : handle' = [handle EXCEPT ![h] = [@ EXCEPT !.flushed = TRUE, !.file = k]]
    <3>1. at[o.path] \in Keys \cup {None}
      BY <1>1 DEF OpenInv, RemoteTyped
    <3>2. \E k \in Keys \cup {None} : Flushed(h, k)
      BY <1>3, <3>1 DEF UploadLocal
    <3> QED BY <3>2 DEF Flushed
  <2>5. \A g \in Handles : g # h => handle'[g] = handle[g]
    BY <2>4 DEF OpenInv, HandlesTyped
  <2>6. \E k \in Keys \cup {None} : handle'[h] = [handle[h] EXCEPT !.flushed = TRUE, !.file = k]
    BY <2>4 DEF OpenInv, HandlesTyped
  <2> QED BY <1>1, <2>2, <2>3, <2>5, <2>6 DEF Flush
<1>4. CASE UploadPatch(h)
  <2> DEFINE k == at[o.path]
  <2>1. k \in Keys /\ fresh[k][lrev[k]] \in Contents
    <3>1. k # None /\ lrev[k] # 0 /\ fresh[k][lrev[k]] # None
      BY <1>4 DEF UploadPatch, PatchKey
    <3>2. k \in Keys
      BY <1>1, <3>1 DEF OpenInv, RemoteTyped
    <3> HIDE DEF k
    <3>3. lrev[k] \in Revs
      BY <3>1, <3>2, OpenFilesAssumption DEF OpenInv, CopiesTyped, Revs
    <3>4. fresh[k][lrev[k]] \in {None} \cup Contents
      BY <3>2, <3>3 DEF OpenInv, CopiesTyped
    <3> QED BY <3>1, <3>2, <3>4
  <2>2. hist' = hist \/ hist' = [hist EXCEPT ![k] = Append(@, fresh[k][lrev[k]])]
    BY <1>4 DEF UploadPatch, PatchKey
  <2>3. handle' = [handle EXCEPT ![h] = [@ EXCEPT !.flushed = TRUE]] /\ at' = at
    BY <1>4 DEF UploadPatch
  <2>4. [o EXCEPT !.flushed = TRUE] = [o EXCEPT !.flushed = TRUE, !.file = o.file]
    BY <1>1 DEF Record
  <2>5. \A g \in Handles : g # h => handle'[g] = handle[g]
    BY <2>3 DEF OpenInv, HandlesTyped
  <2>6. handle'[h] = [o EXCEPT !.flushed = TRUE]
    BY <2>3 DEF OpenInv, HandlesTyped
  <2> QED BY <1>1, <2>1, <2>2, <2>3, <2>4, <2>5, <2>6 DEF Flush
<1> QED BY <1>2, <1>3, <1>4 DEF Flush

LEMMA SoleFlush ==
  ASSUME OpenInv, OpenInv', SoleWriter, NEW h \in Handles, Flush(h)
  PROVE  SoleWriter'
<1>1. /\ h \in Open /\ UNCHANGED <<lrev, fresh>>
      /\ hist' = hist \/ \E k \in Keys, c \in Contents : hist' = [hist EXCEPT ![k] = Append(@, c)]
      /\ \A p \in Paths : at[p] # None => at'[p] = at[p]
      /\ \A g \in Handles : g # h => handle'[g] = handle[g]
      /\ \/ handle'[h] = handle[h]
         \/ \E k \in Keys \cup {None} : handle'[h] = [handle[h] EXCEPT !.flushed = TRUE, !.file = k]
  BY FlushDoes
<1>2. CopiesOld'
  <2>1. \A k \in Keys : Rev(k) \in Nat /\ Rev(k)' \in Nat /\ Rev(k) <= Rev(k)'
    BY <1>1, HistGrows
  <2>2. ASSUME NEW k \in Keys, NEW r \in Revs, fresh'[k][r] # None PROVE r <= Rev(k)'
    <3>1. r <= Rev(k)
      BY <1>1, <2>2 DEF SoleWriter, CopiesOld
    <3>2. r \in Nat
      BY OpenFilesAssumption DEF Revs
    <3> QED BY <2>1, <3>1, <3>2
  <2> QED BY <2>2 DEF CopiesOld
<1>3. Writers' = Writers
  <2>1. handle'[h].readonly = handle[h].readonly /\ handle'[h] # Closed
    <3>1. handle[h] \in Record
      BY <1>1 DEF Open, OpenInv, HandlesTyped
    <3>2. ASSUME NEW k \in Keys \cup {None}
          PROVE  /\ [handle[h] EXCEPT !.flushed = TRUE, !.file = k].readonly = handle[h].readonly
                 /\ [handle[h] EXCEPT !.flushed = TRUE, !.file = k] \in Record
      BY <3>1 DEF Record
    <3>3. CASE handle'[h] = handle[h]
      BY <3>1, <3>3, ClosedAssumption
    <3>4. CASE \E k \in Keys \cup {None} : handle'[h] = [handle[h] EXCEPT !.flushed = TRUE, !.file = k]
      <4>1. PICK k \in Keys \cup {None} : handle'[h] = [handle[h] EXCEPT !.flushed = TRUE, !.file = k]
        BY <3>4
      <4>2. handle'[h].readonly = handle[h].readonly /\ handle'[h] \in Record
        BY <3>2, <4>1
      <4> QED BY <4>2, ClosedAssumption
    <3> QED BY <1>1, <3>3, <3>4
  <2> QED BY <1>1, <2>1 DEF Writers, Open
<1>4. ASSUME NEW g \in Writers PROVE Keeps(g)'
  <2>1. handle[g].file # None => at'[handle[g].path] = at[handle[g].path]
    BY <1>1, WriterFacts DEF SoleWriter, Keeps
  <2>2. Keeps(g)
    BY DEF SoleWriter
  <2>3. CASE handle'[g] = handle[g]
    <3>1. ~handle[g].local => handle[g].name <= lrev'[handle[g].file]
      BY <1>1, <2>2 DEF Keeps
    <3> QED BY <1>1, <2>1, <2>2, <2>3, <3>1, KeepsStay
  <2>4. CASE g = h /\ handle'[h] # handle[h]
    <3> DEFINE o == handle[h]
    <3>1. PICK k \in Keys :
            /\ handle'[h] = [o EXCEPT !.flushed = TRUE, !.file = k]
            /\ k = o.file \/ o.local
            /\ at'[o.path] = k
            /\ o.name <= Len(hist'[k])
            /\ \E r \in 1 .. Len(hist'[k]) : o.name <= r /\ o.wrote \subseteq hist'[k][r]
      BY <2>4, SoleFlushes DEF Flush, FlushFails
    <3>2. /\ handle'[h].file = k /\ handle'[h].path = o.path /\ handle'[h].name = o.name
          /\ handle'[h].local = o.local /\ handle'[h].wrote = o.wrote /\ handle'[h].data = o.data
      BY <2>4, <3>1, WriterFacts DEF Record
    <3>3. /\ o.local => o.name = 0 /\ o.wrote \subseteq o.data
          /\ ~o.local => /\ k = o.file /\ o.name <= lrev'[o.file]
                         /\ o.wrote \subseteq fresh'[o.file][o.name]
                         /\ \A r \in Revs : fresh'[o.file][r] # None => r <= o.name
      BY <1>1, <2>2, <2>4, <3>1 DEF Keeps
    <3>4. k # None
      BY OpenFilesAssumption
    <3> HIDE DEF o
    <3> QED BY <2>4, <3>1, <3>2, <3>3, <3>4 DEF Keeps, Stored, Rev
  <2> QED BY <1>1, <2>3, <2>4, WriterFacts
<1> QED BY <1>2, <1>3, <1>4 DEF SoleWriter, OneWriter

\* What neither opens nor writes nor sends anything.
LEMMA SoleOthers ==
  ASSUME OpenInv, OpenInv', SoleWriter, UNCHANGED <<hist, lrev, fresh>>, Writers' \subseteq Writers,
         \A h \in Writers' : /\ handle'[h] = handle[h]
                             /\ handle[h].file # None => at'[handle[h].path] = at[handle[h].path]
  PROVE  SoleWriter'
<1>1. CopiesOld'
  BY DEF SoleWriter, CopiesOld, Rev
<1>2. ASSUME NEW h \in Writers' PROVE Keeps(h)'
  <2>1. h \in Writers /\ Keeps(h)
    BY DEF SoleWriter
  <2>2. ~handle[h].local => handle[h].name <= lrev'[handle[h].file]
    BY <2>1 DEF Keeps
  <2> QED BY <2>1, <2>2, KeepsStay
<1> QED BY <1>1, <1>2 DEF SoleWriter, OneWriter

LEMMA SoleStep == OpenInv /\ OpenInv' /\ SoleInv /\ [Next]_vars => SoleInv'
<1> SUFFICES ASSUME OpenInv, OpenInv', SoleInv, [Next]_vars PROVE SoleInv'
  OBVIOUS
<1>1. UNCHANGED ops
  BY DEF Next, vars, OpenFile, Create, Write, FlushCheck, Flush, StartRelease, Release, Rename, Unlink
<1>2. ASSUME Sole PROVE SoleWriter'
  <2>0. SoleWriter
    BY <1>2 DEF SoleInv
  <2>1. ASSUME NEW h \in Handles, NEW p \in Paths,
               (\E readonly \in BOOLEAN : OpenFile(h, p, readonly)) \/ Create(h, p)
        PROVE  SoleWriter'
    BY <1>2, <2>0, <2>1, SoleOpens, SoleCreates
  <2>2. ASSUME NEW h \in Handles, NEW e \in Edits, Write(h, e) PROVE SoleWriter'
    BY <2>0, <2>2, SoleWrites
  <2>3. ASSUME NEW h \in Handles, Flush(h) PROVE SoleWriter'
    BY <2>0, <2>3, SoleFlush
  <2>4. ASSUME NEW h \in Handles, FlushCheck(h) \/ StartRelease(h) PROVE SoleWriter'
    <3>1. UNCHANGED <<at, hist, lrev, fresh, handle>>
      BY <2>4 DEF FlushCheck, StartRelease
    <3> QED BY <2>0, <3>1, SoleOthers DEF Writers, Open
  <2>5. ASSUME NEW h \in Handles, Release(h) PROVE SoleWriter'
    <3>1. UNCHANGED <<at, hist, lrev, fresh>>
          /\ (handle' = [handle EXCEPT ![h] = Closed] \/ UNCHANGED handle)
      BY <2>5 DEF Release
    <3>2. \A g \in Writers' : g \in Writers /\ handle'[g] = handle[g]
      BY <3>1 DEF Writers, Open, OpenInv, HandlesTyped
    <3> QED BY <2>0, <3>1, <3>2, SoleOthers
  <2>6. ASSUME NEW p \in Paths, Unlink(p) PROVE SoleWriter'
    <3>1. UNCHANGED <<hist, lrev, fresh, handle>> /\ at' = [at EXCEPT ![p] = None]
      BY <2>6 DEF Unlink
    <3>2. \A h \in Writers : handle[h].file # None => handle[h].path # p
      <4>1. \A h \in Open : handle[h].file # at[p]
        BY <2>6 DEF Unlink, IsOpen
      <4>2. \A h \in Writers : handle[h].file # None => at[handle[h].path] = handle[h].file
        BY <2>0 DEF SoleWriter, Keeps
      <4> QED BY <4>1, <4>2 DEF Writers
    <3>3. \A h \in Writers : handle[h].file # None => at'[handle[h].path] = at[handle[h].path]
      BY <3>1, <3>2, WriterFacts DEF OpenInv, RemoteTyped
    <3> QED BY <2>0, <3>1, <3>3, SoleOthers DEF Writers, Open
  <2>7. ASSUME NEW p \in Paths, NEW q \in Paths, Rename(p, q) PROVE FALSE
    BY <1>2, <2>7 DEF Rename, Sole
  <2>8. CASE UNCHANGED vars
    BY <2>0, <2>8, SoleOthers DEF vars, Writers, Open
  <2> QED BY <2>1, <2>2, <2>3, <2>4, <2>5, <2>6, <2>7, <2>8 DEF Next
<1> QED BY <1>1, <1>2 DEF SoleInv, Sole

LEMMA SoleInitially == Init => SoleInv
<1> SUFFICES ASSUME Init PROVE SoleWriter
  BY DEF SoleInv
<1>1. Writers = {}
  BY DEF Init, Writers, Open
<1>2. CopiesOld
  BY DEF Init, CopiesOld
<1> QED BY <1>1, <1>2 DEF SoleWriter, OneWriter

\* A flush that reports success has stored what was written, though two threads
\* flush one handle and others open the file meanwhile, when no file has two
\* writers and none is renamed.
THEOREM FlushedIsStored == Spec => []FlushedStored
<1>1. Spec => [](OpenInv /\ SoleInv)
  BY OpenFilesInit, SoleInitially, OpenFilesStep, SoleStep, PTL DEF Spec
<1>2. SoleInv => FlushedStored
  BY DEF SoleInv, Sole, SoleWriter, Keeps, FlushedStored, StoredIfFlushed
<1> QED BY <1>1, <1>2, PTL

=============================================================================
