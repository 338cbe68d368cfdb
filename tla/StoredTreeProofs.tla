-------------------------- MODULE StoredTreeProofs --------------------------
(***************************************************************************)
(* The tree over any number of mounts, for every set of keys and every     *)
(* order of the buckets: what is stored can be loaded, and the children    *)
(* arrays that loading makes agree with the parents, whatever the file     *)
(* system did before and wherever the file was cut off.                    *)
(***************************************************************************)
EXTENDS StoredTree, FolderTreeViewProofs

FileTyped ==
  dircache = <<>> \/
  /\ dircache \in Seq(Headers \cup Records)
  /\ dircache # <<>>
  /\ dircache[1] \in Headers
  /\ \A i \in 2 .. Len(dircache) : dircache[i] \in Records /\ dircache[i].offs < dircache[1].num

MountTyped == proc \in {"up", "down"} /\ mounts \in 1 .. MaxMounts

StoredInv == TreeInv /\ FileTyped /\ MountTyped

-----------------------------------------------------------------------------
(* The positions of the entries: each of 1 .. Cardinality(tab) once. *)

LEMMA TabFinite ==
  ASSUME TypeOK
  PROVE  IsFiniteSet(tab) /\ Cardinality(tab) \in Nat
BY FS_Subset, FS_CardinalityType, RemoteAssumption DEF TypeOK

\* Whatever the parent is, its offset is less than the number of entries.
LEMMA PositionBounded ==
  ASSUME TypeOK, NEW n
  PROVE  Position(n) \in 0 .. Cardinality(tab)
<1>1. {j \in tab : Bucket[j] <= Bucket[n]} \in SUBSET tab
  OBVIOUS
<1>2. IsFiniteSet({j \in tab : Bucket[j] <= Bucket[n]})
      /\ Cardinality({j \in tab : Bucket[j] <= Bucket[n]}) <= Cardinality(tab)
  BY <1>1, TabFinite, FS_Subset
<1> QED BY <1>2, TabFinite, FS_CardinalityType DEF Position

LEMMA PositionPositive ==
  ASSUME TypeOK, NEW k \in tab
  PROVE  Position(k) \in 1 .. Cardinality(tab)
<1> DEFINE S == {j \in tab : Bucket[j] <= Bucket[k]}
<1>1. Bucket[k] \in Nat
  BY FolderTreeAssumption DEF TypeOK
<1>2. k \in S
  BY <1>1
<1>3. S \in SUBSET tab
  OBVIOUS
<1>4. IsFiniteSet(S) /\ Position(k) = Cardinality(S)
  BY <1>3, TabFinite, FS_Subset DEF Position
<1> HIDE DEF S
<1>5. Cardinality(S) # 0
  BY <1>2, <1>4, FS_EmptySet
<1> QED BY <1>4, <1>5, PositionBounded

LEMMA PositionGrows ==
  ASSUME TypeOK, NEW j \in tab, NEW k \in tab, Bucket[j] < Bucket[k]
  PROVE  Position(j) # Position(k)
<1> DEFINE S == {i \in tab : Bucket[i] <= Bucket[j]}
           T == {i \in tab : Bucket[i] <= Bucket[k]}
<1>1. \A i \in tab : Bucket[i] \in Nat
  BY FolderTreeAssumption DEF TypeOK
<1>2. S \in SUBSET T /\ k \in T /\ k \notin S /\ T \in SUBSET tab
  BY <1>1
<1>3. Position(j) = Cardinality(S) /\ Position(k) = Cardinality(T)
  BY DEF Position
<1> HIDE DEF S, T
<1>4. IsFiniteSet(T)
  BY <1>2, TabFinite, FS_Subset
<1>5. Cardinality(S) # Cardinality(T)
  BY <1>2, <1>4, FS_Subset
<1> QED BY <1>3, <1>5

\* Every record after the header is that of an entry.
LEMMA EveryPosition ==
  ASSUME TypeOK, NEW i \in 1 .. Cardinality(tab)
  PROVE  \E k \in tab : Position(k) = i
<1> DEFINE pos == [k \in tab |-> Position(k)]
           N == 1 .. Cardinality(tab)
<1>1. pos \in [tab -> N]
  BY PositionPositive
<1>2. ASSUME NEW j \in tab, NEW k \in tab, j # k PROVE pos[j] # pos[k]
  <2>1. Bucket[j] # Bucket[k] /\ Bucket[j] \in Nat /\ Bucket[k] \in Nat
    BY <1>2, FolderTreeAssumption DEF TypeOK
  <2>2. CASE Bucket[j] < Bucket[k]
    BY <2>2, PositionGrows
  <2>3. CASE Bucket[k] < Bucket[j]
    BY <2>3, PositionGrows
  <2> QED BY <2>1, <2>2, <2>3
<1>3. IsFiniteSet(N) /\ Cardinality(N) = Cardinality(tab)
  BY TabFinite, FS_Interval
<1>4. pos \in Injection(tab, N)
  BY <1>1, <1>2 DEF Injection, IsInjective
<1>5. pos \in Surjection(tab, N)
  BY <1>3, <1>4, FS_Injection
<1> QED BY <1>5 DEF Surjection

-----------------------------------------------------------------------------
(* What Unmount stores. *)

LEMMA ImageTyped ==
  ASSUME TypeOK
  PROVE  /\ Image \in Seq(Headers \cup Records) /\ Len(Image) = Count
         /\ Image[1] = Header /\ Header \in Headers
         /\ \A i \in 2 .. Count : Image[i] \in Records /\ Image[i].offs < Header.num
<1>1. Count \in Nat /\ Count >= 1 /\ Count = Cardinality(tab) + 1
  BY TabFinite DEF Count
<1>2. Header \in Headers /\ Header.num = Count
  BY <1>1 DEF Header, Headers, TypeOK, Nodes, Dirs
<1>3. ASSUME NEW k \in tab
      PROVE  Record(k) \in Records /\ Record(k).offs < Header.num
  <2>1. Offset(par[k]) \in Nat /\ Offset(par[k]) < Count
    <3>1. Position(par[k]) \in 0 .. Cardinality(tab)
      BY PositionBounded
    <3> QED BY <1>1, <3>1, TabFinite DEF Offset
  <2>2. 0 \in Revs
    BY RemoteAssumption DEF Revs
  <2>3. k \in Keys /\ rrem[k] \in Revs /\ (k \in Dirs => lrev[k] \in Revs)
    BY DEF TypeOK, Nodes
  <2> QED BY <1>2, <2>1, <2>2, <2>3 DEF Record, Records
<1>4. ASSUME NEW i \in 2 .. Count
      PROVE  Image[i] \in Records /\ Image[i].offs < Header.num
  <2>1. i \in 1 .. Cardinality(tab) + 1 /\ i # 1 /\ i - 1 \in 1 .. Cardinality(tab)
    BY <1>1, TabFinite
  <2> DEFINE k == CHOOSE k \in tab : Position(k) = i - 1
  <2>2. k \in tab
    BY <2>1, EveryPosition
  <2>3. Image[i] = Record(k)
    BY <2>1 DEF Image
  <2> HIDE DEF k
  <2> QED BY <2>2, <2>3, <1>3
<1>5. Image[1] = Header
  BY <1>1 DEF Image
<1>6. Image \in Seq(Headers \cup Records) /\ Len(Image) = Count
  <2>1. DOMAIN Image = 1 .. Count
    BY <1>1 DEF Image
  <2>2. \A i \in 1 .. Count : Image[i] \in Headers \cup Records
    BY <1>1, <1>2, <1>4, <1>5
  <2>3. Image = [i \in 1 .. Count |-> Image[i]]
    BY <1>1 DEF Image
  <2> QED BY <1>1, <2>1, <2>2, <2>3, IsASeq, LenProperties
<1> QED BY <1>2, <1>4, <1>5, <1>6

LEMMA StoreTyped ==
  ASSUME TypeOK, NEW n \in {Count - 1, Count}, dircache' = SubSeq(Image, 1, n)
  PROVE  FileTyped'
<1>1. Count \in Nat /\ Count >= 1
  BY TabFinite DEF Count
<1>2. /\ dircache' \in Seq(Headers \cup Records) /\ Len(dircache') = n
      /\ \A i \in 1 .. n : dircache'[i] = Image[i]
  BY <1>1, ImageTyped, SubSeqProperties
<1>3. CASE n = 0
  BY <1>2, <1>3, EmptySeq DEF FileTyped
<1>4. CASE n # 0
  <2>1. dircache' # <<>> /\ dircache'[1] = Header
    BY <1>1, <1>2, <1>4, ImageTyped
  <2>2. \A i \in 2 .. n : dircache'[i] \in Records /\ dircache'[i].offs < Header.num
    BY <1>1, <1>2, ImageTyped
  <2> QED BY <1>2, <2>1, <2>2, ImageTyped DEF FileTyped
<1> QED BY <1>3, <1>4

-----------------------------------------------------------------------------
(* The steps. *)

LEMMA GoneTyped ==
  ASSUME TreeInv, MountTyped, Gone
  PROVE  TreeInv' /\ MountTyped'
<1>0. 0 \in Revs
  BY RemoteAssumption DEF Revs
<1>1. RemoteTypeOK' /\ EntriesTyped'
  BY <1>0 DEF TreeInv, Gone, TypeOK, RemoteTypeOK, remote, EntriesTyped, Nodes
<1>2. ControlTyped'
  BY <1>0, EmptySeq DEF TreeInv, Gone, TypeOK, ControlTyped, Labels, Returns, Dirs
<1>3. ChildrenAgree' /\ ControlInv'
  BY DEF Gone, ChildrenAgree, ControlInv
<1>4. MountTyped'
  BY DEF Gone, MountTyped
<1> QED BY <1>1, <1>2, <1>3, <1>4, TypeParts DEF TreeInv

\* Every entry that loading makes has a record, and a parent that is loaded too.
LEMMA LoadedTyped ==
  ASSUME FileTyped, Loadable
  PROVE  /\ Loaded \subseteq Keys /\ dircache[1] \in Headers
         /\ \A k \in Loaded : /\ RecordOf(k) \in Records
                              /\ LoadedPar[k] \in {Root} \cup Loaded
<1> DEFINE recs == {dircache[i] : i \in 2 .. Len(dircache)}
<1>1. /\ dircache \in Seq(Headers \cup Records) /\ dircache[1] \in Headers
      /\ \A i \in 2 .. Len(dircache) : dircache[i] \in Records /\ dircache[i].offs < Len(dircache)
  BY DEF FileTyped, Loadable
<1>2. ASSUME NEW r \in recs
      PROVE  r \in Records /\ Parent(r) \in {Root} \cup Loaded
  <2>1. PICK i \in 2 .. Len(dircache) : r = dircache[i]
    OBVIOUS
  <2>2. r \in Records /\ r.offs \in Nat /\ r.offs < Len(dircache)
    BY <1>1, <2>1 DEF Records
  <2>3. CASE r.offs = 0
    BY <2>2, <2>3 DEF Parent
  <2>4. CASE r.offs # 0
    <3>1. r.offs + 1 \in 2 .. Len(dircache)
      BY <1>1, <2>2, <2>4, LenProperties
    <3>2. Parent(r) = dircache[r.offs + 1].key
      BY <2>4 DEF Parent
    <3> QED BY <2>2, <3>1, <3>2 DEF Loaded
  <2> QED BY <2>3, <2>4
<1>3. ASSUME NEW k \in Loaded
      PROVE  k \in Keys /\ RecordOf(k) \in recs
  <2>1. PICK i \in 2 .. Len(dircache) : k = dircache[i].key
    BY DEF Loaded
  <2>2. dircache[i] \in recs /\ dircache[i].key = k
    BY <2>1
  <2>3. RecordOf(k) \in recs
    BY <2>2 DEF RecordOf
  <2>4. k \in Keys
    BY <1>1, <2>1 DEF Records
  <2> QED BY <2>3, <2>4
<1>4. ASSUME NEW k \in Loaded
      PROVE  RecordOf(k) \in Records /\ LoadedPar[k] \in {Root} \cup Loaded
  <2>1. RecordOf(k) \in recs /\ k \in Keys
    BY <1>3
  <2>2. LoadedPar[k] = Parent(RecordOf(k))
    BY <2>1 DEF LoadedPar
  <2> HIDE DEF recs
  <2> QED BY <1>2, <2>1, <2>2
<1> QED BY <1>1, <1>3, <1>4

LEMMA LoadTyped ==
  ASSUME StoredInv, Load
  PROVE  TreeInv'
<1>0. 0 \in Revs
  BY RemoteAssumption DEF Revs
<1>1. /\ Loaded \subseteq Keys /\ dircache[1] \in Headers
      /\ \A k \in Loaded : RecordOf(k) \in Records /\ LoadedPar[k] \in {Root} \cup Loaded
  BY LoadedTyped DEF StoredInv, Load
<1>5. /\ tab' = Loaded
      /\ par' = LoadedPar
      /\ kids' = [d \in Dirs |-> {k \in Loaded : LoadedPar[k] = d}]
      /\ rrem' = LoadedRrem /\ lrev' = LoadedLrev
      /\ treerev' = dircache[1].rev /\ pc' = "status"
      /\ UNCHANGED <<remote, mayfail, ub, ret, todo, endrev, need, stack, dir, cursor>>
  BY DEF Load, StartMount
<1>6. ASSUME NEW k \in Loaded
      PROVE  RecordOf(k).rrem \in Revs /\ RecordOf(k).lrev \in Revs
  <2>1. RecordOf(k) \in Records
    BY <1>1
  <2> QED BY <2>1 DEF Records
<1>7. dircache[1].rrem \in Revs /\ dircache[1].lrev \in Revs /\ dircache[1].rev \in Revs
  BY <1>1 DEF Headers
<1>8. EntriesTyped'
  <2>1. ub' \in BOOLEAN /\ tab' \subseteq Keys
    BY <1>1, <1>5 DEF StoredInv, TreeInv, TypeOK
  <2>2. par' \in [Keys -> Nodes \cup {Dangling, None}]
    <3>1. \A k \in Keys : LoadedPar[k] \in Nodes \cup {Dangling, None}
      <4>1. \A k \in Keys : k \notin Loaded => LoadedPar[k] = None
        BY DEF LoadedPar
      <4> QED BY <1>1, <4>1 DEF Nodes
    <3> QED BY <1>5, <3>1 DEF LoadedPar
  <2>3. kids' \in [Dirs -> SUBSET Keys]
    BY <1>1, <1>5
  <2>4. rrem' \in [Nodes -> Revs] /\ lrev' \in [Dirs -> Revs]
    BY <1>0, <1>5, <1>6, <1>7 DEF LoadedRrem, LoadedLrev
  <2> QED BY <2>1, <2>2, <2>3, <2>4 DEF EntriesTyped
<1>9. RemoteTypeOK' /\ ControlTyped'
  BY <1>5, <1>7 DEF StoredInv, TreeInv, TypeOK, RemoteTypeOK, remote, ControlTyped, Labels, Returns
<1>10. ChildrenAgree'
  BY <1>1, <1>5 DEF ChildrenAgree, Known
<1>11. ControlInv'
  BY <1>5 DEF ControlInv
<1> QED BY <1>8, <1>9, <1>10, <1>11, TypeParts DEF TreeInv

LEMMA CreateNewTyped ==
  ASSUME TreeInv, CreateNew
  PROVE  TreeInv'
<1>1. RemoteTypeOK' /\ EntriesTyped' /\ ControlTyped'
  BY DEF TreeInv, CreateNew, StartMount, TypeOK, RemoteTypeOK, remote, EntriesTyped,
         ControlTyped, Labels, Returns
<1>2. ChildrenAgree' /\ ControlInv'
  BY DEF TreeInv, CreateNew, StartMount, ChildrenAgree, ControlInv, Known
<1> QED BY <1>1, <1>2, TypeParts DEF TreeInv

LEMMA StoredInitially == StoredInit => StoredInv
BY Initially, StoredTreeAssumption DEF StoredInit, StoredInv, FileTyped, MountTyped

LEMMA StoredStep == StoredInv /\ [StoredNext]_storedVars => StoredInv'
<1> SUFFICES ASSUME StoredInv, [StoredNext]_storedVars PROVE StoredInv'
  OBVIOUS
<1>1. TreeInv /\ TypeOK /\ FileTyped /\ MountTyped
  BY DEF StoredInv, TreeInv
<1>2. CASE Work \/ Look \/ Serve \/ Remotes \/ UNCHANGED storedVars
  <2>1. UNCHANGED stored /\ [Next]_vars
    BY <1>2 DEF Work, Look, Serve, Remotes, Next, storedVars
  <2>2. TreeInv'
    BY <1>1, <2>1, Inductive
  <2> QED BY <1>1, <2>1, <2>2 DEF stored, StoredInv, FileTyped, MountTyped
<1>3. CASE Unmount
  BY <1>1, <1>3, GoneTyped, StoreTyped DEF Unmount, StoredInv
<1>4. CASE Crash
  <2>1. FileTyped'
    BY <1>1, <1>4 DEF Crash, FileTyped
  <2> QED BY <1>1, <1>4, <2>1, GoneTyped DEF Crash, StoredInv
<1>5. CASE UnmountTouchesFreed
  <2>1. RemoteTypeOK' /\ EntriesTyped' /\ ControlTyped'
    BY <1>1, <1>5 DEF UnmountTouchesFreed, TypeOK, RemoteTypeOK, remote, EntriesTyped,
                      ControlTyped, control, Labels, Returns
  <2>2. ChildrenAgree' /\ ControlInv' /\ FileTyped' /\ MountTyped'
    BY <1>1, <1>5 DEF UnmountTouchesFreed, TreeInv, ChildrenAgree, ControlInv, Known, control,
                      stored, FileTyped, MountTyped
  <2> QED BY <2>1, <2>2, TypeParts DEF StoredInv, TreeInv
<1>6. CASE Load \/ CreateNew
  <2>1. FileTyped' /\ MountTyped'
    BY <1>1, <1>6, StoredTreeAssumption DEF Load, CreateNew, StartMount, FileTyped, MountTyped
  <2> QED BY <1>1, <1>6, <2>1, LoadTyped, CreateNewTyped DEF StoredInv
<1> QED BY <1>2, <1>3, <1>4, <1>5, <1>6 DEF StoredNext

LEMMA StoredInductive == StoredSpec => []StoredInv
BY StoredInitially, StoredStep, PTL DEF StoredSpec

-----------------------------------------------------------------------------
(* The tree that the file holds, if it can be loaded at all. *)

DownInv ==
  proc = "down" =>
    /\ pc = "idle" /\ tab = {} /\ treerev = 0
    /\ \A n \in Nodes : rrem[n] = 0
    /\ \A d \in Dirs : lrev[d] = 0 /\ kids[d] = {}

\* Nothing in the file is newer than the remote.
FileRevs ==
  /\ dircache[1].rev <= devrev
  /\ \A n \in Nodes : LoadedRrem[n] <= rrev[n]
  /\ \A d \in Dirs : LoadedLrev[d] <= LoadedRrem[d]

\* An entry of the file is where the remote has it if its revision is the
\* remote's, and its revision is the remote's if it is where the remote has it
\* and has not changed since the file's revision.
FileAgrees ==
  \A k \in Loaded :
    /\ LoadedPar[k] \in Dirs
    /\ LoadedRrem[k] = rrev[k] /\ rparent[k] \in Dirs => LoadedPar[k] = rparent[k]
    /\ rrev[k] <= dircache[1].rev /\ (LoadedPar[k] = rparent[k] \/ rparent[k] = Root) =>
         LoadedPar[k] = rparent[k] /\ LoadedRrem[k] = rrev[k]

\* A folder that the file has as filled, at a revision that is still its own,
\* lacks nothing that one answer tells; the root lacks nothing older than the file's revision.
FileComplete ==
  /\ \A k \in Keys : \A d \in Folders :
       /\ rparent[k] = d /\ Within(d) /\ LoadedLrev[d] = rrev[d]
       /\ k \in Loaded \/ "info" \notin mayfail
       => k \in Loaded /\ LoadedPar[k] = d
  /\ "info" \notin mayfail /\ ~crowded /\ LoadedLrev[Root] = LoadedRrem[Root] =>
       \A k \in Keys : rparent[k] = Root /\ rrev[k] <= dircache[1].rev =>
         k \in Loaded /\ LoadedPar[k] = Root

FileInv == Loadable => FileRevs /\ FileAgrees /\ FileComplete

MountsInv == StoredInv /\ KeepInv /\ DownInv /\ FileInv

\* What the remote holds, and tells, is what it was.
LEMMA ToldSame ==
  ASSUME rparent' = rparent, crowded' <=> crowded
  PROVE  /\ \A d \in Dirs : Within(d)' <=> Within(d)
         /\ RemoteInv => RemoteInv'
<1>1. ASSUME NEW d PROVE Within(d)' <=> Within(d)
  BY ContentSame
<1>2. Within(Root)' <=> Within(Root)
  BY <1>1
<1> QED BY <1>1, <1>2 DEF RemoteInv

\* What is stored is what is loaded, if it is stored whole.
LEMMA StoredWhole ==
  ASSUME TypeOK, NEW n \in {Count - 1, Count}, dircache' = SubSeq(Image, 1, n), Loadable'
  PROVE  /\ n = Count /\ Len(dircache') = Count /\ dircache'[1] = Header
         /\ \A k \in tab : Position(k) \in 1 .. Count - 1 /\ dircache'[Position(k) + 1] = Record(k)
         /\ \A i \in 2 .. Count : \E k \in tab : Position(k) = i - 1 /\ dircache'[i] = Record(k)
<1>1. Count \in Nat /\ Count >= 1 /\ Count = Cardinality(tab) + 1
  BY TabFinite DEF Count
<1>2. /\ Len(dircache') = n /\ n \in Nat
      /\ \A i \in 1 .. n : dircache'[i] = Image[i]
  BY <1>1, ImageTyped, SubSeqProperties
<1>3. Loadable' = (dircache' # <<>> /\ Len(dircache') = dircache'[1].num)
  BY DEF Loadable
<1>4. n # 0
  <2>1. dircache' \in Seq(Headers \cup Records)
    BY <1>1, ImageTyped, SubSeqProperties
  <2> QED BY <1>2, <1>3, <2>1, EmptySeq
<1>5. dircache'[1] = Header /\ Header.num = Count
  BY <1>1, <1>2, <1>4, ImageTyped DEF Header
<1>6. n = Count
  BY <1>2, <1>3, <1>5
<1>7. ASSUME NEW i \in 2 .. Count, NEW k \in tab, Position(k) = i - 1
      PROVE  dircache'[i] = Record(k)
  <2> DEFINE c == CHOOSE j \in tab : Position(j) = i - 1
  <2>1. c \in tab /\ Position(c) = i - 1
    BY <1>7
  <2>2. Image[i] = Record(c)
    BY <1>1 DEF Image
  <2> HIDE DEF c
  <2>3. c = k
    <3>1. Bucket[c] \in Nat /\ Bucket[k] \in Nat /\ (Bucket[c] = Bucket[k] => c = k)
      BY <2>1, FolderTreeAssumption DEF TypeOK
    <3>2. ~(Bucket[c] < Bucket[k]) /\ ~(Bucket[k] < Bucket[c])
      BY <1>7, <2>1, PositionGrows
    <3> QED BY <3>1, <3>2
  <2> QED BY <1>1, <1>2, <1>6, <2>2, <2>3
<1>8. ASSUME NEW k \in tab
      PROVE  Position(k) \in 1 .. Count - 1 /\ dircache'[Position(k) + 1] = Record(k)
  <2>1. Position(k) \in 1 .. Count - 1
    BY <1>1, TabFinite, PositionPositive
  <2>2. Position(k) + 1 \in 2 .. Count /\ Position(k) = (Position(k) + 1) - 1
    BY <1>1, <2>1
  <2> QED BY <1>7, <2>1, <2>2
<1>9. ASSUME NEW i \in 2 .. Count
      PROVE  \E k \in tab : Position(k) = i - 1 /\ dircache'[i] = Record(k)
  <2>1. i - 1 \in 1 .. Cardinality(tab)
    BY <1>1, TabFinite
  <2>2. PICK k \in tab : Position(k) = i - 1
    BY <2>1, EveryPosition
  <2> QED BY <1>7, <2>2
<1> QED BY <1>2, <1>5, <1>6, <1>8, <1>9

LEMMA StoredLoaded ==
  ASSUME TypeOK, RevInv, \A k \in tab : par[k] # Dangling,
         NEW n \in {Count - 1, Count}, dircache' = SubSeq(Image, 1, n), Loadable'
  PROVE  /\ dircache'[1] = Header /\ Loaded' = tab
         /\ \A k \in tab : LoadedPar'[k] = par[k] /\ par[k] \in Dirs
         /\ \A k \in Nodes : k \in tab \cup {Root} => LoadedRrem'[k] = rrem[k]
         /\ \A d \in Dirs : LoadedLrev'[d] = IF d \in tab \cup {Root} THEN lrev[d] ELSE 0
         /\ \A k \in Nodes : k \notin tab \cup {Root} => LoadedRrem'[k] = 0
<1>1. /\ Len(dircache') = Count /\ dircache'[1] = Header
      /\ \A k \in tab : Position(k) \in 1 .. Count - 1 /\ dircache'[Position(k) + 1] = Record(k)
      /\ \A i \in 2 .. Count : \E k \in tab : Position(k) = i - 1 /\ dircache'[i] = Record(k)
  BY StoredWhole
<1>2. Count \in Nat /\ Count >= 1
  BY TabFinite DEF Count
<1>3. Loaded' = {dircache'[i].key : i \in 2 .. Count}
  BY <1>1 DEF Loaded
<1>4. ASSUME NEW k \in tab PROVE Position(k) + 1 \in 2 .. Count /\ Record(k).key = k
  <2>1. Position(k) \in 1 .. Count - 1
    BY <1>1
  <2>2. Position(k) + 1 \in 2 .. Count
    BY <1>2, <2>1
  <2> QED BY <2>2 DEF Record
<1>5. Loaded' = tab
  <2>1. ASSUME NEW i \in 2 .. Count PROVE dircache'[i].key \in tab
    BY <1>1, <1>4
  <2>2. ASSUME NEW k \in tab PROVE \E i \in 2 .. Count : dircache'[i].key = k
    BY <1>1, <1>4, <2>2
  <2> QED BY <1>3, <2>1, <2>2
<1>6. ASSUME NEW k \in tab PROVE RecordOf(k)' = Record(k)
  <2> DEFINE recs == {dircache'[i] : i \in 2 .. Count}
             rec == CHOOSE r \in recs : r.key = k
  <2>1. RecordOf(k)' = rec
    BY <1>1 DEF RecordOf
  <2>2. Record(k) \in recs
    BY <1>1, <1>4
  <2>3. \E r \in recs : r.key = k
    BY <1>4, <2>2
  <2>4. rec \in recs /\ rec.key = k
    BY <2>3
  <2> HIDE DEF rec
  <2>5. PICK i \in 2 .. Count : rec = dircache'[i]
    BY <2>4
  <2>6. PICK j \in tab : dircache'[i] = Record(j)
    BY <1>1
  <2>7. j = k
    BY <1>4, <2>4, <2>5, <2>6
  <2> QED BY <2>1, <2>5, <2>6, <2>7
<1>7. tab \subseteq Keys /\ Root \notin Keys /\ Root \in Nodes /\ Root \in Dirs /\ \A k \in Keys : k \in Nodes
  BY RemoteAssumption DEF TypeOK, Nodes, Dirs
<1>8. ASSUME NEW k \in tab PROVE LoadedPar'[k] = par[k] /\ par[k] \in Dirs
  <2>1. par[k] \in Dirs /\ par[k] \in tab \cup {Root}
    BY <1>8 DEF RevInv, Known
  <2>2. LoadedPar'[k] = Parent(RecordOf(k))'
    BY <1>5, <1>7 DEF LoadedPar
  <2>3. Parent(RecordOf(k))' = IF Record(k).offs = 0 THEN Root ELSE dircache'[Record(k).offs + 1].key
    BY <1>6 DEF Parent
  <2>4. Record(k).offs = Offset(par[k])
    BY DEF Record
  <2>5. CASE par[k] = Root
    BY <2>1, <2>2, <2>3, <2>4, <2>5 DEF Offset
  <2>6. CASE par[k] # Root
    <3>1. par[k] \in tab
      BY <2>1, <2>6
    <3>2. Offset(par[k]) = Position(par[k]) /\ Position(par[k]) # 0
      BY <1>1, <1>2, <2>6, <3>1 DEF Offset
    <3>3. dircache'[Position(par[k]) + 1].key = par[k]
      BY <1>1, <1>4, <3>1
    <3> QED BY <2>1, <2>2, <2>3, <2>4, <3>2, <3>3
  <2> QED BY <2>5, <2>6
<1>9. ASSUME NEW k \in Nodes PROVE LoadedRrem'[k] = IF k \in tab \cup {Root} THEN rrem[k] ELSE 0
  <2>1. CASE k = Root
    <3>1. LoadedRrem'[Root] = dircache'[1].rrem
      BY <1>7 DEF LoadedRrem
    <3>2. Header.rrem = rrem[Root]
      BY DEF Header
    <3> QED BY <1>1, <2>1, <3>1, <3>2
  <2>2. CASE k # Root /\ k \in tab
    <3>1. LoadedRrem'[k] = RecordOf(k)'.rrem
      BY <1>5, <2>2 DEF LoadedRrem
    <3> QED BY <1>6, <2>2, <3>1 DEF Record
  <2>3. CASE k # Root /\ k \notin tab
    BY <1>5, <2>3 DEF LoadedRrem
  <2> QED BY <2>1, <2>2, <2>3
<1>10. ASSUME NEW d \in Dirs PROVE LoadedLrev'[d] = IF d \in tab \cup {Root} THEN lrev[d] ELSE 0
  <2>1. CASE d = Root
    <3>1. LoadedLrev'[Root] = dircache'[1].lrev
      BY <1>7 DEF LoadedLrev
    <3>2. Header.lrev = lrev[Root]
      BY DEF Header
    <3> QED BY <1>1, <2>1, <3>1, <3>2
  <2>2. CASE d # Root /\ d \in tab
    <3>1. LoadedLrev'[d] = RecordOf(d)'.lrev
      BY <1>5, <2>2 DEF LoadedLrev
    <3> QED BY <1>6, <2>2, <3>1 DEF Record
  <2>3. CASE d # Root /\ d \notin tab
    BY <1>5, <2>3 DEF LoadedLrev
  <2> QED BY <2>1, <2>2, <2>3
<1> QED BY <1>1, <1>5, <1>8, <1>9, <1>10

LEMMA ImageExact ==
  ASSUME KeepInv, Unmount
  PROVE  FileInv'
<1> SUFFICES ASSUME Loadable' PROVE FileRevs' /\ FileAgrees' /\ FileComplete'
  BY DEF FileInv
<1>1. /\ TreeInv /\ TypeOK /\ PlaceInv /\ RevInv /\ AgreeInv /\ HeldInv /\ CompleteInv /\ RootInv
      /\ pc = "idle" /\ UNCHANGED <<remote, mayfail>>
      /\ \A k \in tab : par[k] # Dangling
  BY DEF KeepInv, TreeInv, Unmount, At, Gone
<1>2. PICK c \in {Count - 1, Count} : dircache' = SubSeq(Image, 1, c)
  BY DEF Unmount
<1>3. /\ dircache'[1].rev = treerev /\ Loaded' = tab
      /\ \A k \in tab : LoadedPar'[k] = par[k] /\ par[k] \in Dirs
      /\ \A k \in Nodes : k \in tab \cup {Root} => LoadedRrem'[k] = rrem[k]
      /\ \A d \in Dirs : LoadedLrev'[d] = IF d \in tab \cup {Root} THEN lrev[d] ELSE 0
      /\ \A k \in Nodes : k \notin tab \cup {Root} => LoadedRrem'[k] = 0
  <2>1. dircache'[1] = Header /\ Header.rev = treerev
    BY <1>1, <1>2, StoredLoaded DEF Header
  <2> QED BY <1>1, <1>2, <2>1, StoredLoaded
<1>4. /\ Bound = treerev /\ ~Updating /\ ~Housekeeping
      /\ \A k \in Keys : ~Pending(k)
  BY <1>1, NothingPending DEF Housekeeping
<1>5. /\ rparent' = rparent /\ rrev' = rrev /\ devrev' = devrev /\ mayfail' = mayfail
      /\ crowded' <=> crowded
      /\ tab \subseteq Keys /\ Root \in Nodes /\ Root \in Dirs /\ Root \notin Keys
      /\ \A k \in Keys : k \in Nodes
      /\ \A d \in Folders : d \in Dirs /\ d \in Keys /\ d # Root
      /\ \A d \in Dirs : d \in Nodes /\ (d \in Folders \/ d = Root)
  BY <1>1, RemoteAssumption DEF remote, TypeOK, Nodes, Dirs, Keys
<1>6. /\ \A n \in Nodes : rrem[n] \in Nat /\ rrev[n] \in Nat /\ rrem[n] <= rrev[n]
      /\ \A d \in Dirs : lrev[d] \in Nat /\ lrev[d] <= rrem[d]
      /\ treerev <= devrev
      /\ \A d \in Folders \ tab : lrev[d] = 0
  BY <1>1, Numbers DEF RevInv
<1>7. FileRevs'
  <2>1. ASSUME NEW n \in Nodes PROVE LoadedRrem'[n] <= rrev[n]
    <3>1. LoadedRrem'[n] = rrem[n] \/ LoadedRrem'[n] = 0
      BY <1>3
    <3>2. rrem[n] \in Nat /\ rrev[n] \in Nat /\ rrem[n] <= rrev[n]
      BY <1>6
    <3> QED BY <3>1, <3>2
  <2>2. ASSUME NEW d \in Dirs PROVE LoadedLrev'[d] <= LoadedRrem'[d]
    <3>1. CASE d \in tab \cup {Root}
      <4>1. LoadedLrev'[d] = lrev[d] /\ LoadedRrem'[d] = rrem[d]
        BY <1>3, <1>5, <3>1
      <4> QED BY <1>6, <4>1
    <3>2. CASE d \notin tab \cup {Root}
      <4>1. LoadedLrev'[d] = 0 /\ LoadedRrem'[d] = 0
        BY <1>3, <1>5, <3>2
      <4> QED BY <4>1
    <3> QED BY <3>1, <3>2
  <2> QED BY <1>3, <1>5, <1>6, <2>1, <2>2 DEF FileRevs
<1>8. FileAgrees'
  <2> SUFFICES ASSUME NEW k \in tab
               PROVE  /\ par[k] \in Dirs
                      /\ rrem[k] = rrev[k] /\ rparent[k] \in Dirs => par[k] = rparent[k]
                      /\ rrev[k] <= treerev /\ (par[k] = rparent[k] \/ rparent[k] = Root) =>
                           par[k] = rparent[k] /\ rrem[k] = rrev[k]
    <3>1. \A k \in tab : LoadedRrem'[k] = rrem[k] /\ LoadedPar'[k] = par[k]
      BY <1>3, <1>5
    <3> QED BY <1>3, <1>5, <3>1 DEF FileAgrees
  <2>1. k \in Keys /\ par[k] \in Dirs
    BY <1>3, <1>5
  <2>2. rrem[k] = rrev[k] /\ rparent[k] \in Dirs => par[k] = rparent[k]
    BY <1>1 DEF AgreeInv
  <2>3. rrev[k] <= treerev /\ (par[k] = rparent[k] \/ rparent[k] = Root) =>
          par[k] = rparent[k] /\ rrem[k] = rrev[k]
    BY <1>1, <1>4, <2>1 DEF HeldInv
  <2> QED BY <2>1, <2>2, <2>3
<1>9. FileComplete'
  <2>1. ASSUME NEW k \in Keys, NEW d \in Folders, rparent[k] = d, Within(d),
               LoadedLrev'[d] = rrev[d],
               k \in tab \/ "info" \notin mayfail
        PROVE  k \in tab /\ LoadedPar'[k] = d
    <3>1. rrev[d] >= 1
      BY <1>1, <1>5, <2>1 DEF RevInv
    <3>2. lrev[d] = rrev[d]
      <4>1. LoadedLrev'[d] = IF d \in tab \cup {Root} THEN lrev[d] ELSE 0
        BY <1>3, <1>5
      <4> QED BY <2>1, <3>1, <4>1
    <3>3. k \in kids[d]
      BY <1>1, <2>1, <3>2 DEF CompleteInv
    <3>4. k \in tab /\ par[k] = d
      BY <1>1, <1>5, <3>3 DEF TreeInv, ChildrenAgree
    <3> QED BY <1>3, <3>4
  <2>2. ASSUME "info" \notin mayfail, ~crowded, LoadedLrev'[Root] = LoadedRrem'[Root],
               NEW k \in Keys, rparent[k] = Root, rrev[k] <= treerev
        PROVE  k \in tab /\ LoadedPar'[k] = Root
    <3>1. LoadedLrev'[Root] = lrev[Root] /\ LoadedRrem'[Root] = rrem[Root]
      BY <1>3, <1>5
    <3>2. ~Stale(Root)
      BY <2>2, <3>1 DEF Stale
    <3>3. k \in kids[Root]
      BY <1>1, <1>4, <2>2, <3>2 DEF RootInv
    <3>4. k \in tab /\ par[k] = Root
      BY <1>1, <1>5, <3>3 DEF TreeInv, ChildrenAgree
    <3> QED BY <1>3, <3>4
  <2>3. \A d \in Folders : Within(d)' <=> Within(d)
    BY <1>5, ToldSame
  <2> QED BY <1>3, <1>5, <2>1, <2>2, <2>3 DEF FileComplete
<1> QED BY <1>7, <1>8, <1>9

\* The remote goes on without making the file wrong: what it changes has a newer
\* revision, or is gone.
LEMMA FileKept ==
  ASSUME TreeInv, TreeInv', RevInv, RevInv', FileTyped, FileInv, RemoteStep, UNCHANGED dircache
  PROVE  FileInv'
<1> SUFFICES ASSUME Loadable PROVE FileRevs' /\ FileAgrees' /\ FileComplete'
  BY DEF FileInv, Loadable
<1>1. /\ Loaded' = Loaded /\ LoadedPar' = LoadedPar
      /\ LoadedRrem' = LoadedRrem /\ LoadedLrev' = LoadedLrev
      /\ dircache'[1] = dircache[1] /\ mayfail' = mayfail
  <2>1. \A k : RecordOf(k)' = RecordOf(k) /\ \A r : Parent(r)' = Parent(r)
    BY DEF RecordOf, Parent
  <2>2. Loaded' = Loaded
    BY DEF Loaded
  <2>3. LoadedPar' = LoadedPar
    BY <2>2 DEF LoadedPar, Parent, RecordOf
  <2>4. LoadedRrem' = LoadedRrem /\ LoadedLrev' = LoadedLrev
    BY <2>2 DEF LoadedRrem, LoadedLrev, RecordOf
  <2> QED BY <2>2, <2>3, <2>4 DEF RemoteStep
<1>2. FileRevs /\ FileAgrees /\ FileComplete
  BY DEF FileInv
<1>3. /\ Loaded \subseteq Keys /\ dircache[1] \in Headers
      /\ \A k \in Loaded : RecordOf(k) \in Records
  BY LoadedTyped
<1>4. ASSUME NEW k \in Loaded PROVE RecordOf(k).rrem \in Nat /\ RecordOf(k).lrev \in Nat
  <2>1. RecordOf(k) \in Records
    BY <1>3
  <2> QED BY <2>1 DEF Records, Revs
<1>5. dircache[1].rrem \in Nat /\ dircache[1].lrev \in Nat /\ dircache[1].rev \in Nat
  BY <1>3 DEF Headers, Revs
<1>6. /\ \A n \in Nodes : LoadedRrem[n] \in Nat
      /\ \A d \in Dirs : LoadedLrev[d] \in Nat
  BY <1>4, <1>5 DEF LoadedRrem, LoadedLrev
<1>7. /\ devrev \in Nat /\ devrev' \in Nat /\ devrev' > devrev
      /\ \A n \in Nodes : rrev[n] \in Nat /\ rrev[n] <= devrev /\ (rrev'[n] = rrev[n] \/ rrev'[n] = devrev')
      /\ \A k \in Keys : k \in Nodes
      /\ \A d \in Dirs : d \in Nodes /\ d # None
      /\ \A d \in Folders : d \in Dirs
      /\ Root \in Dirs
  <2>1. devrev \in Nat /\ devrev' \in Nat /\ \A n \in Nodes : rrev[n] \in Nat
    BY DEF TreeInv, TypeOK, RemoteTypeOK, Revs
  <2>2. devrev' > devrev /\ \A n \in Nodes : rrev'[n] = rrev[n] \/ rrev'[n] = devrev'
    BY DEF RemoteStep, Shift
  <2>3. \A n \in Nodes : rrev[n] <= devrev
    BY DEF RevInv
  <2>4. /\ \A k \in Keys : k \in Nodes
        /\ \A d \in Dirs : d \in Nodes /\ d # None
        /\ \A d \in Folders : d \in Dirs
        /\ Root \in Dirs
    BY RemoteAssumption DEF Nodes, Dirs, Keys
  <2> QED BY <2>1, <2>2, <2>3, <2>4
<1>8. FileRevs'
  <2>1. ASSUME NEW n \in Nodes PROVE LoadedRrem[n] <= rrev'[n]
    <3>1. LoadedRrem[n] \in Nat /\ LoadedRrem[n] <= rrev[n] /\ rrev[n] \in Nat /\ rrev[n] <= devrev
      BY <1>2, <1>6, <1>7 DEF FileRevs
    <3>2. rrev'[n] = rrev[n] \/ rrev'[n] = devrev'
      BY <1>7
    <3> QED BY <1>7, <3>1, <3>2
  <2>2. dircache[1].rev <= devrev'
    BY <1>2, <1>5, <1>7 DEF FileRevs
  <2> QED BY <1>1, <1>2, <2>1, <2>2 DEF FileRevs
<1>9. ASSUME NEW k \in Keys, NEW r \in Nat, r <= devrev, rrev'[k] <= r
      PROVE  rrev'[k] = rrev[k] /\ (rparent'[k] = rparent[k] \/ rparent'[k] = None)
  BY <1>9, RemoteKeeps
<1>10. FileAgrees'
  <2> SUFFICES ASSUME NEW k \in Loaded
               PROVE  /\ LoadedRrem[k] = rrev'[k] /\ rparent'[k] \in Dirs => LoadedPar[k] = rparent'[k]
                      /\ rrev'[k] <= dircache[1].rev /\ (LoadedPar[k] = rparent'[k] \/ rparent'[k] = Root) =>
                           LoadedPar[k] = rparent'[k] /\ LoadedRrem[k] = rrev'[k]
    BY <1>1, <1>2 DEF FileAgrees
  <2>1. k \in Keys /\ k \in Nodes /\ LoadedPar[k] \in Dirs
    BY <1>2, <1>3, <1>7 DEF FileAgrees
  <2>2. LoadedRrem[k] \in Nat /\ LoadedRrem[k] <= devrev
    BY <1>2, <1>6, <1>7, <2>1 DEF FileRevs
  <2>3. ASSUME LoadedRrem[k] = rrev'[k], rparent'[k] \in Dirs PROVE LoadedPar[k] = rparent'[k]
    <3>1. rrev'[k] = rrev[k] /\ rparent'[k] = rparent[k]
      BY <1>7, <1>9, <2>1, <2>2, <2>3
    <3> QED BY <1>2, <2>3, <3>1 DEF FileAgrees
  <2>4. ASSUME rrev'[k] <= dircache[1].rev, LoadedPar[k] = rparent'[k] \/ rparent'[k] = Root
        PROVE  LoadedPar[k] = rparent'[k] /\ LoadedRrem[k] = rrev'[k]
    <3>1. dircache[1].rev <= devrev
      BY <1>2 DEF FileRevs
    <3>2. rparent'[k] \in Dirs
      BY <1>7, <2>1, <2>4
    <3>3. rrev'[k] = rrev[k] /\ rparent'[k] = rparent[k]
      BY <1>5, <1>7, <1>9, <2>1, <2>4, <3>1, <3>2
    <3> QED BY <1>2, <2>4, <3>3 DEF FileAgrees
  <2> QED BY <2>3, <2>4
<1>11. FileComplete'
  <2>1. ASSUME NEW k \in Keys, NEW d \in Folders, rparent'[k] = d, Within(d)',
               LoadedLrev[d] = rrev'[d],
               k \in Loaded \/ "info" \notin mayfail
        PROVE  k \in Loaded /\ LoadedPar[k] = d
    <3>1. LoadedLrev[d] \in Nat /\ LoadedRrem[d] \in Nat /\ rrev[d] \in Nat
          /\ LoadedLrev[d] <= LoadedRrem[d] /\ LoadedRrem[d] <= rrev[d] /\ rrev[d] <= devrev /\ d \in Dirs
      BY <1>2, <1>6, <1>7 DEF FileRevs
    <3>2. rrev'[d] <= devrev
      BY <1>7, <2>1, <3>1
    <3>3. rrev'[d] = rrev[d] /\ rparent[k] = d
      BY <2>1, <3>1, <3>2, RemoteFixed
    <3>4. Within(d)
      BY <2>1, <3>2, RemoteTells
    <3> QED BY <1>2, <2>1, <3>3, <3>4 DEF FileComplete
  <2>2. ASSUME "info" \notin mayfail, ~crowded', LoadedLrev[Root] = LoadedRrem[Root],
               NEW k \in Keys, rparent'[k] = Root, rrev'[k] <= dircache[1].rev
        PROVE  k \in Loaded /\ LoadedPar[k] = Root
    <3>1. dircache[1].rev <= devrev
      BY <1>2 DEF FileRevs
    <3>2. rrev'[k] = rrev[k] /\ rparent[k] = Root
      BY <1>5, <1>7, <1>9, <2>2, <3>1
    <3>3. ~crowded
      BY <2>2 DEF RemoteStep, Shift
    <3> QED BY <1>2, <2>2, <3>2, <3>3 DEF FileComplete
  <2> QED BY <1>1, <2>1, <2>2 DEF FileComplete
<1> QED BY <1>8, <1>10, <1>11

LEMMA FileSame ==
  ASSUME FileInv, UNCHANGED <<remote, mayfail, dircache>>
  PROVE  FileInv'
<1>1. Loaded' = Loaded
  BY DEF Loaded
<1>2. LoadedPar' = LoadedPar
  BY <1>1 DEF LoadedPar, Parent, RecordOf
<1>3. LoadedRrem' = LoadedRrem /\ LoadedLrev' = LoadedLrev
  BY <1>1 DEF LoadedRrem, LoadedLrev, RecordOf
<1>4. Loadable' = Loadable
  BY DEF Loadable
<1>5. /\ rparent' = rparent /\ rrev' = rrev /\ devrev' = devrev /\ mayfail' = mayfail
      /\ dircache' = dircache /\ (crowded' <=> crowded)
      /\ \A d \in Folders : d \in Dirs
  BY DEF remote, Dirs
<1>6. \A d \in Dirs : Within(d)' <=> Within(d)
  BY <1>5, ToldSame
<1>7. /\ FileRevs => FileRevs'
      /\ FileAgrees => FileAgrees'
      /\ FileComplete => FileComplete'
  BY <1>1, <1>2, <1>3, <1>5, <1>6 DEF FileRevs, FileAgrees, FileComplete
<1> QED BY <1>4, <1>7 DEF FileInv

-----------------------------------------------------------------------------
(* The steps from one mount to the next. *)

\* Between two API calls, and when no folder is being filled, there is nothing
\* that an answer could be wrong about.
LEMMA Settled ==
  ASSUME pc' \in {"idle", "status", "mount"}, ret' = "idle", stack' = <<>>, todo' = {}
  PROVE  TodoInv' /\ InfoInv' /\ FillInv' /\ Bound' = treerev' /\ ~Housekeeping'
<1>1. Waiting' = {}
  BY DEF Waiting
<1> QED BY <1>1 DEF TodoInv, InfoInv, FillInv, Filling, Bound, Updating, Housekeeping

LEMMA GoneKeeps ==
  ASSUME KeepInv, TreeInv', Gone
  PROVE  KeepInv' /\ DownInv'
<1>1. /\ UNCHANGED <<rparent, rrev, devrev, crowded, mayfail>>
      /\ tab' = {} /\ treerev' = 0 /\ endrev' = 0
      /\ pc' = "idle" /\ ret' = "idle" /\ todo' = {} /\ need' = None /\ stack' = <<>>
      /\ cursor' = 0
      /\ \A n \in Nodes : rrem'[n] = 0
      /\ \A d \in Dirs : lrev'[d] = 0 /\ kids'[d] = {}
  BY DEF Gone, remote
<1>2. RevInv /\ TreeInv
  BY DEF KeepInv
<1>3. /\ devrev \in Nat /\ \A n \in Nodes : rrev[n] \in Nat
      /\ \A k \in Keys : k \in Nodes
      /\ \A d \in Folders : d \in Dirs
      /\ \A d \in Dirs : d \in Nodes
      /\ Root \in Dirs
  BY <1>2, Numbers, RemoteAssumption DEF Nodes, Dirs, Keys
<1>4. TodoInv' /\ InfoInv' /\ FillInv' /\ Bound' = treerev'
  BY <1>1, Settled
<1>5. PlaceInv'
  BY <1>1 DEF PlaceInv, Asking, Filling, Housekeeping
<1>6. RevInv'
  <2>1. /\ \A n \in Nodes : rrev'[n] <= devrev'
        /\ rrev'[Root] >= 1
        /\ \A k \in Keys : rparent'[k] \in Dirs => rrev'[k] >= 1 /\ rrev'[rparent'[k]] >= 1
    BY <1>1, <1>2 DEF RevInv
  <2>2. treerev' <= devrev' /\ endrev' <= devrev' /\ \A n \in Nodes : rrem'[n] <= rrev'[n]
    BY <1>1, <1>3
  <2>3. \A d \in Dirs : lrev'[d] <= rrem'[d]
    BY <1>1, <1>3
  <2>4. \A d \in Folders : lrev'[d] = 0
    BY <1>1, <1>3
  <2>5. RemoteInv'
    BY <1>1, <1>2, ToldSame DEF RevInv
  <2> QED BY <1>1, <2>1, <2>2, <2>3, <2>4, <2>5 DEF RevInv
<1>7. AgreeInv' /\ HeldInv'
  BY <1>1 DEF AgreeInv, HeldInv
<1>8. CompleteInv'
  <2>1. ASSUME NEW k \in Keys, NEW d \in Folders, rparent'[k] = d PROVE lrev'[d] # rrev'[d]
    BY <1>1, <1>2, <1>3, <2>1 DEF RevInv
  <2> QED BY <2>1 DEF CompleteInv
<1>9. RootInv'
  <2>1. ASSUME NEW k \in Keys, rparent'[k] = Root PROVE ~(rrev'[k] <= Bound')
    <3>1. rrev[k] >= 1 /\ rrev[k] \in Nat
      BY <1>1, <1>2, <1>3, <2>1 DEF RevInv
    <3> QED BY <1>1, <1>4, <3>1
  <2> QED BY <2>1 DEF RootInv
<1>10. DownInv'
  BY <1>1 DEF DownInv
<1> QED BY <1>4, <1>5, <1>6, <1>7, <1>8, <1>9, <1>10 DEF KeepInv

LEMMA CreateKeeps ==
  ASSUME KeepInv, DownInv, TreeInv', CreateNew
  PROVE  KeepInv' /\ DownInv'
<1>1. /\ proc = "down" /\ proc' = "up" /\ pc' = "mount"
      /\ UNCHANGED <<rparent, rrev, devrev, crowded, mayfail>>
      /\ UNCHANGED <<tab, par, kids, rrem, lrev, treerev, ret, todo, endrev, need, stack, dir, cursor>>
  BY DEF CreateNew, StartMount, remote
<1>2. pc = "idle" /\ tab = {} /\ treerev = 0 /\ \A d \in Dirs : lrev[d] = 0
  BY <1>1 DEF DownInv
<1>3. PlaceInv /\ RevInv /\ TreeInv /\ AgreeInv /\ HeldInv /\ CompleteInv
  BY DEF KeepInv
<1>4. ret = "idle" /\ stack = <<>> /\ need = None /\ todo = {} /\ cursor = 0
  BY <1>2, <1>3 DEF PlaceInv, Asking, Filling, Housekeeping
<1>5. TodoInv' /\ InfoInv' /\ FillInv' /\ Bound' = treerev'
  BY <1>1, <1>4, Settled
<1>6. PlaceInv'
  BY <1>1, <1>2, <1>4, RemoteAssumption DEF PlaceInv, Asking, Filling, Housekeeping, Dirs
<1>7. RevInv'
  <2>1. RemoteInv'
    BY <1>1, <1>3, ToldSame DEF RevInv
  <2> QED BY <1>1, <1>3, <2>1 DEF RevInv, Known
<1>8. AgreeInv' /\ HeldInv' /\ CompleteInv'
  <2>1. AgreeInv'
    BY <1>1, <1>3 DEF AgreeInv
  <2>2. HeldInv'
    BY <1>1, <1>2 DEF HeldInv
  <2>3. CompleteInv'
    <3>1. \A d \in Folders : Within(d)' <=> Within(d)
      BY <1>1, ToldSame DEF Dirs
    <3> QED BY <1>1, <1>3, <3>1 DEF CompleteInv
  <2> QED BY <2>1, <2>2, <2>3
<1>9. RootInv'
  <2>1. ASSUME NEW k \in Keys, rparent'[k] = Root PROVE ~(rrev'[k] <= Bound')
    <3>1. rrev[k] >= 1 /\ rrev[k] \in Nat
      BY <1>1, <1>3, <2>1, Numbers, RemoteAssumption DEF RevInv, Dirs
    <3> QED BY <1>1, <1>2, <1>5, <3>1
  <2> QED BY <2>1 DEF RootInv
<1>10. DownInv'
  BY <1>1 DEF DownInv
<1> QED BY <1>5, <1>6, <1>7, <1>8, <1>9, <1>10 DEF KeepInv

LEMMA LoadKeeps ==
  ASSUME MountsInv, TreeInv', Load
  PROVE  KeepInv' /\ DownInv'
<1>1. /\ proc = "down" /\ proc' = "up" /\ pc' = "status"
      /\ UNCHANGED <<rparent, rrev, devrev, crowded, mayfail>>
      /\ UNCHANGED <<ret, todo, endrev, need, stack, dir, cursor>>
      /\ tab' = Loaded /\ par' = LoadedPar /\ rrem' = LoadedRrem /\ lrev' = LoadedLrev
      /\ kids' = [d \in Dirs |-> {k \in Loaded : LoadedPar[k] = d}]
      /\ treerev' = dircache[1].rev
  BY DEF Load, StartMount, remote
<1>2. PlaceInv /\ RevInv /\ TreeInv /\ pc = "idle"
  BY <1>1 DEF MountsInv, KeepInv, DownInv
<1>3. FileRevs /\ FileAgrees /\ FileComplete
  BY DEF MountsInv, FileInv, Load
<1>4. Loaded \subseteq Keys /\ \A k \in Loaded : LoadedPar[k] \in {Root} \cup Loaded
  BY LoadedTyped DEF MountsInv, StoredInv, Load
<1>5. ret = "idle" /\ stack = <<>> /\ need = None /\ todo = {} /\ cursor = 0
  BY <1>2 DEF PlaceInv, Asking, Filling, Housekeeping
<1>6. TodoInv' /\ InfoInv' /\ FillInv' /\ Bound' = treerev'
  BY <1>1, <1>5, Settled
<1>7. PlaceInv'
  BY <1>1, <1>5 DEF PlaceInv, Asking, Filling, Housekeeping
<1>8. Root \in Dirs /\ \A d \in Folders : d \in Dirs /\ d # Root
  BY RemoteAssumption DEF Dirs, Keys
<1>9. RevInv'
  <2>1. /\ \A n \in Nodes : rrev'[n] <= devrev'
        /\ rrev'[Root] >= 1
        /\ \A k \in Keys : rparent'[k] \in Dirs => rrev'[k] >= 1 /\ rrev'[rparent'[k]] >= 1
        /\ endrev' <= devrev'
    BY <1>1, <1>2 DEF RevInv
  <2>2. treerev' <= devrev'
    BY <1>1, <1>3 DEF FileRevs
  <2>3. \A n \in Nodes : rrem'[n] <= rrev'[n]
    BY <1>1, <1>3 DEF FileRevs
  <2>4. \A d \in Dirs : lrev'[d] <= rrem'[d]
    BY <1>1, <1>3 DEF FileRevs
  <2>5. \A d \in Folders \ tab' : lrev'[d] = 0
    BY <1>1, <1>8 DEF LoadedLrev
  <2>6. \A k \in tab' : par'[k] \in ((tab' \cup {Root}) \cap Dirs) \cup {Dangling}
    BY <1>1, <1>3, <1>4 DEF FileAgrees
  <2>7. RemoteInv'
    BY <1>1, <1>2, ToldSame DEF RevInv
  <2> QED BY <2>1, <2>2, <2>3, <2>4, <2>5, <2>6, <2>7 DEF RevInv, Known
<1>10. AgreeInv'
  BY <1>1, <1>3 DEF FileAgrees, AgreeInv
<1>11. HeldInv'
  BY <1>1, <1>3, <1>6 DEF FileAgrees, HeldInv
<1>12. \A k \in Keys : \A d \in Dirs : k \in Loaded /\ LoadedPar[k] = d => k \in kids'[d]
  BY <1>1
<1>13. CompleteInv'
  <2>1. \A d \in Dirs : Within(d)' <=> Within(d)
    BY <1>1, ToldSame
  <2> QED BY <1>1, <1>3, <1>8, <1>12, <2>1 DEF FileComplete, CompleteInv
<1>14. RootInv'
  BY <1>1, <1>3, <1>6, <1>8, <1>12 DEF FileComplete, RootInv, Stale
<1>15. DownInv'
  BY <1>1 DEF DownInv
<1> QED BY <1>6, <1>7, <1>9, <1>10, <1>11, <1>13, <1>14, <1>15 DEF KeepInv

LEMMA MountsInitially == StoredInit => MountsInv
<1> SUFFICES ASSUME StoredInit PROVE MountsInv
  OBVIOUS
<1>1. StoredInv /\ KeepInv
  BY StoredInitially, ViewInitially DEF StoredInit, ViewInv
<1>2. DownInv /\ FileInv
  BY DEF StoredInit, DownInv, FileInv, Loadable
<1> QED BY <1>1, <1>2 DEF MountsInv

LEMMA MountsStep == MountsInv /\ [StoredNext]_storedVars => MountsInv'
<1> SUFFICES ASSUME MountsInv, [StoredNext]_storedVars PROVE MountsInv'
  OBVIOUS
<1>1. StoredInv /\ KeepInv /\ DownInv /\ FileInv /\ TreeInv /\ RevInv /\ FileTyped
  BY DEF MountsInv, StoredInv, KeepInv
<1>2. StoredInv' /\ TreeInv'
  BY <1>1, StoredStep DEF StoredInv
<1>3. CASE Work \/ Look \/ Serve \/ Remotes \/ UNCHANGED storedVars
  <2>1. UNCHANGED stored /\ [Next]_vars
    BY <1>3 DEF Work, Look, Serve, Remotes, Next, storedVars
  <2>2. KeepInv'
    BY <1>1, <2>1, KeepStep
  <2>3. proc = "down" => Others \/ UNCHANGED vars
    BY <1>3 DEF Work, Look, Serve, Remotes, storedVars
  <2>4. DownInv'
    BY <1>1, <2>1, <2>3 DEF DownInv, stored, Others, entries, control, vars
  <2>5. CASE Handler \/ Others
    <3>1. RemoteStep /\ UNCHANGED dircache
      BY <1>1, <2>1, <2>5, RemoteSteps DEF stored
    <3> QED BY <1>1, <1>2, <2>2, <2>4, <3>1, FileKept DEF MountsInv, KeepInv
  <2>6. CASE ~(Handler \/ Others)
    <3>1. UNCHANGED <<remote, mayfail>>
      BY <2>1, <2>6 DEF Next, Holder, vars, ListFails, ListFolders, ListFiles, InfoFails,
        InfoAnswers, Unwind, GetChanges, GetChangesFails, ApplyDeleted, ApplyIgnored,
        ApplyUpdated, ApplyDone, EndUpdate, HousekeepOrphan, HousekeepDone, MountStatus,
        MountInfo, GetStatus, Lookup
    <3>2. UNCHANGED dircache
      BY <2>1 DEF stored
    <3> QED BY <1>1, <1>2, <2>2, <2>4, <3>1, <3>2, FileSame DEF MountsInv
  <2> QED BY <2>5, <2>6
<1>4. CASE Unmount
  BY <1>1, <1>2, <1>4, GoneKeeps, ImageExact DEF Unmount, MountsInv
<1>5. CASE Crash
  <2>1. UNCHANGED <<remote, mayfail, dircache>>
    BY <1>5 DEF Crash, Gone
  <2> QED BY <1>1, <1>2, <1>5, <2>1, GoneKeeps, FileSame DEF Crash, MountsInv
<1>6. CASE UnmountTouchesFreed
  <2>1. UNCHANGED <<remote, mayfail, tab, par, kids, rrem, lrev, treerev, control, stored>>
    BY <1>6 DEF UnmountTouchesFreed
  <2>2. UNCHANGED <<Waiting, Bound>> /\ \A k : Pending(k)' = Pending(k)
    BY <2>1 DEF control, Waiting, Bound, Updating, Pending
  <2>r. /\ rparent' = rparent /\ (crowded' <=> crowded) /\ dir' = dir /\ dir \in Dirs
        /\ \A d \in Folders : d \in Dirs
    BY <1>1, <2>1 DEF remote, control, TreeInv, TypeOK, Dirs
  <2>w. /\ \A d \in Dirs : Within(d)' <=> Within(d)
        /\ RemoteInv => RemoteInv'
    BY <2>r, ToldSame
  <2>3. PlaceInv' /\ RevInv' /\ TodoInv' /\ AgreeInv' /\ CompleteInv'
    BY <1>1, <2>1, <2>r, <2>w DEF KeepInv, control, remote, PlaceInv, RevInv, TodoInv, AgreeInv,
                      CompleteInv, Asking, Filling, Housekeeping, Known
  <2>4. InfoInv' /\ HeldInv'
    BY <1>1, <2>1, <2>2 DEF KeepInv, control, remote, InfoInv, HeldInv
  <2>d. Within(dir)' <=> Within(dir)
    <3>1. PICK d \in Dirs : d = dir /\ d = dir'
      BY <2>r
    <3> QED BY <2>w, <3>1
  <2>5. FillInv' /\ RootInv'
    BY <1>1, <2>1, <2>2, <2>r, <2>d DEF KeepInv, control, remote, FillInv, RootInv, Filling, Updating,
                            Housekeeping, Stale, Content
  <2>6. DownInv' /\ FileInv'
    BY <1>1, <2>1, FileSame DEF DownInv, stored, control
  <2> QED BY <1>2, <2>3, <2>4, <2>5, <2>6 DEF MountsInv, KeepInv
<1>7. CASE Load
  <2>1. UNCHANGED <<remote, mayfail, dircache>>
    BY <1>7 DEF Load, StartMount
  <2> QED BY <1>1, <1>2, <1>7, <2>1, LoadKeeps, FileSame DEF MountsInv
<1>8. CASE CreateNew
  <2>1. UNCHANGED <<remote, mayfail, dircache>>
    BY <1>8 DEF CreateNew, StartMount
  <2> QED BY <1>1, <1>2, <1>8, <2>1, CreateKeeps, FileSame DEF MountsInv
<1> QED BY <1>3, <1>4, <1>5, <1>6, <1>7, <1>8 DEF StoredNext

LEMMA MountsInductive == StoredSpec => []MountsInv
BY MountsInitially, MountsStep, PTL DEF StoredSpec

-----------------------------------------------------------------------------
(* The theorems. *)

\* The variables have their types over all mounts; in particular every parent
\* offset of the file stays within what its header announces (hashtbl.c:383).
THEOREM StoredTypeCorrect == StoredSpec => []StoredTypeOK
<1>1. StoredInv => StoredTypeOK
  BY DEF StoredInv, TreeInv, FileTyped, MountTyped, StoredTypeOK
<1> QED BY <1>1, StoredInductive, PTL

\* folder_tree_load makes children arrays that agree with the parents, from
\* whatever folder_tree_store, or a crash while it ran, has left; and so they
\* stay during every mount.
THEOREM StoredChildrenAgree == StoredSpec => []ChildrenAgree
<1>1. StoredInv => ChildrenAgree
  BY DEF StoredInv, TreeInv
<1> QED BY <1>1, StoredInductive, PTL

\* No mount loses a change, though it starts with a tree of any age: from the
\* revision of the file on, folder_tree_update integrates what was missed
\* (hashtbl.c:1463), whatever fails, and wherever the file was cut off.
THEOREM NoMountLosesChanges == StoredSpec => []ChangesIntegrated
<1>1. MountsInv => ChangesIntegrated
  BY ChangesFound DEF MountsInv
<1> QED BY <1>1, MountsInductive, PTL

\* A loaded tree lacks nothing, once it has caught up, in a folder that is where
\* the remote has it and that a path walk takes as it is (hashtbl.c:337), as long
\* as one answer of folder/get_content tells all that the folder holds
\* (folder_get_content.c:94; of the root: all that it ever held).
THEOREM NothingGoesMissing == StoredSpec => []NothingMissing
<1>1. ASSUME MountsInv, Current, "info" \notin mayfail, NEW d \in Known \cap Dirs, ~Stale(d),
             d = Root \/ par[d] = rparent[d], Told(d), NEW k \in Keys, rparent[k] = d
      PROVE  k \in kids[d]
  <2>1. /\ TreeInv /\ PlaceInv /\ RevInv /\ HeldInv /\ CompleteInv /\ RootInv
        /\ pc = "idle" /\ treerev = devrev
    BY <1>1 DEF MountsInv, KeepInv, Current
  <2>2. Bound = devrev /\ ~Updating /\ ~Housekeeping /\ \A j \in Keys : ~Pending(j)
    BY <2>1, NothingPending DEF Housekeeping
  <2>3. \A n \in Nodes : rrev[n] <= Bound
    BY <2>1, <2>2 DEF RevInv
  <2>4. Keys \subseteq Nodes /\ Root \notin Keys
    BY RemoteAssumption DEF Nodes
  <2>5. CASE d = Root
    <3>1. rparent[k] = Root /\ rrev[k] <= Bound /\ ~Stale(Root)
      BY <1>1, <2>3, <2>4, <2>5
    <3>2. k \in kids[Root]
      BY <1>1, <2>1, <2>2, <2>5, <3>1 DEF RootInv, Told
    <3> QED BY <2>5, <3>2
  <2>6. CASE d # Root
    <3>1. d \in tab /\ d \in Folders /\ d \in Keys
      BY <2>6 DEF Known, Dirs, Keys
    <3>2. rrem[d] = rrev[d]
      BY <1>1, <2>1, <2>2, <2>3, <2>4, <2>6, <3>1 DEF HeldInv
    <3>3. lrev[d] = rrev[d]
      BY <1>1, <3>2 DEF Stale
    <3>4. Within(d)
      BY <1>1, <2>6 DEF Told
    <3> QED BY <1>1, <2>1, <3>1, <3>3, <3>4 DEF CompleteInv
  <2> QED BY <2>5, <2>6
<1>2. MountsInv => NothingMissing
  BY <1>1 DEF NothingMissing, Content
<1> QED BY <1>2, MountsInductive, PTL
=============================================================================
