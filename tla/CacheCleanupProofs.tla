------------------------- MODULE CacheCleanupProofs -------------------------
(***************************************************************************)
(* Whatever copies an earlier mount has left, and in whatever order readdir *)
(* yields them, folder_tree_cleanup_filecache leaves what CacheCleanup     *)
(* states of it, for any files, revisions and sizes.                       *)
(*                                                                         *)
(* That the copies are right (CopiesInv) has nothing to do with sizes:     *)
(* which copies are evicted does not matter.  That they fit (SumInv) has   *)
(* to relate sum_size to the copies that are still counted, and those to   *)
(* the directory.                                                          *)
(***************************************************************************)
EXTENDS CacheCleanup, FiniteSetTheorems, TLAPS

\* The part of TypeOK that the two theorems rest on.
CopiesTyped ==
  /\ remote \in [Keys -> Revs]
  /\ local \in [Keys -> 0 .. MaxRev]
  /\ disk \in [Names -> {"none", "good", "bad"}]
  /\ todo \subseteq Names
  /\ valid \subseteq Keys

\* A copy that was visited is right, unless its unlink failed.
VisitedRight ==
  \A n \in Names \ (todo \cup stuck) :
    disk[n] # "none" => n[1] \in tab /\ n[2] = remote[n[1]] /\ disk[n] = "good"

AllVisited == pc # "visit" => todo = {}

CopiesInv ==
  tab \subseteq Keys /\ CopiesTyped /\ VisitedRight /\ AllVisited

LEMMA CopiesInit == Init => CopiesInv
<1> SUFFICES ASSUME Init PROVE CopiesInv
  OBVIOUS
<1>1. CopiesTyped
  BY DEF Init, CopiesTyped, Present
<1>2. VisitedRight
  BY <1>1 DEF Init, VisitedRight, CopiesTyped, Present
<1> QED BY <1>1, <1>2 DEF Init, CopiesInv, AllVisited

\* Every unlink of the visit and of the eviction, with the entry of the copy
\* left without one.
LEMMA DropStep ==
  ASSUME CopiesInv, NEW n \in Names, Unlink(n), UNCHANGED entries,
         todo' \in {todo, todo \ {n}}, valid' \subseteq Keys,
         local' = Forgotten(n[1]) \/ (n[1] \notin tab /\ UNCHANGED local)
  PROVE  CopiesTyped' /\ VisitedRight'
<1> USE DEF CopiesInv
<1>1. disk' \in {disk, [disk EXCEPT ![n] = "none"]}
  BY DEF Unlink
<1>2. n[1] \in Keys /\ n = <<n[1], n[2]>>
  BY DEF Names
<1>3. CopiesTyped'
  BY <1>1, <1>2, CacheCleanupAssumption DEF CopiesTyped, Forgotten, entries
<1>4. VisitedRight'
  <2> SUFFICES ASSUME NEW m \in Names, m \notin todo', m \notin stuck', disk'[m] # "none"
               PROVE  m[1] \in tab /\ m[2] = remote[m[1]] /\ disk'[m] = "good"
    BY DEF VisitedRight, entries
  <2>1. m # n /\ m \notin stuck
    BY DEF Unlink, CopiesTyped
  <2>2. disk'[m] = disk[m]
    BY <1>1, <2>1 DEF CopiesTyped
  <2> QED BY <2>1, <2>2 DEF VisitedRight
<1> QED BY <1>3, <1>4

LEMMA VisitStep == CopiesInv /\ Visit => CopiesInv'
<1> SUFFICES ASSUME CopiesInv, Visit PROVE CopiesInv'
  OBVIOUS
<1>1. PICK n \in todo :
        /\ VisitUnknown(n[1], n[2]) \/ VisitStale(n[1], n[2]) \/ VisitValid(n[1], n[2])
        /\ todo' = todo \ {n}
  BY DEF Visit
<1>2. n \in Names /\ n[1] \in Keys /\ n = <<n[1], n[2]>>
  BY DEF CopiesInv, CopiesTyped, Names
<1>3. tab' \subseteq Keys /\ AllVisited'
  BY DEF CopiesInv, Visit, entries, AllVisited
<1>4. CASE VisitUnknown(n[1], n[2])
  BY <1>1, <1>2, <1>3, <1>4, DropStep DEF VisitUnknown, Visit, CopiesInv, CopiesTyped
<1>5. CASE VisitStale(n[1], n[2])
  BY <1>1, <1>2, <1>3, <1>5, DropStep DEF VisitStale, Visit, CopiesInv, CopiesTyped
<1>6. CASE VisitValid(n[1], n[2])
  <2>1. n[1] \in tab /\ n[2] = remote[n[1]] /\ disk[n] = "good"
    BY <1>2, <1>6 DEF VisitValid, Stale
  <2>2. UNCHANGED <<entries, disk, local, stuck>>
    BY <1>6 DEF VisitValid, Visit
  <2>3. CopiesTyped'
    BY <1>1, <1>2, <1>6, <2>2 DEF VisitValid, CopiesInv, CopiesTyped, entries
  <2>4. VisitedRight'
    BY <1>1, <2>1, <2>2 DEF CopiesInv, VisitedRight, entries
  <2> QED BY <1>3, <2>3, <2>4 DEF CopiesInv
<1> QED BY <1>1, <1>4, <1>5, <1>6

LEMMA EvictStep == CopiesInv /\ Evict => CopiesInv'
<1> SUFFICES ASSUME CopiesInv, Evict PROVE CopiesInv'
  OBVIOUS
<1>1. PICK k \in valid :
        Unlink(<<k, remote[k]>>) /\ local' = Forgotten(k) /\ valid' = valid \ {k}
  BY DEF Evict, First
<1>2. k \in Keys /\ <<k, remote[k]>> \in Names /\ <<k, remote[k]>>[1] = k
  BY DEF CopiesInv, CopiesTyped, Names
<1>3. UNCHANGED <<entries, todo, pc>>
  BY DEF Evict
<1>4. CopiesTyped' /\ VisitedRight'
  BY <1>1, <1>2, <1>3, DropStep DEF CopiesInv, CopiesTyped
<1> QED BY <1>3, <1>4 DEF CopiesInv, AllVisited, entries

LEMMA CopiesStep == CopiesInv /\ [Next]_vars => CopiesInv'
<1> SUFFICES ASSUME CopiesInv, [Next]_vars PROVE CopiesInv'
  OBVIOUS
<1>1. CASE Summed \/ Finish \/ UNCHANGED vars
  <2>1. UNCHANGED <<entries, local, disk, todo, valid, stuck>>
    BY <1>1 DEF Summed, Finish, vars
  <2>2. AllVisited'
    BY <1>1 DEF CopiesInv, AllVisited, Summed, Finish, vars
  <2> QED BY <2>1, <2>2 DEF CopiesInv, CopiesTyped, VisitedRight, entries
<1> QED BY <1>1, VisitStep, EvictStep DEF Next

LEMMA CopiesAlways == Spec => []CopiesInv
BY CopiesInit, CopiesStep, PTL DEF Spec

\* After the cleanup the directory holds only copies of files of the tree, of
\* their remote revision, with the right content, and copies whose own unlink
\* failed: one failure does not make the cleanup leave any other wrong copy.
THEOREM LeftAreRight == Spec => []LeftRight
<1>1. CopiesInv => LeftRight
  BY DEF CopiesInv, VisitedRight, AllVisited, LeftRight, Present
<1> QED BY <1>1, CopiesAlways, PTL

-----------------------------------------------------------------------------
(* Sums of sizes *)

LEMMA BytesFinite ==
  ASSUME NEW S \in SUBSET Keys
  PROVE  IsFiniteSet(BytesOf(S)) /\ SumOf(S) \in Nat
<1> DEFINE f == [k \in S |-> {k} \X (1 .. Size[k])]
           T == {{k} \X (1 .. Size[k]) : k \in S}
<1>1. IsFiniteSet(S)
  BY FS_Subset, CacheCleanupAssumption
<1>2. f \in Surjection(S, T)
  BY DEF Surjection
<1>3. IsFiniteSet(T)
  BY <1>1, <1>2, FS_Surjection
<1>4. ASSUME NEW t \in T PROVE IsFiniteSet(t)
  <2>1. PICK k \in S : t = {k} \X (1 .. Size[k])
    OBVIOUS
  <2>2. 1 \in Int /\ Size[k] \in Int
    BY CacheCleanupAssumption
  <2>3. IsFiniteSet(1 .. Size[k]) /\ IsFiniteSet({k})
    BY <2>2, FS_Interval, FS_Singleton
  <2> QED BY <2>1, <2>3, FS_Product
<1>5. IsFiniteSet(UNION T)
  <2> HIDE DEF T
  <2> QED BY <1>3, <1>4, FS_UNION
<1>6. BytesOf(S) = UNION T
  BY DEF BytesOf
<1> HIDE DEF T
<1> QED BY <1>5, <1>6, FS_CardinalityType DEF SumOf

LEMMA SumEmpty == SumOf({}) = 0
<1>1. BytesOf({}) = {}
  BY DEF BytesOf
<1> QED BY <1>1, FS_EmptySet DEF SumOf

\* More files are not smaller.
LEMMA SumMonotone ==
  ASSUME NEW S \in SUBSET Keys, NEW T \in SUBSET S
  PROVE  SumOf(T) <= SumOf(S)
<1>1. BytesOf(T) \subseteq BytesOf(S)
  BY DEF BytesOf
<1> QED BY <1>1, BytesFinite, FS_Subset DEF SumOf

\* Without one file there are its bytes less.
LEMMA SumWithout ==
  ASSUME NEW S \in SUBSET Keys, NEW k \in S
  PROVE  SumOf(S \ {k}) = SumOf(S) - Size[k]
<1> DEFINE own == {k} \X (1 .. Size[k])
<1>1. BytesOf(S \ {k}) = BytesOf(S) \ own
  BY DEF BytesOf
<1>2. BytesOf(S) \cap own = own
  BY DEF BytesOf
<1>3. 1 \in Int /\ Size[k] \in Nat
  BY CacheCleanupAssumption
<1>4. IsFiniteSet(1 .. Size[k]) /\ Cardinality(1 .. Size[k]) = Size[k]
  BY <1>3, FS_Interval
<1>5. IsFiniteSet({k}) /\ Cardinality({k}) = 1
  BY FS_Singleton
<1>6. Cardinality(own) = 1 * Size[k]
  BY <1>4, <1>5, FS_Product
<1> HIDE DEF own
<1>7. Cardinality(BytesOf(S) \ own) = Cardinality(BytesOf(S)) - Cardinality(own)
  BY <1>2, BytesFinite, FS_Difference
<1>8. Cardinality(own) = Size[k]
  BY <1>3, <1>6
<1>9. SumOf(S \ {k}) = Cardinality(BytesOf(S) \ own) /\ SumOf(S) = Cardinality(BytesOf(S))
  BY <1>1 DEF SumOf
<1> QED BY <1>7, <1>8, <1>9

-----------------------------------------------------------------------------
(* sum_size is that of the copies still counted, and of those that were     *)
(* visited no other copy is left, unless its own unlink failed.            *)

Counting ==
  /\ pc \in {"visit", "evict", "done"} /\ stuck \subseteq Names
  /\ valid \subseteq tab
  /\ sum = IF pc = "visit" THEN 0 ELSE SumOf(valid)

LeftCounted ==
  \A n \in Names \ (todo \cup stuck) : disk[n] # "none" => n[1] \in valid

LittleLeft == pc = "done" => sum <= Allowed \/ valid = {}

SumInv == CopiesInv /\ Counting /\ LeftCounted /\ LittleLeft

LEMMA SumInit == Init => SumInv
<1> SUFFICES ASSUME Init PROVE SumInv
  OBVIOUS
<1>1. CopiesInv
  BY CopiesInit
<1>2. Counting /\ LittleLeft
  BY DEF Init, Counting, LittleLeft
<1>3. LeftCounted
  BY DEF Init, LeftCounted, Present
<1> QED BY <1>1, <1>2, <1>3 DEF SumInv

LEMMA SumVisit == SumInv /\ Visit => Counting' /\ LeftCounted' /\ LittleLeft'
<1> SUFFICES ASSUME SumInv, Visit PROVE Counting' /\ LeftCounted' /\ LittleLeft'
  OBVIOUS
<1>1. PICK n \in todo :
        /\ VisitUnknown(n[1], n[2]) \/ VisitStale(n[1], n[2]) \/ VisitValid(n[1], n[2])
        /\ todo' = todo \ {n}
  BY DEF Visit
<1>2. n \in Names /\ n = <<n[1], n[2]>> /\ disk \in [Names -> {"none", "good", "bad"}]
  BY DEF SumInv, CopiesInv, CopiesTyped, Names
<1>3. pc = "visit" /\ UNCHANGED <<tab, sum, pc>>
  BY DEF Visit, entries
<1>4. stuck' \subseteq Names /\ stuck \subseteq stuck'
  BY <1>1, <1>2 DEF VisitUnknown, VisitStale, VisitValid, Unlink, SumInv, Counting
<1>5. valid \subseteq valid' /\ valid' \subseteq tab
  BY <1>1 DEF VisitUnknown, VisitStale, VisitValid, SumInv, Counting
<1>6. Counting' /\ LittleLeft'
  BY <1>3, <1>4, <1>5 DEF Counting, LittleLeft, SumInv
<1>7. LeftCounted'
  <2> SUFFICES ASSUME NEW m \in Names, m \notin todo', m \notin stuck', disk'[m] # "none"
               PROVE  m[1] \in valid'
    BY DEF LeftCounted
  <2>1. CASE m # n
    <3>1. disk'[m] = disk[m]
      BY <1>1, <1>2, <2>1 DEF VisitUnknown, VisitStale, VisitValid, Unlink
    <3> QED BY <1>1, <1>4, <1>5, <2>1, <3>1 DEF SumInv, LeftCounted
  <2>2. CASE m = n
    <3>1. ASSUME Unlink(n) PROVE FALSE
      BY <1>2, <2>2, <3>1 DEF Unlink
    <3> QED BY <1>1, <1>2, <2>2, <3>1 DEF VisitUnknown, VisitStale, VisitValid
  <2> QED BY <2>1, <2>2
<1> QED BY <1>6, <1>7

LEMMA SumEvict == SumInv /\ Evict => Counting' /\ LeftCounted' /\ LittleLeft'
<1> SUFFICES ASSUME SumInv, Evict PROVE Counting' /\ LeftCounted' /\ LittleLeft'
  OBVIOUS
<1>1. PICK k \in valid :
        Unlink(<<k, remote[k]>>) /\ valid' = valid \ {k} /\ sum' = sum - Size[k]
  BY DEF Evict, First
<1>2. pc = "evict" /\ UNCHANGED <<tab, remote, todo, pc>>
  BY DEF Evict, entries
<1>3. valid \subseteq Keys /\ k \in Keys /\ <<k, remote[k]>> \in Names
      /\ disk \in [Names -> {"none", "good", "bad"}]
  BY DEF SumInv, CopiesInv, CopiesTyped, Names
<1>4. /\ stuck' \subseteq Names /\ stuck \subseteq stuck'
      /\ disk' = [disk EXCEPT ![<<k, remote[k]>>] = "none"] \/ (UNCHANGED disk /\ <<k, remote[k]>> \in stuck')
  BY <1>1, <1>3 DEF Unlink, SumInv, Counting
<1>5. sum' = SumOf(valid')
  BY <1>1, <1>2, <1>3, SumWithout DEF SumInv, Counting
<1>6. Counting' /\ LittleLeft'
  BY <1>1, <1>2, <1>4, <1>5 DEF Counting, LittleLeft, SumInv
<1>7. LeftCounted'
  <2> SUFFICES ASSUME NEW m \in Names, m \notin todo', m \notin stuck', disk'[m] # "none"
               PROVE  m[1] \in valid'
    BY DEF LeftCounted
  <2>1. m # <<k, remote[k]>> /\ disk'[m] = disk[m]
    BY <1>3, <1>4
  <2>2. m[1] \in valid /\ m[2] = remote[m[1]]
    BY <1>2, <1>4, <2>1 DEF SumInv, LeftCounted, CopiesInv, VisitedRight
  <2>3. m = <<m[1], m[2]>>
    BY DEF Names
  <2> QED BY <1>1, <2>1, <2>2, <2>3
<1> QED BY <1>6, <1>7

LEMMA SumStep == SumInv /\ [Next]_vars => SumInv'
<1> SUFFICES ASSUME SumInv, [Next]_vars PROVE SumInv'
  OBVIOUS
<1>1. CopiesInv'
  BY CopiesStep DEF SumInv
<1>2. CASE Visit
  BY <1>1, <1>2, SumVisit DEF SumInv
<1>3. CASE Evict
  BY <1>1, <1>3, SumEvict DEF SumInv
<1>4. CASE Summed
  BY <1>1, <1>4 DEF SumInv, Summed, Counting, LeftCounted, LittleLeft, entries
<1>5. CASE Finish
  <2>1. UNCHANGED <<tab, disk, todo, valid, sum, stuck>> /\ pc = "evict" /\ pc' = "done"
    BY <1>5 DEF Finish, entries
  <2>2. sum <= Allowed \/ valid = {}
    <3>1. sum \in Nat /\ Allowed \in Nat
      BY <2>1, BytesFinite, CacheCleanupAssumption DEF SumInv, Counting, CopiesInv, CopiesTyped
    <3> QED BY <1>5, <3>1 DEF Finish, TooBig
  <2> QED BY <1>1, <2>1, <2>2 DEF SumInv, Counting, LeftCounted, LittleLeft
<1>6. CASE UNCHANGED vars
  BY <1>1, <1>6 DEF SumInv, Counting, LeftCounted, LittleLeft, vars, entries
<1> QED BY <1>2, <1>3, <1>4, <1>5, <1>6 DEF Next

LEMMA SumAlways == Spec => []SumInv
BY SumInit, SumStep, PTL DEF Spec

\* Every variable of the cleanup keeps its range: sum_size, from which the size
\* of each evicted copy is subtracted, never falls below zero, where the
\* unsigned counter of the code would be huge.
THEOREM CleanupTypeCorrect == Spec => []TypeOK
<1>1. SumInv => TypeOK
  <2> SUFFICES ASSUME SumInv PROVE TypeOK
    OBVIOUS
  <2>1. sum \in Nat
    BY BytesFinite DEF SumInv, Counting, CopiesInv, CopiesTyped
  <2> QED BY <2>1 DEF SumInv, Counting, CopiesInv, CopiesTyped, TypeOK
<1> QED BY <1>1, SumAlways, PTL

\* What the cleanup leaves in the directory, without the copies whose unlink
\* failed, is not larger than allowed: copies are evicted until the rest fits, in
\* any order, and one that cannot be unlinked stops nothing.
THEOREM WhatIsLeftFits == Spec => []LeftFits
<1>1. SumInv => LeftFits
  <2> SUFFICES ASSUME SumInv, pc = "done"
               PROVE  SumOf({n[1] : n \in Present \ stuck}) <= Allowed
    BY DEF LeftFits
  <2> DEFINE L == {n[1] : n \in Present \ stuck}
  <2>1. L \subseteq valid /\ valid \subseteq Keys
    BY DEF SumInv, LeftCounted, CopiesInv, CopiesTyped, AllVisited, Present
  <2>2. SumOf(valid) <= Allowed
    <3>1. CASE sum <= Allowed
      BY <3>1 DEF SumInv, Counting
    <3>2. CASE valid = {}
      BY <3>2, SumEmpty, CacheCleanupAssumption
    <3> QED BY <3>1, <3>2 DEF SumInv, LittleLeft
  <2> HIDE DEF L
  <2>3. SumOf(L) <= SumOf(valid)
    BY <2>1, SumMonotone
  <2>4. SumOf(L) \in Nat /\ SumOf(valid) \in Nat
    BY <2>1, BytesFinite
  <2>5. SumOf(L) <= Allowed
    BY <2>2, <2>3, <2>4, CacheCleanupAssumption
  <2> QED BY <2>5 DEF L
<1> QED BY <1>1, SumAlways, PTL
=============================================================================
