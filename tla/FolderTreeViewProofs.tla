------------------------- MODULE FolderTreeViewProofs -------------------------
(***************************************************************************)
(* What the local tree shows of the remote one, for every set of keys,     *)
(* every revision bound and every choice of calls that may fail: that no   *)
(* change is lost (ChangesIntegrated), that a path walk sees what the      *)
(* remote holds, as far as one answer of get_content tells it              *)
(* (ViewAccurate), and that housekeeping leaves nothing that is gone       *)
(* (HousekeepingCleans).                                                   *)
(***************************************************************************)
EXTENDS FolderTreeProofs, FiniteSetTheorems, WellFoundedInduction, NaturalsInduction

-----------------------------------------------------------------------------
(* The recursive functions of the model.  Induction is a smallest          *)
(* counterexample.                                                         *)

LEMMA SmallestExists ==
  ASSUME NEW S \in SUBSET Nat, S # {}
  PROVE  \E m \in S : \A n \in S : m <= n
<1>1. PICK m \in S : \A n \in S : ~(<<n, m>> \in OpToRel(<, Nat))
  BY WFMin, NatLessThanWellFounded
<1>2. \A n \in S : ~(n < m)
  BY <1>1 DEF OpToRel
<1> QED BY <1>2

\* Iterating F from s: the form of the model's recursive functions.
IsIteration(f, F, s, N) == f = [n \in 0 .. N |-> IF n = 0 THEN s ELSE F[f[n - 1]]]

LEMMA IterationExists ==
  ASSUME NEW T, NEW F \in [T -> T], NEW s \in T, NEW N \in Nat
  PROVE  \E f \in [0 .. N -> T] : IsIteration(f, F, s, N)
<1> DEFINE Good(n) == \E f \in [0 .. n -> T] : IsIteration(f, F, s, n)
           Bad == {n \in Nat : ~Good(n)}
<1>1. SUFFICES ASSUME Bad # {} PROVE FALSE
  OBVIOUS
<1>2. PICK m \in Bad : \A n \in Bad : m <= n
  BY <1>1, SmallestExists
<1>3. m \in Nat /\ ~Good(m) /\ (m # 0 => m - 1 \in Nat /\ Good(m - 1))
  <2>1. m \in Nat /\ ~Good(m)
    BY <1>2
  <2>2. m # 0 => m - 1 \in Nat /\ m - 1 \notin Bad
    <3> HIDE DEF Bad
    <3> QED BY <1>2, <2>1
  <2> QED BY <2>1, <2>2
<1>4. CASE m = 0
  <2>1. [i \in 0 .. 0 |-> s] \in [0 .. 0 -> T] /\ IsIteration([i \in 0 .. 0 |-> s], F, s, 0)
    BY DEF IsIteration
  <2> QED BY <1>3, <1>4, <2>1
<1>5. CASE m # 0
  <2>1. m - 1 \in Nat
    BY <1>3, <1>5
  <2>2. PICK g \in [0 .. m - 1 -> T] : g = [n \in 0 .. m - 1 |-> IF n = 0 THEN s ELSE F[g[n - 1]]]
    BY <1>3, <1>5 DEF IsIteration
  <2> DEFINE h == [i \in 0 .. m |-> IF i = m THEN F[g[m - 1]] ELSE g[i]]
  <2>3. h \in [0 .. m -> T]
    <3>1. \A i \in 0 .. m : i # m => i \in 0 .. m - 1
      BY <1>3
    <3>2. g[m - 1] \in T
      BY <2>1
    <3> QED BY <3>1, <3>2
  <2>4. \A i \in 0 .. m : h[i] = IF i = 0 THEN s ELSE F[h[i - 1]]
    <3> SUFFICES ASSUME NEW i \in 0 .. m PROVE h[i] = IF i = 0 THEN s ELSE F[h[i - 1]]
      OBVIOUS
    <3>1. CASE i = m
      BY <3>1, <1>3, <1>5, <2>2
    <3>2. CASE i # m
      <4>1. i \in 0 .. m - 1 /\ h[i] = g[i] 
        BY <3>2, <1>3
      <4>2. g[i] = IF i = 0 THEN s ELSE F[g[i - 1]]
        BY <4>1, <2>2
      <4>3. i # 0 => h[i - 1] = g[i - 1]
        BY <4>1, <1>3
      <4> QED BY <4>1, <4>2, <4>3
    <3> QED BY <3>1, <3>2
  <2>5. IsIteration(h, F, s, m)
    <3> HIDE DEF h
    <3> QED BY <2>3, <2>4 DEF IsIteration
  <2> QED BY <1>3, <2>3, <2>5
<1> QED BY <1>4, <1>5

\* A sequence of growing sets contains only what one of its steps brought, and
\* no step takes anything out.
Grows(f, D, s, N) == f[0] = s /\ \A n \in 1 .. N : f[n] = f[n - 1] \cup D[n]

LEMMA GrowthKeeps ==
  ASSUME NEW N \in Nat, NEW f, NEW D, NEW s, Grows(f, D, s, N), NEW i \in 0 .. N
  PROVE  f[i] \subseteq f[N]
<1> DEFINE Bad == {n \in i .. N : ~(f[i] \subseteq f[n])}
<1>1. SUFFICES ASSUME Bad # {} PROVE FALSE
  OBVIOUS
<1>2. PICK m \in Bad : \A n \in Bad : m <= n
  <2>1. Bad \in SUBSET Nat
    OBVIOUS
  <2> HIDE DEF Bad
  <2> QED BY <1>1, <2>1, SmallestExists
<1>3. m \in i .. N /\ ~(f[i] \subseteq f[m]) /\ m # i
  BY <1>2
<1>4. m - 1 \in i .. N /\ m \in 1 .. N
  BY <1>3
<1>5. m - 1 \notin Bad
  <2> HIDE DEF Bad
  <2> QED BY <1>2, <1>4
<1>6. f[m - 1] \subseteq f[m]
  BY <1>4 DEF Grows
<1> QED BY <1>3, <1>4, <1>5, <1>6

\* What contains s, and each step's gain if it contains the set before the step,
\* contains the result.
LEMMA GrowthWithin ==
  ASSUME NEW N \in Nat, NEW f, NEW D, NEW s, Grows(f, D, s, N),
         NEW Q, s \subseteq Q,
         \A n \in 1 .. N : f[n - 1] \subseteq Q /\ f[n - 1] \subseteq f[N] => D[n] \subseteq Q
  PROVE  f[N] \subseteq Q
<1> DEFINE Bad == {n \in 0 .. N : ~(f[n] \subseteq Q)}
<1>1. SUFFICES ASSUME Bad # {} PROVE FALSE
  OBVIOUS
<1>2. PICK m \in Bad : \A n \in Bad : m <= n
  <2>1. Bad \in SUBSET Nat
    OBVIOUS
  <2> HIDE DEF Bad
  <2> QED BY <1>1, <2>1, SmallestExists
<1>3. m \in 0 .. N /\ ~(f[m] \subseteq Q)
  BY <1>2
<1>4. m # 0
  BY <1>3 DEF Grows
<1>5. m \in 1 .. N /\ m - 1 \in 0 .. N /\ m - 1 \notin Bad
  <2>1. m - 1 \in 0 .. N
    BY <1>3, <1>4
  <2> HIDE DEF Bad
  <2> QED BY <1>2, <1>3, <1>4, <2>1
<1>6. f[m] = f[m - 1] \cup D[m]
  BY <1>5 DEF Grows
<1>7. f[m - 1] \subseteq f[N]
  BY <1>5, GrowthKeeps
<1> QED BY <1>3, <1>5, <1>6, <1>7

LEMMA KeysCounted == Cardinality(Keys) \in Nat
BY RemoteAssumption, FS_CardinalityType

\* An object below d is d itself or its parent is below d.
LEMMA BelowStep ==
  ASSUME NEW parent, NEW d, NEW x \in Below(parent, d), x # d
  PROVE  x \in Keys /\ parent[x] \in Below(parent, d)
<1> DEFINE U == Keys \cup {d}
           F == [X \in SUBSET U |-> X \cup {k \in Keys : parent[k] \in X}]
           N == Cardinality(Keys)
<1>0. N \in Nat
  BY KeysCounted
<1>1. PICK g \in [0 .. N -> SUBSET U] : IsIteration(g, F, {d}, N)
  <2>1. F \in [SUBSET U -> SUBSET U] /\ {d} \in SUBSET U
    OBVIOUS
  <2> HIDE DEF F, U, N
  <2> QED BY <1>0, <2>1, IterationExists
<1>2. g = [n \in 0 .. N |-> IF n = 0 THEN {d}
                            ELSE g[n - 1] \cup {k \in Keys : parent[k] \in g[n - 1]}]
  <2>1. \A n \in 0 .. N : n # 0 => g[n - 1] \in SUBSET U
    <3> HIDE DEF N, U
    <3> QED BY <1>0
  <2>2. \A n \in 0 .. N : n # 0 => F[g[n - 1]] = g[n - 1] \cup {k \in Keys : parent[k] \in g[n - 1]}
    <3> HIDE DEF U, N
    <3> QED BY <2>1
  <2> HIDE DEF F, U, N
  <2> QED BY <1>1, <2>2 DEF IsIteration
<1>3. PICK f :
        /\ f = [n \in 0 .. N |-> IF n = 0 THEN {d}
                                 ELSE f[n - 1] \cup {k \in Keys : parent[k] \in f[n - 1]}]
        /\ Below(parent, d) = f[N]
  BY <1>2 DEF Below
<1> DEFINE D == [n \in 1 .. N |-> {k \in Keys : parent[k] \in f[n - 1]}]
           Q == {y \in U : y = d \/ (y \in Keys /\ parent[y] \in f[N])}
<1> HIDE DEF N
<1>4. Grows(f, D, {d}, N)
  <2>1. f[0] = {d}
    BY <1>0, <1>3
  <2>2. \A n \in 1 .. N : f[n] = f[n - 1] \cup D[n]
    BY <1>0, <1>3
  <2> HIDE DEF D
  <2> QED BY <2>1, <2>2 DEF Grows
<1>5. \A n \in 1 .. N : f[n - 1] \subseteq f[N] => D[n] \subseteq Q
  OBVIOUS
<1>6. f[N] \subseteq Q
  <2>1. {d} \subseteq Q
    OBVIOUS
  <2> HIDE DEF D, Q, U
  <2> QED BY <1>0, <1>4, <1>5, <2>1, GrowthWithin
<1> QED BY <1>3, <1>6

\* A set that holds the root, if that is not stale, and with a folder the fresh
\* folders it lists, holds every folder that a walk takes as it is.
LEMMA FreshWithin ==
  ASSUME NEW Q,
         ~Stale(Root) => Root \in Q,
         \A d \in Q \cap Dirs : \A k \in kids[d] \cap Folders : ~Stale(k) => k \in Q
  PROVE  Fresh \subseteq Q \cap Dirs
<1> DEFINE F == [X \in SUBSET Dirs |->
                   X \cup UNION {{k \in kids[d] \cap Folders : ~Stale(k)} : d \in X}]
           N == Cardinality(Keys)
           s == {d \in {Root} : ~Stale(d)}
<1>0. N \in Nat
  BY KeysCounted
<1>1. PICK g \in [0 .. N -> SUBSET Dirs] : IsIteration(g, F, s, N)
  <2>1. F \in [SUBSET Dirs -> SUBSET Dirs] /\ s \in SUBSET Dirs
    BY DEF Dirs
  <2> HIDE DEF F, N, s
  <2> QED BY <1>0, <2>1, IterationExists
<1>2. g = [n \in 0 .. N |-> IF n = 0 THEN {d \in {Root} : ~Stale(d)}
             ELSE g[n - 1] \cup UNION {{k \in kids[d] \cap Folders : ~Stale(k)} : d \in g[n - 1]}]
  <2>1. \A n \in 0 .. N : n # 0 => g[n - 1] \in SUBSET Dirs
    <3> HIDE DEF N
    <3> QED BY <1>0
  <2>2. \A n \in 0 .. N : n # 0 => F[g[n - 1]]
          = g[n - 1] \cup UNION {{k \in kids[d] \cap Folders : ~Stale(k)} : d \in g[n - 1]}
    <3> HIDE DEF N
    <3> QED BY <2>1
  <2>3. g = [n \in 0 .. N |-> IF n = 0 THEN s
             ELSE g[n - 1] \cup UNION {{k \in kids[d] \cap Folders : ~Stale(k)} : d \in g[n - 1]}]
    <3> HIDE DEF F, N, s
    <3> QED BY <1>1, <2>2 DEF IsIteration
  <2> QED BY <2>3
<1>3. PICK f :
        /\ f = [n \in 0 .. N |-> IF n = 0 THEN {d \in {Root} : ~Stale(d)}
             ELSE f[n - 1] \cup UNION {{k \in kids[d] \cap Folders : ~Stale(k)} : d \in f[n - 1]}]
        /\ Fresh = f[N]
  BY <1>2 DEF Fresh
<1> DEFINE D == [n \in 1 .. N |->
                   UNION {{k \in kids[d] \cap Folders : ~Stale(k)} : d \in f[n - 1]}]
           P == Q \cap Dirs
<1> HIDE DEF N
<1>4. Grows(f, D, s, N)
  <2>1. f[0] = s
    BY <1>0, <1>3
  <2>2. ASSUME NEW n \in 1 .. N PROVE f[n] = f[n - 1] \cup D[n]
    <3>1. n \in 0 .. N /\ n # 0
      BY <1>0
    <3>2. f[n] = f[n - 1] \cup UNION {{k \in kids[d] \cap Folders : ~Stale(k)} : d \in f[n - 1]}
      BY <1>3, <3>1
    <3> QED BY <3>2
  <2> HIDE DEF D, s
  <2> QED BY <2>1, <2>2 DEF Grows
<1>5. \A n \in 1 .. N : f[n - 1] \subseteq P => D[n] \subseteq P
  BY DEF Dirs
<1>6. f[N] \subseteq P
  <2>1. s \subseteq P
    BY DEF Dirs
  <2> HIDE DEF D, P, s
  <2> QED BY <1>0, <1>4, <1>5, <2>1, GrowthWithin
<1> QED BY <1>3, <1>6

-----------------------------------------------------------------------------
(* What a step of the remote does, whoever causes it. *)

\* An object that is moved, created or thrown away has the newest revision, and
\* so have the folders it leaves and comes to; what vanishes without a trace
\* was in the trash, or in a folder that vanishes with it, and takes along all
\* that it holds.
Shift ==
  /\ devrev' > devrev
  /\ ~crowded' => ~crowded /\ Within(Root)'
  /\ \A n \in Nodes : rrev'[n] = rrev[n] \/ rrev'[n] = devrev'
  /\ \A k \in Keys : rparent'[k] # rparent[k] =>
       \/ /\ rparent'[k] # None
          /\ rrev'[k] = devrev'
          /\ rparent'[k] \in Dirs => rrev'[rparent'[k]] = devrev'
          /\ rparent[k] \in Dirs => rrev'[rparent[k]] = devrev'
          /\ rparent[k] \in Dirs \/ (rparent[k] = None /\ rrev[k] = 0)
          /\ rparent'[k] \in Folders => rparent'[rparent'[k]] # None
       \/ /\ rparent'[k] = None
          /\ rparent[k] = Trash \/ (rparent[k] \in Folders /\ rparent'[rparent[k]] = None)
          /\ \A j \in Keys : rparent[j] = k => rparent'[j] = None

\* An object outside the trash is in a folder outside the trash.
LEMMA LiveParent ==
  ASSUME RemoteTypeOK, NEW k \in Live, k # Root
  PROVE  k \in Keys /\ rparent[k] \in Live /\ rparent[k] \in Dirs
<1>1. k \in Keys /\ rparent[k] \in Live
  BY BelowStep DEF Live
<1>2. rparent[k] # Root => rparent[k] \in Keys
  BY <1>1, BelowStep DEF Live
<1> QED BY <1>1, <1>2, RemoteAssumption DEF RemoteTypeOK, Dirs, Nodes, Keys

LEMMA ChangeFacts ==
  ASSUME RemoteTypeOK, NEW newparent, NEW touched, Change(newparent, touched)
  PROVE  /\ devrev \in Nat /\ devrev' = devrev + 1 /\ rparent' = newparent
         /\ \A n \in Nodes : /\ rrev[n] \in Nat
                            /\ rrev'[n] = IF n \in touched THEN devrev' ELSE rrev[n]
         /\ ~crowded' => ~crowded /\ Within(Root)'
<1>1. ~crowded' => ~crowded /\ Within(Root)'
  BY Zenon DEF Change
<1>2. devrev \in Nat /\ \A n \in Nodes : rrev[n] \in Nat
  BY DEF RemoteTypeOK, Revs
<1> QED BY <1>1, <1>2 DEF Change

LEMMA RemoteShifts ==
  ASSUME RemoteTypeOK, NEW k \in Keys,
         \/ \E p \in Dirs : RemoteCreate(k, p)
         \/ \E p \in Dirs : RemoteMove(k, p)
         \/ RemoteModify(k)
         \/ RemoteTrash(k)
         \/ RemotePurge(k)
  PROVE  Shift
<1>d. Root \notin Keys /\ None \notin Dirs /\ Trash \notin Dirs /\ Trash # None /\ k \in Nodes
      /\ Dirs = Folders \cup {Root} /\ Folders \subseteq Keys /\ Dirs \subseteq Nodes
  BY RemoteAssumption DEF Dirs, Nodes, Keys
<1>t. /\ \A x \in Keys : rparent[x] \in Dirs \cup {Trash, None}
      /\ rparent = [x \in Keys |-> rparent[x]]
  BY DEF RemoteTypeOK
<1>l. \A x \in Live : x # Root => x \in Keys /\ rparent[x] \in Dirs
  BY LiveParent
<1>1. ASSUME NEW p \in Dirs, RemoteCreate(k, p) PROVE Shift
  <2>1. Change([rparent EXCEPT ![k] = p], {k, p})
    BY <1>1 DEF RemoteCreate
  <2>2. rparent'[k] = p /\ \A x \in Keys : x # k => rparent'[x] = rparent[x]
    BY <1>t, <2>1, ChangeFacts
  <2>3. rparent[k] = None /\ rrev[k] = 0 /\ (p \in Folders => rparent[p] \in Dirs /\ p # k)
    BY <1>1, <1>d, <1>l DEF RemoteCreate
  <2>4. rrev'[k] = devrev' /\ rrev'[p] = devrev'
    BY <1>d, <2>1, ChangeFacts
  <2> QED BY <1>d, <2>1, <2>2, <2>3, <2>4, ChangeFacts DEF Shift
<1>2. ASSUME NEW p \in Dirs, RemoteMove(k, p) PROVE Shift
  <2>1. Change([rparent EXCEPT ![k] = p], {k, p, rparent[k]})
    BY <1>2 DEF RemoteMove
  <2>2. rparent'[k] = p /\ \A x \in Keys : x # k => rparent'[x] = rparent[x]
    BY <1>t, <2>1, ChangeFacts
  <2>3. rparent[k] \in Dirs /\ (p \in Folders => rparent[p] \in Dirs)
    BY <1>2, <1>d, <1>l DEF RemoteMove
  <2>4. rrev'[k] = devrev' /\ rrev'[p] = devrev' /\ rrev'[rparent[k]] = devrev'
    BY <1>d, <2>1, <2>3, ChangeFacts
  <2> QED BY <1>d, <2>1, <2>2, <2>3, <2>4, ChangeFacts DEF Shift
<1>3. ASSUME RemoteModify(k) PROVE Shift
  <2>1. Change(rparent, {k})
    BY <1>3 DEF RemoteModify
  <2> QED BY <2>1, ChangeFacts DEF Shift
<1>4. ASSUME RemoteTrash(k) PROVE Shift
  <2>1. Change([rparent EXCEPT ![k] = Trash], {k, rparent[k]})
    BY <1>4 DEF RemoteTrash
  <2>2. rparent'[k] = Trash /\ \A x \in Keys : x # k => rparent'[x] = rparent[x]
    BY <1>t, <2>1, ChangeFacts
  <2>3. rparent[k] \in Dirs
    BY <1>4, <1>d, <1>l DEF RemoteTrash
  <2>4. rrev'[k] = devrev' /\ rrev'[rparent[k]] = devrev'
    BY <1>d, <2>1, <2>3, ChangeFacts
  <2> QED BY <1>d, <2>1, <2>2, <2>3, <2>4, ChangeFacts DEF Shift
<1>5. ASSUME RemotePurge(k) PROVE Shift
  <2>1. PICK gone \in SUBSET Keys :
          /\ \A x \in Keys : x \in gone <=> x = k \/ rparent[x] \in gone
          /\ Change([x \in Keys |-> IF x \in gone THEN None ELSE rparent[x]], {})
    BY <1>5 DEF RemotePurge
  <2>2. \A x \in Keys : rparent'[x] = IF x \in gone THEN None ELSE rparent[x]
    BY <2>1, ChangeFacts
  <2>3. ASSUME NEW x \in Keys, rparent'[x] # rparent[x]
        PROVE  /\ rparent'[x] = None
               /\ rparent[x] = Trash \/ (rparent[x] \in Folders /\ rparent'[rparent[x]] = None)
               /\ \A j \in Keys : rparent[j] = x => rparent'[j] = None
    <3>1. x \in gone /\ rparent[x] # None
      BY <2>2, <2>3
    <3>2. rparent[x] = Trash \/ (rparent[x] \in Folders /\ rparent'[rparent[x]] = None)
      <4>1. CASE x = k
        BY <1>5, <4>1 DEF RemotePurge
      <4>2. CASE x # k
        <5>1. rparent[x] \in gone /\ rparent[x] \in Keys
          BY <2>1, <3>1, <4>2
        <5>2. rparent[x] \in Folders
          BY <1>d, <1>t, <3>1, <5>1, RemoteAssumption DEF Nodes
        <5> QED BY <2>2, <5>1, <5>2
      <4> QED BY <4>1, <4>2
    <3>3. \A j \in Keys : rparent[j] = x => j \in gone
      BY <2>1, <3>1
    <3> QED BY <2>2, <3>1, <3>2, <3>3
  <2> QED BY <2>1, <2>3, ChangeFacts DEF Shift
<1> QED BY <1>1, <1>2, <1>3, <1>4, <1>5

-----------------------------------------------------------------------------
(* Steps, as the proofs below look at them. *)

\* A step of the remote: of another client, or in a handler that goes on to
\* update the tree.
RemoteStep ==
  /\ Shift
  /\ UNCHANGED <<tab, par, kids, rrem, lrev>>
  /\ UNCHANGED <<treerev, ret, todo, endrev, need, stack, dir, cursor, mayfail>>
  /\ pc' = pc \/ (pc = "idle" /\ pc' = "changes")

LEMMA RemoteSteps ==
  ASSUME TreeInv, Handler \/ Others
  PROVE  RemoteStep
<1>1. RemoteTypeOK
  BY TypeParts DEF TreeInv
<1>2. CASE Handler
  <2>1. PICK k \in Keys :
          \/ \E p \in Dirs : RemoteCreate(k, p)
          \/ \E p \in Dirs : RemoteMove(k, p)
          \/ RemoteModify(k)
          \/ RemoteTrash(k)
    BY <1>2 DEF Handler, Mkdir, Rmdir, Unlink, RenameBegins, Rename, Upload, Utimens,
                NamedDirs, NamedFiles, Keys
  <2>2. Shift
    BY <1>1, <2>1, RemoteShifts
  <2>3. ThenUpdate \/ WithoutUpdate
    BY <1>2 DEF Handler, Mkdir, Rmdir, Unlink, RenameBegins, Rename, Upload, Utimens
  <2> QED BY <2>2, <2>3 DEF RemoteStep, ThenUpdate, WithoutUpdate, At, entries, control
<1>3. CASE Others
  <2>1. Shift
    BY <1>1, <1>3, RemoteShifts DEF Others, RemoteNext
  <2> QED BY <1>3, <2>1 DEF Others, RemoteStep, entries, control
<1> QED BY <1>2, <1>3

\* What folder_tree_remove does, entry by entry.
LEMMA RemoveFacts ==
  ASSUME EntriesTyped, ChildrenAgree, NEW e \in Keys, Remove(e)
  PROVE  \E R \in SUBSET tab :
           /\ tab' = tab \ R /\ e \notin tab'
           /\ \A k \in R : k # e => par[k] \in R
           /\ \A k \in tab \ R : par'[k] = IF par[k] \in R THEN Dangling ELSE par[k]
           /\ \A d \in Dirs : kids'[d] = IF d \in R THEN {} ELSE kids[d] \ {e}
           /\ \A n \in Nodes : rrem'[n] = IF n \in R THEN 0 ELSE rrem[n]
           /\ \A d \in Dirs : lrev'[d] = IF d \in R THEN 0 ELSE lrev[d]
<1>1. CASE e \notin tab /\ UNCHANGED entries
  <2>1. \A d \in Dirs : e \notin kids[d]
    BY <1>1 DEF ChildrenAgree
  <2>2. \A d \in Dirs : kids'[d] = kids[d] \ {e}
    BY <1>1, <2>1 DEF entries
  <2>3. /\ tab' = tab \ {}
        /\ \A k \in tab : par'[k] = par[k]
        /\ \A n \in Nodes : rrem'[n] = rrem[n]
        /\ \A d \in Dirs : lrev'[d] = lrev[d]
    BY <1>1 DEF entries
  <2> WITNESS {} \in SUBSET tab
  <2> QED BY <1>1, <2>2, <2>3
<1>2. CASE ~(e \notin tab /\ UNCHANGED entries)
  <2>1. PICK R \in Freed(e) :
          /\ tab' = tab \ R
          /\ par' = [k \in Keys |-> IF k \in R THEN None
                                    ELSE IF par[k] \in R THEN Dangling ELSE par[k]]
          /\ kids' = [d \in Dirs |-> IF d \in R THEN {} ELSE kids[d] \ {e}]
          /\ rrem' = [n \in Nodes |-> IF n \in R THEN 0 ELSE rrem[n]]
          /\ lrev' = [d \in Dirs |-> IF d \in R THEN 0 ELSE lrev[d]]
    BY <1>2 DEF Remove
  <2>2. R \in SUBSET tab /\ e \in R /\ \A k \in R \ {e} : par[k] \in R
    BY DEF Freed
  <2>3. \A k \in tab \ R : par'[k] = IF par[k] \in R THEN Dangling ELSE par[k]
    BY <2>1 DEF EntriesTyped
  <2> QED BY <2>1, <2>2, <2>3
<1> QED BY <1>1, <1>2

-----------------------------------------------------------------------------
(* The control state between two API calls. *)

Asking  == {"info", "unwind"}
Filling == {"folders", "files"}
Updating     == pc \in {"apply", "end"} \/ ret \in {"apply", "end"}
Housekeeping == pc = "housekeep" \/ ret = "housekeep"

PlaceInv ==
  /\ pc \in Asking => ret \in {"apply", "housekeep"}
  /\ pc \in Filling => ret \in {"idle", "status", "end"}
  /\ pc \notin Asking \cup Filling => ret = "idle"
  /\ pc \notin Asking => stack = <<>>
  /\ pc # "info" => need = None
  /\ ~(pc = "apply" \/ ret = "apply") => todo = {}
  /\ ~Housekeeping => cursor = 0
  /\ pc = "mount" => treerev = 0
  /\ pc \in {"mount", "mountinfo"} => tab = {} /\ lrev[Root] = 0
  /\ pc \in Filling /\ ret # "idle" => dir = Root

\* The steps that change no entry.
QuietStep ==
  \/ ListFails \/ InfoAnswers
  \/ GetStatus \/ GetChanges \/ GetChangesFails
  \/ ApplyIgnored \/ ApplyUpdated
  \/ EndUpdate \/ HousekeepOrphan \/ HousekeepDone
  \/ MountStatus

LEMMA QuietSteps ==
  ASSUME TreeInv, QuietStep
  PROVE  UNCHANGED <<remote, mayfail, tab, par, kids, rrem, lrev>>
<1>1. EndUpdate => UNCHANGED <<kids, dir, ret>> /\ pc' = "housekeep"
  BY NoneDisputed DEF TreeInv, EndUpdate
<1> QED BY <1>1 DEF QuietStep, entries, ListFails, InfoAnswers, GetStatus, GetChanges,
              GetChangesFails, ApplyIgnored, ApplyUpdated, EndUpdate, HousekeepOrphan,
              HousekeepDone, MountStatus

LEMMA StackShrinks ==
  ASSUME TreeInv, Unwind
  PROVE  /\ stack \in Seq(Infos) /\ Len(stack) \in Nat \ {0}
         /\ stack' \in Seq(Infos) /\ Len(stack') = Len(stack) - 1
         /\ \A i \in 1 .. Len(stack') : stack'[i] = stack[i]
         /\ Len(stack) = 1 => stack' = <<>>
<1>1. stack \in Seq(Infos) /\ stack # <<>>
  BY DEF TreeInv, TypeOK, Unwind, At, ControlInv
<1>2. Len(stack) \in Nat \ {0}
  BY <1>1
<1>3. stack' = SubSeq(stack, 1, Len(stack) - 1)
  BY DEF Unwind
<1> DEFINE n == Len(stack)
<1>4. \A i \in 1 .. n - 1 : stack[i] \in Infos
  BY <1>1, <1>2
<1>5. /\ SubSeq(stack, 1, n - 1) \in Seq(Infos)
      /\ Len(SubSeq(stack, 1, n - 1)) = IF 1 <= n - 1 THEN n - 1 - 1 + 1 ELSE 0
      /\ \A i \in 1 .. (n - 1 - 1 + 1) : SubSeq(stack, 1, n - 1)[i] = stack[1 + i - 1]
  <2>1. 1 \in Int /\ n - 1 \in Int
    BY <1>2
  <2> HIDE DEF n
  <2> QED BY <1>4, <2>1, SubSeqProperties
<1>6. stack' \in Seq(Infos) /\ Len(stack') = n - 1
  <2>1. (IF 1 <= n - 1 THEN n - 1 - 1 + 1 ELSE 0) = n - 1
    BY <1>2
  <2> HIDE DEF n
  <2> QED BY <1>3, <1>5, <2>1 DEF n
<1>7. \A i \in 1 .. n - 1 : stack'[i] = stack[i]
  <2>1. \A i \in 1 .. n - 1 : i \in 1 .. (n - 1 - 1 + 1) /\ 1 + i - 1 = i
    BY <1>2
  <2> HIDE DEF n
  <2> QED BY <1>3, <1>5, <2>1 DEF n
<1>8. n = 1 => stack' = <<>>
  BY <1>2, <1>6
<1> HIDE DEF n
<1> QED BY <1>1, <1>2, <1>6, <1>7, <1>8 DEF n

LEMMA PlaceKept ==
  ASSUME TreeInv, PlaceInv, [Next]_vars
  PROVE  PlaceInv'
<1> USE DEF At, Asking, Filling, Housekeeping
<1>1. CASE Handler \/ Others
  <2>1. RemoteStep
    BY <1>1, RemoteSteps
  <2> QED BY <2>1 DEF RemoteStep, PlaceInv
<1>2. CASE QuietStep
  <2>1. UNCHANGED <<tab, lrev>>
    BY <1>2, QuietSteps
  <2>2. CASE ListFails
    BY <2>1, <2>2 DEF ListFails, Return, PlaceInv
  <2>3. CASE InfoAnswers
    BY <2>1, <2>3 DEF InfoAnswers, PlaceInv
  <2>4. CASE GetStatus
    BY <2>1, <2>4 DEF GetStatus, PlaceInv
  <2>5. CASE GetChanges
    BY <2>1, <2>5 DEF GetChanges, PlaceInv
  <2>6. CASE GetChangesFails
    BY <2>1, <2>6 DEF GetChangesFails, PlaceInv
  <2>7. CASE ApplyIgnored
    BY <2>1, <2>7 DEF ApplyIgnored, PlaceInv
  <2>8. CASE ApplyUpdated
    BY <2>1, <2>8 DEF ApplyUpdated, FetchInfo, PlaceInv
  <2>9. CASE EndUpdate
    <3>1. pc' = "housekeep" /\ UNCHANGED <<dir, ret>>
      BY <2>9, NoneDisputed DEF TreeInv, EndUpdate
    <3> QED BY <2>1, <2>9, <3>1 DEF EndUpdate, PlaceInv
  <2>10. CASE HousekeepOrphan
    BY <2>1, <2>10 DEF HousekeepOrphan, FetchInfo, PlaceInv
  <2>11. CASE HousekeepDone
    BY <2>1, <2>11 DEF HousekeepDone, PlaceInv
  <2>12. CASE MountStatus
    BY <2>1, <2>12 DEF MountStatus, PlaceInv
  <2> QED BY <1>2, <2>2, <2>3, <2>4, <2>5, <2>6, <2>7, <2>8, <2>9, <2>10, <2>11, <2>12
          DEF QuietStep
<1>3. CASE ListFolders
  BY <1>3 DEF ListFolders, PlaceInv
<1>4. CASE ListFiles
  BY <1>4 DEF ListFiles, Return, PlaceInv
<1>5. CASE InfoFails
  BY <1>5 DEF InfoFails, Return, PlaceInv
<1>6. CASE Unwind
  <2>1. Len(stack) = 1 => stack' = <<>>
    BY <1>6, StackShrinks
  <2> QED BY <1>6, <2>1 DEF Unwind, Return, PlaceInv
<1>7. CASE ApplyDeleted
  BY <1>7 DEF ApplyDeleted, PlaceInv
<1>8. CASE ApplyDone
  BY <1>8 DEF ApplyDone, FillFolder, PlaceInv
<1>9. CASE MountInfo
  BY <1>9 DEF MountInfo, FillFolder, PlaceInv
<1>10. CASE Lookup
  BY <1>10 DEF Lookup, FillFolder, PlaceInv
<1>11. CASE UNCHANGED vars
  BY <1>11 DEF vars, entries, control, PlaceInv
<1> QED BY <1>1, <1>2, <1>3, <1>4, <1>5, <1>6, <1>7, <1>8, <1>9, <1>10, <1>11
        DEF Next, Holder, QuietStep

-----------------------------------------------------------------------------
(* What the steps do to the entries, one by one. *)

Puts(new, p, rev) ==
  /\ tab' = tab \cup new
  /\ \A k \in Keys : par'[k] = IF k \in new THEN p ELSE par[k]
  /\ \A d \in Dirs : kids'[d] = IF d = p THEN kids[d] \cup new ELSE kids[d] \ new
  /\ \A n \in Nodes : rrem'[n] = IF n \in new THEN rev[n] ELSE rrem[n]

LEMMA AddFacts ==
  ASSUME EntriesTyped, ChildrenAgree, NEW new \in SUBSET Keys, NEW p, NEW rev,
         AddEntries(new, p, rev)
  PROVE  Puts(new, p, rev)
<1>1. \A d \in Dirs : kids[d] \ {k \in new : par[k] = d} = kids[d] \ new
  BY DEF ChildrenAgree
<1> QED BY <1>1 DEF AddEntries, Puts

\* What the answer of get_content is, and brings.
Lists(kind) ==
  \E some \in SUBSET Content(kind, dir) :
    Puts(some, dir, rrev) /\ (Within(dir) => some = Content(kind, dir))

LEMMA AnswersFacts ==
  ASSUME NEW kind \in {Folders, Files}, NEW d, NEW some \in Answers(kind, d)
  PROVE  /\ some \in SUBSET Content(kind, d) /\ some \in SUBSET Keys
         /\ Within(d) => some = Content(kind, d)
BY DEF Answers, Within, Content, Keys

LEMMA ListFacts ==
  ASSUME TreeInv, ListFolders \/ ListFiles
  PROVE  /\ dir \in Dirs /\ dir \in Known
         /\ UNCHANGED <<remote, mayfail, treerev, todo, endrev, need, stack, cursor>>
         /\ \/ /\ pc = "folders" /\ pc' = "files" /\ UNCHANGED <<ret, dir>>
               /\ Lists(Folders)
               /\ \A d \in Dirs : lrev'[d] = lrev[d]
            \/ /\ pc = "files" /\ pc' = ret /\ ret' = "idle"
               /\ Lists(Files)
               /\ \A d \in Dirs : lrev'[d] = IF d = dir THEN rrem[d] ELSE lrev[d]
         /\ \E new \in SUBSET Keys : Puts(new, dir, rrev) /\ \A j \in new : rparent[j] = dir
<1>1. EntriesTyped /\ ChildrenAgree /\ dir \in Dirs /\ dir \in Known
  BY TypeParts DEF TreeInv, ControlInv, ControlTyped, ListFolders, ListFiles, At
<1>2. \A kind \in {Folders, Files} : Lists(kind) =>
        \E new \in SUBSET Keys : Puts(new, dir, rrev) /\ \A j \in new : rparent[j] = dir
  BY DEF Lists, Content, Keys
<1>3. CASE ListFolders
  <2>1. PICK some \in Answers(Folders, dir) : AddFolders(some, dir, rrev)
    BY <1>3 DEF ListFolders
  <2>2. Puts(some, dir, rrev)
    BY <1>1, <2>1, AnswersFacts, AddFacts DEF AddFolders
  <2>3. Lists(Folders)
    BY <2>2, AnswersFacts DEF Lists
  <2> QED BY <1>1, <1>2, <1>3, <2>1, <2>3 DEF ListFolders, AddFolders, At
<1>4. CASE ListFiles
  <2>1. PICK some \in Answers(Files, dir) : AddEntries(some, dir, rrev)
    BY <1>4 DEF ListFiles
  <2>2. Puts(some, dir, rrev)
    BY <1>1, <2>1, AnswersFacts, AddFacts
  <2>3. Lists(Files)
    BY <2>2, AnswersFacts DEF Lists
  <2>4. \A d \in Dirs : lrev'[d] = IF d = dir THEN rrem[d] ELSE lrev[d]
    BY <1>1, <1>4 DEF ListFiles, EntriesTyped
  <2> QED BY <1>1, <1>2, <1>4, <2>3, <2>4 DEF ListFiles, Return, At
<1> QED BY <1>3, <1>4

\* The answers of get_info that wait for a parent.
Waiting == {stack[i] : i \in 1 .. Len(stack)}

LEMMA WaitingTyped ==
  ASSUME TreeInv
  PROVE  \A w \in Waiting : w \in Infos /\ w.key \in Keys /\ w.rev \in Nat
<1>1. stack \in Seq(Infos)
  BY DEF TreeInv, TypeOK
<1>2. \A w \in Waiting : w \in Infos
  BY <1>1 DEF Waiting
<1> QED BY <1>2 DEF Infos, Revs

LEMMA NoneWaiting == stack = <<>> => Waiting = {}
BY DEF Waiting

LEMMA AnswerFacts ==
  ASSUME TreeInv, InfoAnswers
  PROVE  /\ need \in Keys /\ rparent[need] # None
         /\ Waiting' = Waiting \cup
              {[key |-> need, parent |-> rparent[need], rev |-> rrev[need]]}
<1>1. need \in Keys /\ stack \in Seq(Infos)
  BY DEF TreeInv, TypeOK, ControlInv, InfoAnswers, At
<1>2. rparent[need] # None
  BY <1>1, RemoteAssumption DEF InfoAnswers, Exists
<1>3. PICK w : /\ w = [key |-> need, parent |-> rparent[need], rev |-> rrev[need]]
               /\ stack' = Append(stack, w)
  BY DEF InfoAnswers
<1>4. /\ Len(stack') = Len(stack) + 1 /\ Len(stack) \in Nat
      /\ \A i \in 1 .. Len(stack) : stack'[i] = stack[i]
      /\ stack'[Len(stack) + 1] = w
  BY <1>1, <1>3
<1>5. Waiting' = {stack'[i] : i \in 1 .. Len(stack')}
  BY DEF Waiting
<1>6. \A v : v \in Waiting' <=> v \in Waiting \/ v = w
  <2>1. \A i \in 1 .. Len(stack') : i \in 1 .. Len(stack) \/ i = Len(stack) + 1
    BY <1>4
  <2>2. \A i \in 1 .. Len(stack) : i \in 1 .. Len(stack')
    BY <1>4
  <2>3. Len(stack) + 1 \in 1 .. Len(stack')
    BY <1>4
  <2> QED BY <1>4, <1>5, <2>1, <2>2, <2>3 DEF Waiting
<1> QED BY <1>1, <1>2, <1>3, <1>6

\* The newest answer leaves; its entry is put under its parent if that is known.
LEMMA UnwindFacts ==
  ASSUME TreeInv, Unwind
  PROVE  \E w \in Waiting :
           /\ w.key \in Keys /\ w.rev \in Nat
           /\ Waiting' \subseteq Waiting /\ Waiting \subseteq Waiting' \cup {w}
           /\ \A d \in Dirs : lrev'[d] = lrev[d]
           /\ \/ /\ w.parent \in Known /\ w.parent \in Dirs \cup Files
                 /\ Puts({w.key}, w.parent, [k \in {w.key} |-> w.rev])
              \/ w.parent \notin Known /\ UNCHANGED <<tab, par, kids, rrem, lrev>>
<1>1. /\ stack \in Seq(Infos) /\ Len(stack) \in Nat \ {0}
      /\ Len(stack') = Len(stack) - 1
      /\ \A i \in 1 .. Len(stack') : stack'[i] = stack[i]
  BY StackShrinks
<1>2. PICK w : w = stack[Len(stack)]
  OBVIOUS
<1>3. Len(stack) \in 1 .. Len(stack)
  BY <1>1
<1>4. w \in Waiting
  BY <1>2, <1>3 DEF Waiting
<1>5. w.key \in Keys /\ w.rev \in Nat
  BY <1>4, WaitingTyped
<1>6. Waiting' = {stack'[i] : i \in 1 .. Len(stack')}
  BY DEF Waiting
<1>7. Waiting' \subseteq Waiting /\ Waiting \subseteq Waiting' \cup {w}
  <2>1. \A i \in 1 .. Len(stack') : i \in 1 .. Len(stack)
    BY <1>1
  <2>2. \A i \in 1 .. Len(stack) : i \in 1 .. Len(stack') \/ i = Len(stack)
    BY <1>1
  <2> QED BY <1>1, <1>2, <1>6, <2>1, <2>2 DEF Waiting
<1>8. \/ /\ w.parent \in Known
         /\ AddEntries({w.key}, w.parent, [k \in {w.key} |-> w.rev])
         /\ UNCHANGED lrev
      \/ w.parent \notin Known /\ UNCHANGED entries
  BY <1>2 DEF Unwind, AddFolders
<1>9. EntriesTyped /\ ChildrenAgree
  BY TypeParts DEF TreeInv
<1>10. w.parent \in Known => w.parent \in Dirs \cup Files
  BY <1>9 DEF EntriesTyped, Known, Dirs, Keys
<1>11. CASE w.parent \in Known
  <2>1. AddEntries({w.key}, w.parent, [k \in {w.key} |-> w.rev]) /\ UNCHANGED lrev
    BY <1>8, <1>11
  <2> DEFINE new == {w.key}
             rev == [k \in {w.key} |-> w.rev]
  <2>2. new \in SUBSET Keys
    BY <1>5
  <2>3. AddEntries(new, w.parent, rev)
    BY <2>1
  <2>4. Puts(new, w.parent, rev)
    <3> HIDE DEF new, rev
    <3> QED BY <1>9, <2>2, <2>3, AddFacts
  <2> QED BY <1>4, <1>5, <1>7, <1>10, <1>11, <2>1, <2>4
<1>12. CASE w.parent \notin Known
  <2>1. UNCHANGED <<tab, par, kids, rrem, lrev>>
    BY <1>8, <1>12 DEF entries
  <2> QED BY <1>4, <1>5, <1>7, <1>12, <2>1
<1> QED BY <1>11, <1>12

-----------------------------------------------------------------------------
(* Revisions: nothing local is ahead of the remote, and a folder was filled *)
(* at a revision that its entry had.                                        *)

LEMMA ContentSame ==
  ASSUME NEW d, \A k \in Keys : rparent'[k] = d <=> rparent[k] = d
  PROVE  /\ Content(Folders, d)' = Content(Folders, d) /\ Content(Files, d)' = Content(Files, d)
         /\ Within(d)' <=> Within(d)
<1>1. Content(Folders, d)' = Content(Folders, d) /\ Content(Files, d)' = Content(Files, d)
  BY DEF Content, Keys
<1>2. \A kind \in {Folders, Files} : Content(kind, d)' = Content(kind, d)
  BY <1>1
<1> QED BY <1>1, <1>2 DEF Within

\* What is held by a folder that is gone is gone too.  The root, unless it ever
\* was crowded, is within the limit.
RemoteInv ==
  /\ \A k \in Keys : rparent[k] \in Folders => rparent[rparent[k]] # None
  /\ ~crowded => Within(Root)

LEMMA RemoteInvKept ==
  ASSUME TreeInv, RemoteInv, [Next]_vars
  PROVE  RemoteInv'
<1>1. CASE Handler \/ Others
  <2>1. RemoteStep
    BY <1>1, RemoteSteps
  <2>2. \A k \in Keys : rparent'[k] \in Folders => rparent'[rparent'[k]] # None
    <3> SUFFICES ASSUME NEW k \in Keys, NEW d \in Folders, rparent'[k] = d, rparent'[d] = None
                 PROVE  FALSE
      OBVIOUS
    <3>1. d \in Keys
      BY DEF Keys
    <3>s. \A x \in Keys : rparent'[x] # rparent[x] =>
            \/ rparent'[x] # None /\ (rparent'[x] \in Folders => rparent'[rparent'[x]] # None)
            \/ rparent'[x] = None /\ \A j \in Keys : rparent[j] = x => rparent'[j] = None
      BY <2>1 DEF RemoteStep, Shift
    <3>0. d # None
      BY <3>1, RemoteAssumption DEF Nodes
    <3>2. rparent[k] = d /\ rparent[d] # None
      BY <3>0, <3>s DEF RemoteInv
    <3>3. rparent'[k] = None
      BY <3>1, <3>2, <3>s
    <3> QED BY <3>1, <3>3, RemoteAssumption DEF Nodes
  <2> QED BY <2>1, <2>2 DEF RemoteStep, Shift, RemoteInv
<1>2. CASE ~(Handler \/ Others)
  <2>1. rparent' = rparent /\ crowded' = crowded
    BY <1>2, QuietSteps DEF Next, Holder, QuietStep, vars, remote, ListFolders, ListFiles, Unwind,
       InfoFails, ApplyDeleted, ApplyDone, MountInfo, Lookup
  <2>2. Within(Root)' <=> Within(Root)
    BY <2>1, ContentSame
  <2> QED BY <2>1, <2>2 DEF RemoteInv
<1> QED BY <1>1, <1>2

RevInv ==
  /\ \A n \in Nodes : rrev[n] <= devrev
  /\ rrev[Root] >= 1
  /\ \A k \in Keys : rparent[k] \in Dirs => rrev[k] >= 1 /\ rrev[rparent[k]] >= 1
  /\ RemoteInv
  /\ treerev <= devrev /\ endrev <= devrev
  /\ \A n \in Nodes : rrem[n] <= rrev[n]
  /\ \A d \in Dirs : lrev[d] <= rrem[d]
  /\ \A d \in Folders \ tab : lrev[d] = 0
  /\ \A k \in tab : par[k] \in (Known \cap Dirs) \cup {Dangling}

\* The revision up to which the entries are to be right: while the changes are
\* integrated that is the one the update will end with.
Bound == IF Updating THEN endrev ELSE treerev

\* What the changes still to integrate say.
TodoInv ==
  \A c \in todo :
    /\ c.kind = "updated" /\ rrev[c.key] <= endrev => c.rev = rrev[c.key]
    /\ c.kind # "updated" => rparent[c.key] \in {Trash, None} /\ rrev[c.key] >= 1

\* What an answer that waits for its parent says, and what the folders show
\* that it has become wrong about.
InfoInv ==
  \A w \in Waiting :
    /\ w.parent \in Dirs \cup {Trash}
    /\ w.rev <= rrev[w.key]
    /\ w.key \in Folders => lrev[w.key] <= w.rev
    /\ rrev[w.key] <= Bound => w.rev = rrev[w.key]
    /\ w.rev = rrev[w.key] /\ rparent[w.key] # None => w.parent = rparent[w.key]
    /\ rparent[w.key] # w.parent /\ rparent[w.key] \in Folders =>
         lrev[rparent[w.key]] < rrev[rparent[w.key]]

LEMMA Numbers ==
  ASSUME TreeInv
  PROVE  /\ devrev \in Nat /\ treerev \in Nat /\ endrev \in Nat
         /\ \A n \in Nodes : rrev[n] \in Nat /\ rrem[n] \in Nat
         /\ \A d \in Dirs : lrev[d] \in Nat
         /\ \A k \in Keys : rparent[k] \in Dirs \cup {Trash, None}
         /\ \A c \in todo : c.key \in Keys /\ c.rev \in Nat
         /\ Dirs \subseteq Nodes /\ Keys \subseteq Nodes /\ Folders \subseteq Keys
         /\ tab \subseteq Keys
BY DEF TreeInv, TypeOK, RemoteTypeOK, Revs, Changes, Dirs, Nodes, Keys

LEMMA RevKept ==
  ASSUME TreeInv, TreeInv', PlaceInv, RevInv, InfoInv, [Next]_vars
  PROVE  RevInv'
<1> USE Numbers
<1>n. devrev' \in Nat /\ \A n \in Nodes : rrev'[n] \in Nat
  BY DEF TreeInv, TypeOK, RemoteTypeOK, Revs
<1>r. RemoteInv'
  BY RemoteInvKept DEF RevInv
<1>1. CASE Handler \/ Others
  <2>1. RemoteStep
    BY <1>1, RemoteSteps
  <2>2. \A n \in Nodes : rrev'[n] >= rrev[n] /\ rrev'[n] <= devrev'
    BY <1>n, <2>1 DEF RemoteStep, Shift, RevInv
  <2>3. \A k \in Keys : rparent'[k] \in Dirs => rrev'[k] >= 1 /\ rrev'[rparent'[k]] >= 1
    BY <1>n, <2>1, <2>2, RemoteAssumption DEF RemoteStep, Shift, RevInv, Dirs, Nodes
  <2>4. rrev'[Root] >= 1
    BY <1>n, <2>2 DEF RevInv, Nodes
  <2> QED BY <1>n, <1>r, <2>1, <2>2, <2>3, <2>4 DEF RemoteStep, Shift, RevInv, Known
<1>2. CASE QuietStep
  <2>1. UNCHANGED <<remote, mayfail, tab, par, kids, rrem, lrev>>
    BY <1>2, QuietSteps
  <2>2. treerev' \in {treerev, endrev, devrev} /\ endrev' \in {endrev, devrev, 0}
    BY <1>2 DEF QuietStep, ListFails, InfoAnswers, GetStatus, GetChanges,
              GetChangesFails, ApplyIgnored, ApplyUpdated, EndUpdate, HousekeepOrphan,
              HousekeepDone, MountStatus
  <2> QED BY <1>r, <2>1, <2>2 DEF RevInv, Known, remote
<1>3. CASE ListFolders \/ ListFiles
  <2>1. PICK new \in SUBSET Keys :
          /\ Puts(new, dir, rrev)
          /\ \A d \in Dirs : lrev'[d] = lrev[d] \/ (d = dir /\ lrev'[d] = rrem[d])
    BY <1>3, ListFacts
  <2>2. dir \in Dirs /\ dir \in Known /\ UNCHANGED <<remote, treerev, endrev>>
    BY <1>3, ListFacts
  <2>3. \A n \in Nodes : rrem'[n] <= rrev[n] /\ rrem'[n] >= rrem[n]
    BY <2>1 DEF Puts, RevInv
  <2>4. \A d \in Dirs : lrev'[d] <= rrem'[d]
    BY <2>1, <2>2, <2>3, <1>n DEF RevInv, Puts
  <2>5. \A d \in Folders \ tab' : lrev'[d] = 0
    BY <2>1, <2>2, RemoteAssumption DEF RevInv, Puts, Known, Dirs, Nodes
  <2>6. \A k \in tab' : par'[k] \in (Known' \cap Dirs) \cup {Dangling}
    BY <2>1, <2>2 DEF RevInv, Puts, Known
  <2> QED BY <1>r, <2>2, <2>3, <2>4, <2>5, <2>6 DEF RevInv, remote
<1>4. CASE Unwind
  <2>1. PICK w \in Waiting :
           /\ w.key \in Keys /\ w.rev \in Nat
           /\ \A d \in Dirs : lrev'[d] = lrev[d]
           /\ \/ /\ w.parent \in Known
                 /\ Puts({w.key}, w.parent, [k \in {w.key} |-> w.rev])
              \/ w.parent \notin Known /\ UNCHANGED <<tab, par, kids, rrem, lrev>>
    BY <1>4, UnwindFacts
  <2>2. UNCHANGED <<remote, treerev, endrev>>
    BY <1>4 DEF Unwind
  <2>3. w.rev <= rrev[w.key] /\ (w.key \in Folders => lrev[w.key] <= w.rev)
    BY DEF InfoInv
  <2>4. CASE w.parent \in Known
    <3>1. \A n \in Nodes : rrem'[n] = IF n = w.key THEN w.rev ELSE rrem[n]
      BY <2>1, <2>4 DEF Puts
    <3>2. tab' = tab \cup {w.key} /\ \A k \in Keys : par'[k] = IF k = w.key THEN w.parent ELSE par[k]
      BY <2>1, <2>4 DEF Puts
    <3>3. \A d \in Dirs : lrev'[d] <= rrem'[d]
      BY <2>1, <2>3, <3>1, RemoteAssumption DEF RevInv, Dirs
    <3>4. w.parent \in Known /\ w.parent \in Dirs
      BY <2>4, RemoteAssumption, Numbers DEF InfoInv, Known, Nodes
    <3>5. ASSUME NEW k \in tab' PROVE par'[k] \in (Known' \cap Dirs) \cup {Dangling}
      <4>1. Known \subseteq Known' /\ k \in Keys
        BY <2>1, <3>2 DEF Known
      <4>2. CASE k = w.key
        BY <3>2, <3>4, <4>1, <4>2
      <4>3. CASE k # w.key
        BY <3>2, <4>1, <4>3 DEF RevInv
      <4> QED BY <4>2, <4>3
    <3>6. \A n \in Nodes : rrem'[n] <= rrev[n]
      BY <2>3, <3>1 DEF RevInv
    <3>7. \A d \in Folders \ tab' : lrev'[d] = 0
      BY <2>1, <3>2 DEF RevInv, Dirs
    <3> QED BY <1>r, <2>2, <3>3, <3>5, <3>6, <3>7 DEF RevInv, remote
  <2>5. CASE w.parent \notin Known
    BY <1>r, <2>1, <2>2, <2>5 DEF RevInv, remote, Known
  <2> QED BY <2>4, <2>5
<1>5. CASE InfoFails \/ ApplyDeleted
  <2>1. PICK e \in Keys : Remove(e)
    BY <1>5 DEF InfoFails, ApplyDeleted, NextChanges, TreeInv, ControlInv, At
  <2>2. UNCHANGED <<remote, treerev, endrev>>
    BY <1>5 DEF InfoFails, ApplyDeleted
  <2>3. PICK R \in SUBSET tab :
           /\ tab' = tab \ R
           /\ \A k \in tab \ R : par'[k] = IF par[k] \in R THEN Dangling ELSE par[k]
           /\ \A n \in Nodes : rrem'[n] = IF n \in R THEN 0 ELSE rrem[n]
           /\ \A d \in Dirs : lrev'[d] = IF d \in R THEN 0 ELSE lrev[d]
    BY <2>1, RemoveFacts, TypeParts DEF TreeInv
  <2>4. \A n \in Nodes : rrem'[n] <= rrev[n]
    BY <2>3 DEF RevInv
  <2>5. \A d \in Dirs : lrev'[d] <= rrem'[d]
    BY <2>3 DEF RevInv
  <2>6. \A d \in Folders \ tab' : lrev'[d] = 0
    BY <2>3 DEF RevInv, Dirs
  <2>7. \A k \in tab' : par'[k] \in (Known' \cap Dirs) \cup {Dangling}
    BY <2>3 DEF RevInv, Known
  <2> QED BY <1>r, <2>2, <2>4, <2>5, <2>6, <2>7 DEF RevInv, remote
<1>6. CASE Lookup \/ ApplyDone
  <2>1. UNCHANGED <<remote, tab, par, rrem, lrev, treerev, endrev>>
    BY <1>6 DEF Lookup, ApplyDone
  <2> QED BY <1>r, <2>1 DEF RevInv, remote, Known
<1>7. CASE MountInfo
  <2>1. UNCHANGED <<remote, tab, par, lrev, treerev, endrev>>
    BY <1>7 DEF MountInfo
  <2>2. \A n \in Nodes : rrem'[n] = rrem[n] \/ (n = Root /\ rrem'[n] = rrev[n])
    BY <1>7 DEF MountInfo, TreeInv, TypeOK
  <2> QED BY <1>r, <2>1, <2>2 DEF RevInv, remote, Known
<1>8. CASE UNCHANGED vars
  BY <1>r, <1>8 DEF vars, remote, entries, control, RevInv, Known
<1> QED BY <1>1, <1>2, <1>3, <1>4, <1>5, <1>6, <1>7, <1>8
        DEF Next, Holder, QuietStep

LEMMA BoundKept == RemoteStep => Bound' = Bound
BY DEF RemoteStep, Bound, Updating

LEMMA BoundPast == TreeInv /\ RevInv => Bound \in Nat /\ Bound <= devrev
BY Numbers DEF RevInv, Bound

LEMMA TodoKept ==
  ASSUME TreeInv, TreeInv', PlaceInv, RevInv, TodoInv, [Next]_vars
  PROVE  TodoInv'
<1> USE Numbers
<1>1. CASE Handler \/ Others
  <2>1. RemoteStep
    BY <1>1, RemoteSteps
  <2> SUFFICES ASSUME NEW c \in todo
               PROVE  /\ c.kind = "updated" /\ rrev'[c.key] <= endrev => c.rev = rrev'[c.key]
                      /\ c.kind # "updated" => rparent'[c.key] \in {Trash, None} /\ rrev'[c.key] >= 1
    BY <2>1 DEF TodoInv, RemoteStep
  <2>2. c.key \in Keys /\ c.key \in Nodes
    OBVIOUS
  <2>3. devrev' \in Nat /\ devrev' > devrev /\ endrev <= devrev
    BY <2>1 DEF RemoteStep, Shift, RevInv, TreeInv, TypeOK, RemoteTypeOK, Revs
  <2>4. rrev'[c.key] = rrev[c.key] \/ rrev'[c.key] = devrev'
    BY <2>1, <2>2 DEF RemoteStep, Shift
  <2>5. rrev[c.key] \in Nat /\ devrev \in Nat /\ endrev \in Nat
    BY <2>2
  <2>6. CASE c.kind = "updated"
    BY <2>3, <2>4, <2>5, <2>6 DEF TodoInv
  <2>7. CASE c.kind # "updated"
    <3>1. rparent[c.key] \in {Trash, None} /\ rrev[c.key] >= 1
      BY <2>7 DEF TodoInv
    <3>2. rparent[c.key] \notin Dirs
      BY <3>1, RemoteAssumption DEF Dirs, Nodes, Keys
    <3>3. rparent'[c.key] \in {Trash, None}
      BY <2>1, <2>2, <2>5, <3>1, <3>2 DEF RemoteStep, Shift
    <3> QED BY <2>3, <2>4, <2>5, <2>7, <3>1, <3>3
  <2> QED BY <2>6, <2>7
<1>2. CASE GetChanges
  <2>1. UNCHANGED remote
    BY <1>2 DEF GetChanges
  <2>2. PICK intrash : todo' = Reported(intrash)
    BY <1>2 DEF GetChanges
  <2> SUFFICES ASSUME NEW c \in todo'
               PROVE  /\ c.kind = "updated" /\ rrev[c.key] <= endrev' => c.rev = rrev[c.key]
                      /\ c.kind # "updated" => rparent[c.key] \in {Trash, None} /\ rrev[c.key] >= 1
    BY <2>1 DEF TodoInv, remote
  <2>3. /\ c \in Changes /\ rrev[c.key] > treerev /\ c.rev = rrev[c.key]
        /\ c.kind # "updated" => rparent[c.key] = Trash
    BY <2>2 DEF Reported
  <2>4. rrev[c.key] \in Nat
    BY <2>3 DEF Changes
  <2> QED BY <2>3, <2>4
<1>3. CASE ApplyDeleted \/ ApplyIgnored \/ ApplyUpdated
  <2>1. todo' \subseteq todo /\ UNCHANGED <<remote, endrev>>
    BY <1>3 DEF ApplyDeleted, ApplyIgnored, ApplyUpdated
  <2> QED BY <2>1 DEF TodoInv, remote
<1>4. CASE HousekeepDone
  <2>1. todo' = {}
    BY <1>4 DEF HousekeepDone, PlaceInv, At, Asking, Filling
  <2> QED BY <2>1 DEF TodoInv
<1>5. CASE UNCHANGED <<remote, todo, endrev>>
  BY <1>5 DEF TodoInv, remote
<1>6. CASE ~UNCHANGED <<remote, todo, endrev>>
  BY <1>1, <1>2, <1>3, <1>4, <1>6
  DEF Next, Holder, vars, control, ListFails, ListFolders, ListFiles, InfoFails, InfoAnswers,
      Unwind, GetChangesFails, ApplyDone, EndUpdate, HousekeepOrphan, MountStatus, MountInfo,
      GetStatus, Lookup
<1> QED BY <1>5, <1>6

\* The bound stays while answers wait, and nothing waits between two calls of
\* folder_tree_update_file_info.
LEMMA WaitingKept ==
  ASSUME TreeInv, PlaceInv, PlaceInv', [Next]_vars, ~(Handler \/ Others), Waiting' # {}
  PROVE  /\ UNCHANGED remote
         /\ Bound' = Bound
         /\ \/ InfoAnswers
            \/ Waiting' \subseteq Waiting /\ \A d \in Dirs : lrev'[d] = lrev[d] \/ lrev'[d] = 0
<1>1. pc' \in Asking
  <2>1. stack' # <<>>
    BY DEF Waiting
  <2> QED BY <2>1 DEF PlaceInv
<1>2. CASE InfoAnswers
  BY <1>2 DEF InfoAnswers, Bound, Updating, At
<1>3. CASE Unwind
  <2>1. Waiting' \subseteq Waiting /\ \A d \in Dirs : lrev'[d] = lrev[d]
    BY <1>3, UnwindFacts
  <2>2. ret \in {"apply", "housekeep"}
    BY <1>3 DEF Unwind, At, PlaceInv, Asking
  <2> QED BY <1>1, <1>3, <2>1, <2>2 DEF Unwind, Return, Bound, Updating, At, Asking
<1>4. CASE InfoFails
  <2>1. stack' = stack /\ Waiting' = Waiting
    BY <1>4 DEF InfoFails, Waiting
  <2>2. PICK e \in Keys : Remove(e)
    BY <1>4 DEF InfoFails, TreeInv, ControlInv, At
  <2>3. \A d \in Dirs : lrev'[d] = lrev[d] \/ lrev'[d] = 0
    BY <2>2, RemoveFacts, TypeParts DEF TreeInv
  <2>4. ret \in {"apply", "housekeep"}
    BY <1>4 DEF InfoFails, At, PlaceInv, Asking
  <2> QED BY <1>1, <1>4, <2>1, <2>3, <2>4 DEF InfoFails, Return, Bound, Updating, At, Asking
<1>5. CASE UNCHANGED vars
  BY <1>5 DEF vars, control, entries, Waiting, Bound, Updating
<1>6. CASE ~(InfoAnswers \/ Unwind \/ InfoFails \/ UNCHANGED vars)
  <2>1. ret \in {"idle", "status", "end"} \/ pc \notin Filling
    BY DEF PlaceInv
  <2>2. stack' = stack /\ pc \notin Asking
    BY <1>6 DEF Next, Holder, ListFails, ListFolders, ListFiles, GetChanges, GetChangesFails,
      ApplyDeleted, ApplyIgnored, ApplyUpdated, ApplyDone, EndUpdate, HousekeepOrphan,
      HousekeepDone, MountStatus, MountInfo, GetStatus, Lookup, At, Asking
  <2>3. stack = <<>>
    BY <2>2 DEF PlaceInv
  <2> QED BY <2>2, <2>3 DEF Waiting
<1> QED BY <1>2, <1>3, <1>4, <1>5, <1>6

LEMMA InfoKept ==
  ASSUME TreeInv, TreeInv', PlaceInv, PlaceInv', RevInv, InfoInv, [Next]_vars
  PROVE  InfoInv'
<1> SUFFICES ASSUME NEW w \in Waiting'
             PROVE  /\ w.parent \in Dirs \cup {Trash}
                    /\ w.rev <= rrev'[w.key]
                    /\ w.key \in Folders => lrev'[w.key] <= w.rev
                    /\ rrev'[w.key] <= Bound' => w.rev = rrev'[w.key]
                    /\ w.rev = rrev'[w.key] /\ rparent'[w.key] # None => w.parent = rparent'[w.key]
                    /\ rparent'[w.key] # w.parent /\ rparent'[w.key] \in Folders =>
                         lrev'[rparent'[w.key]] < rrev'[rparent'[w.key]]
  BY DEF InfoInv
<1>1. CASE Handler \/ Others
  <2>1. RemoteStep
    BY <1>1, RemoteSteps
  <2>2. w \in Waiting /\ w.key \in Keys /\ w.key \in Nodes /\ w.rev \in Nat
    BY <2>1, WaitingTyped, Numbers DEF RemoteStep, Waiting
  <2> DEFINE k == w.key
  <2>3. /\ w.parent \in Dirs \cup {Trash}
        /\ w.rev <= rrev[k]
        /\ k \in Folders => lrev[k] <= w.rev
        /\ rrev[k] <= Bound => w.rev = rrev[k]
        /\ w.rev = rrev[k] /\ rparent[k] # None => w.parent = rparent[k]
        /\ rparent[k] # w.parent /\ rparent[k] \in Folders => lrev[rparent[k]] < rrev[rparent[k]]
    BY <2>2 DEF InfoInv
  <2>4. /\ devrev' \in Nat /\ devrev \in Nat /\ devrev' > devrev
        /\ rrev[k] \in Nat /\ rrev[k] <= devrev
        /\ rrev'[k] = rrev[k] \/ rrev'[k] = devrev'
        /\ Bound' = Bound /\ Bound \in Nat /\ Bound <= devrev
    BY <2>1, <2>2, BoundKept, BoundPast, Numbers, SMTT(30)
    DEF RemoteStep, Shift, RevInv, TreeInv, TypeOK, RemoteTypeOK, Revs
  <2>5. w.rev = rrev'[k] /\ rparent'[k] # None => w.parent = rparent'[k]
    BY <2>1, <2>2, <2>3, <2>4 DEF RemoteStep, Shift
  <2>6. rparent'[k] # w.parent /\ rparent'[k] \in Folders => lrev[rparent'[k]] < rrev'[rparent'[k]]
    <3> SUFFICES ASSUME NEW d \in Folders, rparent'[k] = d, d # w.parent
                 PROVE  lrev[d] < rrev'[d]
      OBVIOUS
    <3>1. d \in Dirs /\ d \in Nodes
      BY Numbers DEF Dirs
    <3>2. lrev[d] \in Nat /\ rrev[d] \in Nat /\ lrev[d] <= devrev /\ (rrev'[d] = rrev[d] \/ rrev'[d] = devrev')
      BY <2>1, <3>1, Numbers DEF RevInv, RemoteStep, Shift
    <3>3. CASE rparent[k] = d
      <4>1. lrev[d] < rrev[d]
        BY <2>3, <3>3
      <4> QED BY <2>4, <3>2, <4>1
    <3>4. CASE rparent[k] # d
      <4>1. d # None
        BY <3>1, RemoteAssumption
      <4>2. rrev'[d] = devrev'
        BY <2>1, <2>2, <3>1, <3>4, <4>1 DEF RemoteStep, Shift
      <4> QED BY <2>4, <3>2, <4>2
    <3> QED BY <3>3, <3>4
  <2>7. lrev' = lrev
    BY <2>1 DEF RemoteStep
  <2> QED BY <2>2, <2>3, <2>4, <2>5, <2>6, <2>7
<1>2. CASE ~(Handler \/ Others)
  <2>1. /\ UNCHANGED <<rparent, rrev, devrev>>
        /\ Bound' = Bound
        /\ \/ InfoAnswers
           \/ Waiting' \subseteq Waiting /\ \A d \in Dirs : lrev'[d] = lrev[d] \/ lrev'[d] = 0
    BY <1>2, WaitingKept DEF remote
  <2>2. ASSUME w \in Waiting, \A d \in Dirs : lrev'[d] = lrev[d] \/ lrev'[d] = 0
        PROVE  /\ w.key \in Folders => lrev'[w.key] <= w.rev
               /\ rparent[w.key] # w.parent /\ rparent[w.key] \in Folders =>
                         lrev'[rparent[w.key]] < rrev[rparent[w.key]]
    <3>1. w.key \in Keys /\ w.rev \in Nat
      BY <2>2, WaitingTyped
    <3>2. /\ w.key \in Folders => lrev[w.key] <= w.rev
          /\ rparent[w.key] # w.parent /\ rparent[w.key] \in Folders =>
                         lrev[rparent[w.key]] < rrev[rparent[w.key]]
      BY <2>2 DEF InfoInv
    <3>3. \A d \in Folders : d \in Dirs /\ lrev[d] \in Nat /\ rrev[d] \in Nat
      BY Numbers DEF Dirs
    <3> QED BY <2>2, <3>1, <3>2, <3>3
  <2>3. CASE ~InfoAnswers
    BY <2>1, <2>2, <2>3 DEF InfoInv
  <2>4. CASE InfoAnswers
    <3>1. /\ need \in Keys /\ rparent[need] # None
          /\ Waiting' = Waiting \cup {[key |-> need, parent |-> rparent[need], rev |-> rrev[need]]}
      BY <2>4, AnswerFacts
    <3>2. UNCHANGED lrev
      BY <2>4 DEF InfoAnswers, entries
    <3>3. CASE w \in Waiting
      BY <2>1, <3>2, <3>3 DEF InfoInv
    <3>4. CASE w \notin Waiting
      <4>1. w.key = need /\ w.parent = rparent[need] /\ w.rev = rrev[need]
        BY <3>1, <3>4
      <4>2. rrev[need] \in Nat /\ (need \in Folders => lrev[need] <= rrev[need])
        <5>1. need \in Folders => need \in Dirs /\ need \in Nodes
          BY Numbers DEF Dirs
        <5> QED BY <3>1, <5>1, Numbers DEF RevInv
      <4>3. rparent[need] \in Dirs \cup {Trash}
        BY <3>1, Numbers
      <4> QED BY <2>1, <3>2, <4>1, <4>2, <4>3
    <3> QED BY <3>3, <3>4
  <2> QED BY <2>3, <2>4
<1> QED BY <1>1, <1>2

-----------------------------------------------------------------------------
(* Steps again, now with what is still to be integrated. *)

\* An entry whose change is still to be integrated, or is being integrated.
Pending(k) ==
  \/ \E c \in todo : c.key = k /\ c.kind = "updated"
  \/ need = k
  \/ \E w \in Waiting : w.key = k

\* What a local step may do to the entries.
LEMMA EntrySteps ==
  ASSUME TreeInv, [Next]_vars, ~(Handler \/ Others)
  PROVE  /\ UNCHANGED <<rparent, rrev, devrev, crowded, mayfail>>
         /\ \/ UNCHANGED <<tab, par, kids, rrem, lrev>>
            \/ ListFolders \/ ListFiles
            \/ Unwind
            \/ InfoFails \/ ApplyDeleted
            \/ MountInfo
            \/ (Lookup \/ ApplyDone) /\ UNCHANGED <<tab, par, rrem, lrev>>
<1>1. QuietStep => UNCHANGED <<remote, mayfail, tab, par, kids, rrem, lrev>>
  BY QuietSteps
<1> QED BY <1>1 DEF Next, Holder, QuietStep, vars, entries, remote, ListFolders, ListFiles, Unwind,
             InfoFails, ApplyDeleted, MountInfo, Lookup, ApplyDone

LEMMA BoundSteps ==
  ASSUME TreeInv, PlaceInv, [Next]_vars
  PROVE  Bound' = Bound \/ GetChanges \/ MountStatus
<1> USE DEF At, Bound, Updating
<1>1. CASE Handler \/ Others
  BY <1>1, RemoteSteps, BoundKept
<1>2. CASE GetStatus \/ GetChangesFails \/ ApplyIgnored \/ ApplyDeleted \/ ApplyUpdated \/ ApplyDone
  BY <1>2 DEF PlaceInv, Asking, Filling, FetchInfo, FillFolder, GetStatus, GetChangesFails, ApplyIgnored,
      ApplyDeleted, ApplyUpdated, ApplyDone
<1>3. CASE EndUpdate
  <2>1. UNCHANGED <<kids, dir, ret>> /\ pc' = "housekeep"
    BY <1>3, NoneDisputed DEF TreeInv, EndUpdate
  <2> QED BY <1>3, <2>1 DEF PlaceInv, Asking, Filling, EndUpdate
<1>4. CASE HousekeepOrphan \/ HousekeepDone \/ MountInfo \/ Lookup
  BY <1>4 DEF PlaceInv, Asking, Filling, FetchInfo, FillFolder, HousekeepOrphan, HousekeepDone,
      MountInfo, Lookup
<1>5. CASE ListFails \/ ListFolders \/ ListFiles
  BY <1>5 DEF PlaceInv, Asking, Filling, Return, ListFails, ListFolders, ListFiles
<1>6. CASE InfoFails \/ InfoAnswers \/ Unwind
  BY <1>6 DEF PlaceInv, Asking, Filling, Return, InfoFails, InfoAnswers, Unwind
<1>7. CASE UNCHANGED vars
  BY <1>7 DEF vars, control
<1> QED BY <1>1, <1>2, <1>3, <1>4, <1>5, <1>6, <1>7 DEF Next, Holder

\* A change stops to be pending when it is found to be there already, or when
\* its get_info has returned.
LEMMA PendingSteps ==
  ASSUME TreeInv, PlaceInv, [Next]_vars, NEW k \in Keys, Pending(k)
  PROVE  \/ Pending(k)'
         \/ InfoFails /\ need = k
         \/ Unwind /\ \A w \in Waiting : w.key = k \/ w \in Waiting'
         \/ pc = "apply" /\ \E c \in todo : c.key = k /\ c.kind = "updated" /\ UpToDate(c)
<1> USE DEF At
<1>0. k # None
  BY RemoteAssumption DEF Nodes
<1>1. stack' = stack => Waiting' = Waiting
  BY DEF Waiting
<1>2. CASE Handler \/ Others
  BY <1>1, <1>2, RemoteSteps DEF RemoteStep, Pending
<1>3. CASE InfoAnswers
  <2>1. PICK v : v.key = need /\ Waiting' = Waiting \cup {v}
    <3>1. PICK v : /\ v = [key |-> need, parent |-> rparent[need], rev |-> rrev[need]]
                   /\ Waiting' = Waiting \cup {v}
      BY <1>3, AnswerFacts
    <3> QED BY <3>1
  <2> QED BY <1>3, <2>1 DEF InfoAnswers, Pending
<1>4. CASE InfoFails
  BY <1>1, <1>4 DEF InfoFails, Pending
<1>5. CASE Unwind
  <2>1. need' = need /\ todo' = todo
    BY <1>5 DEF Unwind
  <2>2. PICK v \in Waiting : Waiting \subseteq Waiting' \cup {v}
    BY <1>5, UnwindFacts
  <2> QED BY <1>5, <2>1, <2>2 DEF Pending
<1>6. CASE ApplyDeleted \/ ApplyIgnored \/ ApplyUpdated
  <2>1. PICK c \in todo :
          /\ todo' = todo \ {c} /\ pc = "apply" /\ stack' = stack
          /\ \/ c.kind # "updated" /\ need' = need
             \/ UpToDate(c) /\ need' = need
             \/ need' = c.key /\ need = None
    BY <1>6 DEF ApplyDeleted, ApplyIgnored, ApplyUpdated, NextChanges, FetchInfo, PlaceInv
  <2>2. CASE c.key = k /\ c.kind = "updated"
    BY <2>1, <2>2 DEF Pending
  <2>3. CASE ~(c.key = k /\ c.kind = "updated")
    BY <1>0, <1>1, <2>1, <2>3 DEF Pending
  <2> QED BY <2>2, <2>3
<1>7. CASE pc \notin Asking \cup {"apply"}
  <2>1. todo = {} /\ need = None /\ Waiting = {}
    BY <1>7, NoneWaiting DEF PlaceInv, Asking, Filling
  <2> QED BY <1>0, <2>1 DEF Pending
<1>8. CASE ApplyDone
  <2>1. todo = {} /\ need = None /\ Waiting = {}
    BY <1>8, NoneWaiting DEF PlaceInv, Asking, ApplyDone
  <2> QED BY <1>0, <2>1 DEF Pending
<1>9. CASE UNCHANGED vars
  BY <1>1, <1>9 DEF vars, control, Pending
<1> QED BY <1>2, <1>3, <1>4, <1>5, <1>6, <1>7, <1>8, <1>9
    DEF Next, Holder, ListFails, ListFolders, ListFiles, GetStatus, GetChanges, GetChangesFails,
        EndUpdate, HousekeepOrphan, HousekeepDone, MountStatus, MountInfo, Lookup, Asking

-----------------------------------------------------------------------------
(* Where the entries are. *)

\* An entry that has the remote's revision is where the remote has it, or has lost
\* its parent with a folder that was removed.
AgreeInv ==
  \A k \in tab : rrem[k] = rrev[k] /\ rparent[k] \in Dirs =>
    par[k] = rparent[k] \/ (par[k] = Dangling /\ rparent[k] # Root)

\* An entry in its right place, and every entry of the root, has the remote's
\* revision, as far as the changes up to the bound go.
HeldInv ==
  \A k \in tab : rrev[k] <= Bound /\ (par[k] = rparent[k] \/ rparent[k] = Root) =>
    Pending(k) \/ (par[k] = rparent[k] /\ rrem[k] = rrev[k])

\* Any change that the entries do not have yet moves their object's revision.
LEMMA RemoteKeeps ==
  ASSUME TreeInv, TreeInv', RevInv, RemoteStep, NEW k \in Keys, NEW r \in Nat,
         r <= devrev, rrev'[k] <= r
  PROVE  rrev'[k] = rrev[k] /\ (rparent'[k] = rparent[k] \/ rparent'[k] = None)
<1>1. k \in Nodes /\ devrev \in Nat /\ devrev' \in Nat /\ rrev[k] \in Nat /\ devrev' > devrev
  BY Numbers DEF RemoteStep, Shift, TreeInv, TypeOK, RemoteTypeOK, Revs
<1>2. rrev'[k] # devrev'
  <2>1. rrev'[k] = rrev[k] \/ rrev'[k] = devrev'
    BY <1>1 DEF RemoteStep, Shift
  <2> QED BY <1>1, <2>1
<1> QED BY <1>1, <1>2 DEF RemoteStep, Shift

LEMMA AgreeKept ==
  ASSUME TreeInv, TreeInv', PlaceInv, RevInv, InfoInv, AgreeInv, [Next]_vars
  PROVE  AgreeInv'
<1> SUFFICES ASSUME NEW k \in tab', rrem'[k] = rrev'[k], rparent'[k] \in Dirs
             PROVE  par'[k] = rparent'[k] \/ (par'[k] = Dangling /\ rparent'[k] # Root)
  BY DEF AgreeInv
<1>0. k \in Keys /\ k \in Nodes /\ Root \notin Keys /\ None \notin Dirs
  BY RemoteAssumption DEF TreeInv, TypeOK, Nodes, Dirs, Keys
<1>1. CASE Handler \/ Others
  <2>1. RemoteStep
    BY <1>1, RemoteSteps
  <2>2. rrem'[k] = rrem[k] /\ rrem[k] \in Nat /\ rrem[k] <= rrev[k] /\ rrev[k] <= devrev /\ k \in tab
    BY <1>0, <2>1, Numbers DEF RemoteStep, RevInv
  <2>3. rrem[k] <= devrev
    BY <1>0, <2>2, Numbers
  <2>4. rrev'[k] = rrev[k] /\ rparent'[k] = rparent[k]
    BY <1>0, <2>1, <2>2, <2>3, Numbers, RemoteKeeps
  <2> QED BY <2>1, <2>2, <2>4 DEF AgreeInv, RemoteStep
<1>2. CASE ~(Handler \/ Others)
  <2>1. UNCHANGED <<rparent, rrev>>
    BY <1>2, EntrySteps
  <2>2. CASE UNCHANGED <<tab, par>> /\ rrem'[k] = rrem[k]
    BY <2>1, <2>2 DEF AgreeInv
  <2>3. CASE ListFolders \/ ListFiles
    <3>1. PICK new \in SUBSET Keys : Puts(new, dir, rrev) /\ \A j \in new : rparent[j] = dir
      BY <2>3, ListFacts
    <3>2. CASE k \in new
      BY <1>0, <2>1, <3>1, <3>2 DEF Puts
    <3>3. CASE k \notin new
      BY <1>0, <2>1, <3>1, <3>3 DEF Puts, AgreeInv
    <3> QED BY <3>2, <3>3
  <2>4. CASE Unwind
    <3>1. PICK w \in Waiting :
           \/ Puts({w.key}, w.parent, [j \in {w.key} |-> w.rev])
           \/ UNCHANGED <<tab, par, rrem>>
      BY <2>4, UnwindFacts
    <3>2. CASE UNCHANGED <<tab, par, rrem>>
      BY <2>1, <3>2 DEF AgreeInv
    <3>3. CASE Puts({w.key}, w.parent, [j \in {w.key} |-> w.rev]) /\ k = w.key
      <4>1. par'[k] = w.parent /\ rrem'[k] = w.rev
        BY <1>0, <3>3 DEF Puts
      <4>2. w.rev = rrev[w.key] /\ rparent[w.key] # None => w.parent = rparent[w.key]
        BY DEF InfoInv
      <4> QED BY <1>0, <2>1, <3>3, <4>1, <4>2
    <3>4. CASE Puts({w.key}, w.parent, [j \in {w.key} |-> w.rev]) /\ k # w.key
      BY <1>0, <2>1, <3>4 DEF Puts, AgreeInv
    <3> QED BY <3>1, <3>2, <3>3, <3>4
  <2>5. CASE InfoFails \/ ApplyDeleted
    <3>1. PICK e \in Keys : Remove(e)
      BY <2>5 DEF InfoFails, ApplyDeleted, NextChanges, TreeInv, TypeOK, Changes, ControlInv, At
    <3>2. PICK R \in SUBSET tab :
           /\ tab' = tab \ R
           /\ \A j \in tab \ R : par'[j] = IF par[j] \in R THEN Dangling ELSE par[j]
           /\ \A n \in Nodes : rrem'[n] = IF n \in R THEN 0 ELSE rrem[n]
      BY <3>1, RemoveFacts, TypeParts DEF TreeInv
    <3>3. k \in tab /\ k \notin R /\ rrem'[k] = rrem[k] /\ Root \notin R
      BY <1>0, <3>2, Numbers
    <3>4. par[k] = rparent[k] \/ (par[k] = Dangling /\ rparent[k] # Root)
      BY <2>1, <3>3 DEF AgreeInv
    <3>5. Dangling \notin R
      BY FolderTreeAssumption, Numbers
    <3> QED BY <2>1, <3>2, <3>3, <3>4, <3>5
  <2>6. CASE MountInfo
    <3>1. UNCHANGED <<tab, par>> /\ rrem'[k] = rrem[k]
      BY <1>0, <2>6 DEF MountInfo, TreeInv, TypeOK
    <3> QED BY <2>2, <3>1
  <2> QED BY <1>2, <2>2, <2>3, <2>4, <2>5, <2>6, EntrySteps
<1> QED BY <1>1, <1>2

LEMMA HeldKept ==
  ASSUME TreeInv, TreeInv', PlaceInv, RevInv, TodoInv, InfoInv, AgreeInv, HeldInv, [Next]_vars
  PROVE  HeldInv'
<1> SUFFICES ASSUME NEW k \in tab', rrev'[k] <= Bound',
                    par'[k] = rparent'[k] \/ rparent'[k] = Root
             PROVE  Pending(k)' \/ (par'[k] = rparent'[k] /\ rrem'[k] = rrev'[k])
  BY DEF HeldInv
<1>0. k \in Keys /\ k \in Nodes /\ Root \notin Keys /\ None \notin Dirs /\ Root \in Dirs
  BY RemoteAssumption DEF TreeInv, TypeOK, Nodes, Dirs, Keys
<1>b. Bound \in Nat /\ Bound <= devrev
  BY BoundPast
\* What the entry was before the step, if the step does not concern it.
<1>h. ASSUME k \in tab, par'[k] = par[k], rrem'[k] = rrem[k], rparent'[k] = rparent[k],
             rrev'[k] = rrev[k], Bound' = Bound,
             Pending(k) => Pending(k)' \/ (par[k] = rparent[k] /\ rrem[k] = rrev[k])
      PROVE  Pending(k)' \/ (par'[k] = rparent'[k] /\ rrem'[k] = rrev'[k])
  BY <1>h DEF HeldInv
<1>1. CASE Handler \/ Others
  <2>1. RemoteStep /\ Bound' = Bound
    BY <1>1, RemoteSteps, BoundKept
  <2>2. rrev'[k] = rrev[k] /\ (rparent'[k] = rparent[k] \/ rparent'[k] = None)
    BY <1>0, <1>b, <2>1, RemoteKeeps
  <2>3. k \in tab /\ par'[k] = par[k] /\ rrem'[k] = rrem[k]
    BY <2>1 DEF RemoteStep
  <2>4. par[k] # None
    BY <2>3, RemoteAssumption, FolderTreeAssumption, Numbers DEF RevInv, Known, Nodes
  <2>5. rparent'[k] = rparent[k]
    BY <1>0, <2>2, <2>3, <2>4
  <2>6. Pending(k) => Pending(k)'
    BY <2>1 DEF RemoteStep, Pending, Waiting
  <2> QED BY <1>h, <2>1, <2>2, <2>3, <2>5, <2>6
<1>2. CASE ~(Handler \/ Others)
  <2>1. UNCHANGED <<rparent, rrev>>
    BY <1>2, EntrySteps
  <2>2. CASE GetChanges
    <3>1. UNCHANGED <<tab, par, rrem>> /\ Bound = treerev /\ ~Pending(k)
      <4>1. UNCHANGED <<tab, par, rrem>>
        BY <2>2 DEF GetChanges, entries
      <4>2. Bound = treerev /\ todo = {} /\ need = None /\ Waiting = {}
        BY <2>2, NoneWaiting DEF GetChanges, Bound, Updating, PlaceInv, At, Asking, Filling
      <4> QED BY <1>0, <4>1, <4>2, RemoteAssumption DEF Pending, Nodes
    <3>2. CASE rrev[k] <= treerev
      BY <2>1, <3>1, <3>2 DEF HeldInv
    <3>3. CASE ~(rrev[k] <= treerev)
      <4>1. rparent[k] \in Dirs
        <5>1. CASE rparent'[k] = Root
          BY <1>0, <2>1, <5>1
        <5>2. CASE par'[k] = rparent'[k]
          BY <2>1, <3>1, <5>2, Numbers, RemoteAssumption, FolderTreeAssumption
          DEF RevInv, Known, Nodes, Dirs, Keys
        <5> QED BY <5>1, <5>2
      <4>2. PICK intrash : todo' = Reported(intrash)
        BY <2>2 DEF GetChanges
      <4>3. PICK c : c = [key |-> k, rev |-> rrev[k], kind |-> "updated"]
        OBVIOUS
      <4>4. c \in Changes /\ c.key = k /\ c.rev = rrev[k] /\ c.kind = "updated"
        BY <1>0, <4>3 DEF Changes, ChangeKinds, TreeInv, TypeOK, RemoteTypeOK
      <4>5. rparent[k] # None /\ rparent[k] # Trash /\ rrev[k] > treerev
        BY <1>0, <3>3, <4>1, Numbers, RemoteAssumption DEF Dirs, Nodes, Keys
      <4>6. c \in todo'
        BY <4>2, <4>4, <4>5 DEF Reported
      <4> QED BY <4>4, <4>6 DEF Pending
    <3> QED BY <3>2, <3>3
  <2>3. CASE MountStatus
    <3>1. tab' = {}
      BY <2>3 DEF MountStatus, entries, PlaceInv, At
    <3> QED BY <3>1
  <2>4. CASE ~(GetChanges \/ MountStatus)
    <3>1. Bound' = Bound
      BY <2>4, BoundSteps
    \* A change that is found to be there already.
    <3>2. ASSUME NEW c \in todo, c.key = k, c.kind = "updated", UpToDate(c), pc = "apply"
          PROVE  par[k] = rparent[k] /\ rrem[k] = rrev[k]
      <4>1. rrev[k] <= endrev
        BY <2>1, <3>1, <3>2 DEF Bound, Updating
      <4>2. c.rev = rrev[k]
        BY <3>2, <4>1 DEF TodoInv
      <4>3. k \in tab /\ rrem[k] >= rrev[k] /\ rrem[k] <= rrev[k]
        BY <1>0, <3>2, <4>2 DEF UpToDate, RevInv
      <4>4. rrem[k] = rrev[k]
        BY <1>0, <4>3, Numbers
      <4>5. CASE UNCHANGED par
        <5>1. rparent[k] \in Dirs
          BY <1>0, <2>1, <4>3, <4>5, Numbers, RemoteAssumption, FolderTreeAssumption
          DEF RevInv, Known, Nodes, Dirs, Keys
        <5>2. rparent[k] # Dangling
          BY <5>1, FolderTreeAssumption DEF Nodes, Dirs, Keys
        <5> QED BY <2>1, <4>3, <4>4, <4>5, <5>1, <5>2 DEF AgreeInv
      <4>6. CASE ~UNCHANGED par
        <5>1. ApplyDeleted
          BY <1>2, <3>2, <4>6 DEF Next, Holder, vars, entries, ListFails, ListFolders, ListFiles,
            InfoFails, InfoAnswers, Unwind, GetChanges, GetChangesFails, ApplyIgnored, ApplyUpdated,
            ApplyDone, EndUpdate, HousekeepOrphan, HousekeepDone, MountStatus, MountInfo, GetStatus,
            Lookup, At
        <5>2. rparent[k] \in Dirs
          <6>1. CASE rparent'[k] = Root
            BY <1>0, <2>1, <6>1
          <6>2. CASE par'[k] = rparent'[k]
            <7>1. par'[k] \in Nodes \cup {Dangling, None}
              BY <1>0 DEF TreeInv, TypeOK
            <7>2. PICK d \in todo : Remove(d.key) /\ d.key \in Keys
              BY <5>1, Numbers DEF ApplyDeleted, NextChanges
            <7>3. PICK R \in SUBSET tab :
                   /\ tab' = tab \ R
                   /\ \A j \in tab \ R : par'[j] = IF par[j] \in R THEN Dangling ELSE par[j]
              BY <7>2, RemoveFacts, TypeParts DEF TreeInv
            <7>4. par'[k] \in Known \cup {Dangling}
              BY <4>3, <7>3 DEF RevInv
            <7> QED BY <1>0, <2>1, <6>2, <7>4, Numbers, RemoteAssumption, FolderTreeAssumption
                    DEF Known, Nodes, Dirs, Keys
          <6> QED BY <6>1, <6>2
        <5>3. CASE par[k] = rparent[k]
          BY <4>4, <5>3
        <5>4. CASE par[k] = Dangling /\ rparent[k] # Root
          <6>1. par'[k] = Dangling
            <7>2. PICK d \in todo : Remove(d.key) /\ d.key \in Keys
              BY <5>1, Numbers DEF ApplyDeleted, NextChanges
            <7>3. PICK R \in SUBSET tab :
                   /\ tab' = tab \ R
                   /\ \A j \in tab \ R : par'[j] = IF par[j] \in R THEN Dangling ELSE par[j]
              BY <7>2, RemoveFacts, TypeParts DEF TreeInv
            <7> QED BY <4>3, <5>4, <7>3
          <6> QED BY <2>1, <5>2, <5>4, <6>1, FolderTreeAssumption DEF Nodes, Dirs, Keys
        <5> QED BY <4>3, <4>4, <5>2, <5>3, <5>4 DEF AgreeInv
      <4> QED BY <4>5, <4>6
    <3>3. CASE UNCHANGED <<tab, par>> /\ rrem'[k] = rrem[k] /\ ~Unwind /\ ~InfoFails
      <4>1. Pending(k) => Pending(k)' \/ (par[k] = rparent[k] /\ rrem[k] = rrev[k])
        BY <1>0, <3>2, <3>3, PendingSteps
      <4> QED BY <1>h, <2>1, <3>1, <3>3, <4>1
    <3>4. CASE ListFolders \/ ListFiles
      <4>1. PICK new \in SUBSET Keys :
              Puts(new, dir, rrev) /\ \A j \in new : rparent[j] = dir
        BY <3>4, ListFacts
      <4>2. CASE k \in new
        BY <1>0, <2>1, <4>1, <4>2 DEF Puts
      <4>3. CASE k \notin new
        <5>1. k \in tab /\ par'[k] = par[k] /\ rrem'[k] = rrem[k]
          BY <1>0, <4>1, <4>3 DEF Puts
        <5>2. Pending(k) => Pending(k)'
          BY <3>4, ListFacts DEF Pending, Waiting
        <5> QED BY <1>h, <2>1, <3>1, <5>1, <5>2
      <4> QED BY <4>2, <4>3
    <3>5. CASE Unwind
      <4>1. PICK w \in Waiting :
             /\ w.key \in Keys
             /\ Waiting \subseteq Waiting' \cup {w}
             /\ \/ Puts({w.key}, w.parent, [j \in {w.key} |-> w.rev])
                \/ w.parent \notin Known /\ UNCHANGED <<tab, par, rrem>>
        BY <3>5, UnwindFacts
      <4>2. need' = need /\ todo' = todo
        BY <3>5 DEF Unwind
      <4>3. /\ rrev[w.key] <= Bound => w.rev = rrev[w.key]
            /\ w.rev = rrev[w.key] /\ rparent[w.key] # None => w.parent = rparent[w.key]
        BY DEF InfoInv
      <4>4. CASE k = w.key
        <5>1. w.rev = rrev[k]
          BY <2>1, <3>1, <4>3, <4>4
        <5>2. CASE Puts({w.key}, w.parent, [j \in {w.key} |-> w.rev])
          <6>1. par'[k] = w.parent /\ rrem'[k] = w.rev
            BY <1>0, <4>4, <5>2 DEF Puts
          <6>2. par'[k] # None
            <7>1. par'[k] \in Known' \cup {Dangling} \/ par'[k] = w.parent
              BY <6>1
            <7>2. w.parent \in Nodes \cup {Trash}
              BY WaitingTyped DEF Infos
            <7> QED BY <6>1, <7>2, RemoteAssumption
          <6>3. rparent[k] # None
            BY <1>0, <2>1, <6>2
          <6> QED BY <2>1, <4>3, <4>4, <5>1, <6>1, <6>3
        <5>3. CASE w.parent \notin Known /\ UNCHANGED <<tab, par, rrem>>
          <6>1. par[k] \in Known \cup {Dangling} /\ k \in tab
            BY <5>3 DEF RevInv
          <6>2. rparent[k] # None
            BY <1>0, <2>1, <5>3, <6>1, RemoteAssumption, FolderTreeAssumption, Numbers
            DEF Known, Nodes, Dirs, Keys
          <6>3. w.parent = rparent[k]
            BY <4>3, <4>4, <5>1, <6>2
          <6>4. rparent[k] # Dangling
            BY <1>0, Numbers, FolderTreeAssumption DEF Nodes, Dirs, Keys
          <6> QED BY <2>1, <5>3, <6>1, <6>3, <6>4 DEF Known
        <5> QED BY <4>1, <5>2, <5>3
      <4>5. CASE k # w.key
        <5>1. k \in tab /\ par'[k] = par[k] /\ rrem'[k] = rrem[k]
          BY <1>0, <4>1, <4>5 DEF Puts
        <5>2. Pending(k) => Pending(k)'
          BY <4>1, <4>2, <4>5 DEF Pending
        <5> QED BY <1>h, <2>1, <3>1, <5>1, <5>2
      <4> QED BY <4>4, <4>5
    <3>6. CASE InfoFails \/ ApplyDeleted
      <4>1. PICK e \in Keys : Remove(e) /\ (InfoFails => e = need)
        BY <3>6 DEF InfoFails, ApplyDeleted, NextChanges, TreeInv, TypeOK, Changes, ControlInv, At
      <4>2. PICK R \in SUBSET tab :
             /\ tab' = tab \ R /\ e \notin tab'
             /\ \A j \in tab \ R : par'[j] = IF par[j] \in R THEN Dangling ELSE par[j]
             /\ \A n \in Nodes : rrem'[n] = IF n \in R THEN 0 ELSE rrem[n]
        BY <4>1, RemoveFacts, TypeParts DEF TreeInv
      <4>3. k \in tab /\ k \notin R /\ k # e /\ rrem'[k] = rrem[k] /\ Root \notin R
        BY <1>0, <4>2, Numbers
      <4>4. Pending(k) => Pending(k)' \/ (par[k] = rparent[k] /\ rrem[k] = rrev[k])
        <5>1. ~Unwind
          BY <3>6 DEF InfoFails, ApplyDeleted, Unwind, At
        <5> QED BY <1>0, <3>2, <4>1, <4>3, <5>1, PendingSteps
      <4>5. CASE par[k] \notin R
        BY <1>h, <2>1, <3>1, <4>2, <4>3, <4>4, <4>5
      <4>6. CASE par[k] \in R
        <5>1. par'[k] = Dangling /\ rparent[k] # Dangling
          BY <1>0, <4>2, <4>3, <4>6, Numbers, FolderTreeAssumption DEF Nodes, Dirs, Keys
        <5>2. rparent[k] = Root /\ par[k] # Root
          BY <2>1, <4>3, <4>6, <5>1
        <5>3. Pending(k)
          BY <2>1, <3>1, <4>3, <5>2 DEF HeldInv
        <5> QED BY <4>4, <5>2, <5>3
      <4> QED BY <4>5, <4>6
    <3>7. CASE MountInfo
      <4>1. UNCHANGED <<tab, par>> /\ rrem'[k] = rrem[k] /\ ~Unwind /\ ~InfoFails
        BY <1>0, <3>7 DEF MountInfo, TreeInv, TypeOK, At, Unwind, InfoFails
      <4> QED BY <3>3, <4>1
    <3> QED BY <1>2, <3>3, <3>4, <3>5, <3>6, <3>7, EntrySteps
  <2> QED BY <2>2, <2>3, <2>4
<1> QED BY <1>1, <1>2

-----------------------------------------------------------------------------
(* Whether anything is missing from a folder. *)

\* A folder within the limit that was filled at its present revision lacks nothing,
\* except what a get_info that failed has thrown out of the table.
CompleteInv ==
  \A k \in Keys : \A d \in Folders :
    rparent[k] = d /\ Within(d) /\ lrev[d] = rrev[d] /\ (k \in tab \/ "info" \notin mayfail)
      => k \in kids[d]

\* What the helper has found so far.
FillInv ==
  /\ pc \in Filling /\ dir # Root => lrev[dir] < rrem[dir]
  /\ pc \in Filling /\ dir = Root /\ ret \in {"idle", "status"} =>
       Stale(Root) \/ "info" \in mayfail
  /\ pc = "files" /\ dir # Root /\ rrem[dir] = rrev[dir] /\ Within(dir) =>
       Content(Folders, dir) \subseteq kids[dir]
  /\ pc = "files" /\ dir = Root /\ ~crowded =>
       \A k \in Folders : rparent[k] = Root /\ rrev[k] <= Bound => k \in kids[Root]

\* The root is read at some time after the changes have been fetched.  What it
\* is to list and does not is still to come: as a change, or by housekeeping.
RootInv ==
  "info" \notin mayfail /\ ~crowded /\ ~Stale(Root) /\ pc # "mountinfo" =>
    \A k \in Keys : rparent[k] = Root /\ rrev[k] <= Bound =>
      \/ k \in kids[Root]
      \/ Updating /\ (Pending(k) \/ (k \in tab /\ par[k] = Root))
      \/ Housekeeping /\ k \in tab /\ par[k] = Root /\ (Bucket[k] > cursor \/ Pending(k))

LEMMA LocalPast ==
  ASSUME TreeInv, RevInv, NEW d \in Dirs
  PROVE  /\ lrev[d] \in Nat /\ rrem[d] \in Nat /\ rrev[d] \in Nat /\ devrev \in Nat
         /\ lrev[d] <= rrem[d] /\ rrem[d] <= rrev[d] /\ rrev[d] <= devrev
         /\ d \in Nodes /\ d # None /\ d # Trash /\ d # Dangling
BY Numbers, RemoteAssumption, FolderTreeAssumption DEF RevInv

\* The remote changes no list of children without the folder's revision, unless
\* the folder itself is gone.
LEMMA RemoteFixed ==
  ASSUME TreeInv, TreeInv', RevInv, RemoteStep, NEW d \in Dirs, rrev'[d] <= devrev
  PROVE  /\ rrev'[d] = rrev[d]
         /\ \A k \in Keys : rparent'[k] = d => rparent[k] = d
         /\ \A k \in Keys : rparent[k] = d /\ rparent'[k] # d => d \in Folders /\ rparent'[d] = None
         /\ d \in Folders /\ rparent'[d] \in Dirs => rparent[d] \in Dirs
<1>1. d \in Nodes /\ d # None /\ d # Trash /\ None \notin Dirs
  BY Numbers, RemoteAssumption DEF Dirs, Nodes, Keys
<1>2. /\ devrev \in Nat /\ devrev' > devrev
      /\ \A n \in Nodes : rrev'[n] = rrev[n] \/ rrev'[n] = devrev'
      /\ \A k \in Keys : rparent'[k] # rparent[k] =>
           \/ /\ rparent'[k] # None
              /\ rrev'[k] = devrev'
              /\ rparent'[k] \in Dirs => rrev'[rparent'[k]] = devrev'
              /\ rparent[k] \in Dirs => rrev'[rparent[k]] = devrev'
           \/ /\ rparent'[k] = None
              /\ rparent[k] = Trash \/ (rparent[k] \in Folders /\ rparent'[rparent[k]] = None)
  BY Numbers DEF RemoteStep, Shift
<1>3. devrev' \in Nat
  BY DEF TreeInv, TypeOK, RemoteTypeOK, Revs
<1>4. rrev'[d] # devrev'
  BY <1>2, <1>3
<1>5. rrev'[d] = rrev[d]
  BY <1>1, <1>2, <1>4
<1>6. ASSUME NEW k \in Keys, rparent'[k] = d PROVE rparent[k] = d
  BY <1>1, <1>2, <1>4, <1>6
<1>7. ASSUME NEW k \in Keys, rparent[k] = d, rparent'[k] # d PROVE d \in Folders /\ rparent'[d] = None
  BY <1>1, <1>2, <1>4, <1>7
<1>8. ASSUME d \in Folders, rparent'[d] \in Dirs PROVE rparent[d] \in Dirs
  BY <1>1, <1>2, <1>4, <1>8, Numbers
<1> QED BY <1>5, <1>6, <1>7, <1>8

\* So it tells the same as before, if it still tells anything.
LEMMA RemoteTells ==
  ASSUME TreeInv, TreeInv', RevInv, RevInv', RemoteStep, NEW d \in Folders, rrev'[d] <= devrev,
         NEW k \in Keys, rparent'[k] = d
  PROVE  Within(d)' <=> Within(d)
<1>1. rparent'[d] # None
  BY DEF RevInv, RemoteInv
<1>2. d \in Dirs
  BY DEF Dirs
<1>3. \A j \in Keys : rparent'[j] = d <=> rparent[j] = d
  BY <1>1, <1>2, RemoteFixed
<1> QED BY <1>3, ContentSame

\* What a removal does.  Without failures, what is removed is not in any folder.
LEMMA GoneFacts ==
  ASSUME TreeInv, TodoInv, InfoFails \/ ApplyDeleted
  PROVE  \E e \in Keys : \E R \in SUBSET tab :
           /\ "info" \in mayfail \/ rparent[e] \in {Trash, None}
           /\ InfoFails => e = need
           /\ tab' = tab \ R /\ e \notin tab' /\ Root \notin R /\ Dangling \notin R
           /\ \A k \in R : k # e => par[k] \in R
           /\ \A k \in tab \ R : par'[k] = IF par[k] \in R THEN Dangling ELSE par[k]
           /\ \A d \in Dirs : kids'[d] = IF d \in R THEN {} ELSE kids[d] \ {e}
           /\ \A n \in Nodes : rrem'[n] = IF n \in R THEN 0 ELSE rrem[n]
           /\ \A d \in Dirs : lrev'[d] = IF d \in R THEN 0 ELSE lrev[d]
<1>1. EntriesTyped /\ ChildrenAgree
  BY TypeParts DEF TreeInv
<1>2. PICK e \in Keys : /\ Remove(e) /\ (InfoFails => e = need)
                        /\ "info" \in mayfail \/ rparent[e] \in {Trash, None}
  <2>1. CASE InfoFails
    BY <2>1 DEF InfoFails, TreeInv, ControlInv, At, Exists
  <2>2. CASE ApplyDeleted
    <3>1. PICK c \in todo : c.kind = "deleted" /\ Remove(c.key)
      BY <2>2 DEF ApplyDeleted, NextChanges
    <3>2. c.key \in Keys /\ rparent[c.key] \in {Trash, None}
      BY <3>1, Numbers DEF TodoInv
    <3>3. ~InfoFails
      BY <2>2 DEF ApplyDeleted, InfoFails, At
    <3> QED BY <3>1, <3>2, <3>3
  <2> QED BY <2>1, <2>2
<1>3. PICK R \in SUBSET tab :
        /\ tab' = tab \ R /\ e \notin tab'
        /\ \A k \in R : k # e => par[k] \in R
        /\ \A k \in tab \ R : par'[k] = IF par[k] \in R THEN Dangling ELSE par[k]
        /\ \A d \in Dirs : kids'[d] = IF d \in R THEN {} ELSE kids[d] \ {e}
        /\ \A n \in Nodes : rrem'[n] = IF n \in R THEN 0 ELSE rrem[n]
        /\ \A d \in Dirs : lrev'[d] = IF d \in R THEN 0 ELSE lrev[d]
  BY <1>1, <1>2, RemoveFacts
<1>4. Root \notin R /\ Dangling \notin R
  BY <1>3, Numbers, RemoteAssumption, FolderTreeAssumption DEF Nodes
<1> QED BY <1>2, <1>3, <1>4

\* What the start of filling a folder does.
LEMMA FillFacts ==
  ASSUME TreeInv, Lookup \/ ApplyDone \/ MountInfo
  PROVE  /\ dir' \in Dirs /\ dir' \in Known /\ pc' = "folders"
         /\ \A d \in Dirs : kids'[d] = IF d = dir' THEN {} ELSE kids[d]
         /\ \A d \in Dirs : lrev'[d] = lrev[d]
         /\ tab' = tab /\ par' = par /\ need' = need /\ stack' = stack /\ todo' = todo
         /\ cursor' = cursor /\ mayfail' = mayfail
         /\ \/ Lookup /\ Stale(dir') /\ ret' = "idle" /\ UNCHANGED rrem
            \/ ApplyDone /\ dir' = Root /\ ret' = "end" /\ todo = {} /\ UNCHANGED rrem
            \/ /\ MountInfo /\ dir' = Root /\ ret' = "status"
               /\ \A n \in Nodes : n # Root => rrem'[n] = rrem[n]
               /\ "info" \in mayfail \/ rrem'[Root] = rrev[Root]
<1>1. EntriesTyped
  BY TypeParts DEF TreeInv
<1>2. CASE Lookup
  <2>1. PICK d \in Known \cap Dirs : Stale(d) /\ FillFolder(d, "idle")
    BY <1>2 DEF Lookup
  <2>2. dir' = d
    BY <2>1 DEF FillFolder
  <2> QED BY <1>1, <1>2, <2>1, <2>2 DEF Lookup, FillFolder, EntriesTyped
<1>3. CASE ApplyDone
  BY <1>1, <1>3 DEF ApplyDone, FillFolder, EntriesTyped, Dirs, Known
<1>4. CASE MountInfo
  BY <1>1, <1>4 DEF MountInfo, FillFolder, EntriesTyped, Dirs, Nodes, Known
<1> QED BY <1>2, <1>3, <1>4

LEMMA CompleteKept ==
  ASSUME TreeInv, TreeInv', PlaceInv, RevInv, RevInv', TodoInv, InfoInv, CompleteInv, FillInv,
         [Next]_vars
  PROVE  CompleteInv'
<1> SUFFICES ASSUME NEW k \in Keys, NEW d \in Folders, rparent'[k] = d, Within(d)',
                    lrev'[d] = rrev'[d], k \in tab' \/ "info" \notin mayfail'
             PROVE  k \in kids'[d]
  BY DEF CompleteInv
<1>0. d \in Dirs /\ d \in Keys /\ d # Root /\ k \in Nodes
  BY Numbers, RemoteAssumption DEF Dirs, Nodes
<1>p. /\ lrev[d] \in Nat /\ rrem[d] \in Nat /\ rrev[d] \in Nat /\ devrev \in Nat
      /\ lrev[d] <= rrem[d] /\ rrem[d] <= rrev[d] /\ rrev[d] <= devrev /\ d # None /\ d # Trash
  BY <1>0, LocalPast
<1>1. CASE Handler \/ Others
  <2>1. RemoteStep
    BY <1>1, RemoteSteps
  <2>2. lrev'[d] = lrev[d] /\ rrev'[d] <= devrev /\ tab' = tab /\ mayfail' = mayfail /\ kids' = kids
    BY <1>p, <2>1 DEF RemoteStep
  <2>3. rrev'[d] = rrev[d] /\ rparent[k] = d
    BY <1>0, <2>1, <2>2, RemoteFixed
  <2>4. Within(d)
    BY <2>1, <2>2, RemoteTells
  <2> QED BY <2>2, <2>3, <2>4 DEF CompleteInv
<1>2. CASE ~(Handler \/ Others)
  <2>0. rparent' = rparent /\ rrev' = rrev /\ mayfail' = mayfail
    BY <1>2, EntrySteps
  <2>1. rparent[k] = d /\ rrev'[d] = rrev[d] /\ mayfail' = mayfail /\ Within(d)
    BY <2>0, ContentSame
  <2>h. lrev[d] = rrev[d] /\ (k \in tab \/ "info" \notin mayfail) => k \in kids[d]
    BY <2>1 DEF CompleteInv
  <2>2. CASE UNCHANGED <<tab, par, kids, rrem, lrev>>
    BY <2>1, <2>2, <2>h
  <2>3. CASE ListFolders \/ ListFiles
    <3>1. CASE dir = d
      <4>1. CASE pc = "folders"
        <5>1. lrev'[d] = lrev[d] /\ lrev[d] < rrem[d]
          BY <1>0, <2>3, <3>1, <4>1, ListFacts DEF FillInv, Filling
        <5> QED BY <1>p, <2>1, <5>1
      <4>2. CASE pc # "folders"
        <5>1. /\ pc = "files" /\ Lists(Files)
              /\ \A x \in Dirs : lrev'[x] = IF x = dir THEN rrem[x] ELSE lrev[x]
          BY <2>3, <4>2, ListFacts
        <5>2. rrem[d] = rrev[d]
          BY <1>0, <2>1, <3>1, <5>1
        <5>3. Content(Folders, d) \subseteq kids[d]
          BY <1>0, <2>1, <3>1, <5>1, <5>2 DEF FillInv
        <5>4. kids'[d] = kids[d] \cup Content(Files, d)
          BY <1>0, <2>1, <3>1, <5>1 DEF Lists, Puts
        <5> QED BY <2>1, <5>3, <5>4 DEF Content, Keys
      <4> QED BY <4>1, <4>2
    <3>2. CASE dir # d
      <4>1. PICK new \in SUBSET Keys :
              /\ Puts(new, dir, rrev) /\ \A j \in new : rparent[j] = dir
              /\ lrev'[d] = lrev[d]
        BY <1>0, <2>3, <3>2, ListFacts
      <4>2. k \notin new
        BY <2>1, <3>2, <4>1
      <4> QED BY <1>0, <2>1, <2>h, <3>2, <4>1, <4>2 DEF Puts
    <3> QED BY <3>1, <3>2
  <2>4. CASE Unwind
    <3>1. PICK w \in Waiting :
             /\ lrev'[d] = lrev[d]
             /\ \/ w.parent \in Known /\ Puts({w.key}, w.parent, [j \in {w.key} |-> w.rev])
                \/ UNCHANGED <<tab, kids>>
      BY <1>0, <2>4, UnwindFacts
    <3>2. CASE UNCHANGED <<tab, kids>>
      BY <2>1, <2>h, <3>1, <3>2
    <3>3. CASE Puts({w.key}, w.parent, [j \in {w.key} |-> w.rev])
      <4>1. CASE k = w.key
        <5>1. w.parent = d
          BY <1>p, <2>1, <3>1, <4>1 DEF InfoInv
        <5> QED BY <1>0, <3>3, <4>1, <5>1 DEF Puts
      <4>2. CASE k # w.key
        BY <1>0, <2>1, <2>h, <3>1, <3>3, <4>2 DEF Puts
      <4> QED BY <4>1, <4>2
    <3> QED BY <3>1, <3>2, <3>3
  <2>5. CASE InfoFails \/ ApplyDeleted
    <3>1. PICK e \in Keys, R \in SUBSET tab :
           /\ "info" \in mayfail \/ rparent[e] \in {Trash, None}
           /\ tab' = tab \ R /\ e \notin tab'
           /\ \A x \in Dirs : kids'[x] = IF x \in R THEN {} ELSE kids[x] \ {e}
           /\ \A x \in Dirs : lrev'[x] = IF x \in R THEN 0 ELSE lrev[x]
      BY <2>5, GoneFacts
    <3>2. rrev[d] >= 1
      BY <1>0, <2>1 DEF RevInv
    <3>3. d \notin R /\ lrev[d] = rrev[d]
      BY <1>0, <1>p, <2>1, <3>1, <3>2
    <3>4. k # e
      BY <1>p, <2>1, <3>1
    <3> QED BY <1>0, <2>1, <2>h, <3>1, <3>3, <3>4
  <2>6. CASE Lookup \/ ApplyDone \/ MountInfo
    <3>1. lrev'[d] = lrev[d] /\ tab' = tab
      BY <1>0, <2>6, FillFacts
    <3>2. CASE dir' = d
      <4>1. lrev[d] # rrem[d]
        BY <1>0, <2>6, <3>2, FillFacts DEF Stale
      <4> QED BY <1>p, <2>1, <3>1, <4>1
    <3>3. CASE dir' # d
      BY <1>0, <2>1, <2>6, <2>h, <3>1, <3>3, FillFacts
    <3> QED BY <3>2, <3>3
  <2> QED BY <1>2, <2>2, <2>3, <2>4, <2>5, <2>6, EntrySteps
<1> QED BY <1>1, <1>2

LEMMA FillKept ==
  ASSUME TreeInv, TreeInv', PlaceInv, PlaceInv', RevInv, RevInv', FillInv, [Next]_vars
  PROVE  FillInv'
<1>0. Root \in Dirs /\ Root \in Nodes /\ Root \notin Keys /\ dir \in Dirs /\ dir' \in Dirs
  BY RemoteAssumption DEF Dirs, Nodes, TreeInv, TypeOK
<1>1. CASE Handler \/ Others
  <2>1. RemoteStep /\ Bound' = Bound
    BY <1>1, RemoteSteps, BoundKept
  <2>2. /\ dir' = dir /\ ret' = ret /\ UNCHANGED <<kids, rrem, lrev, mayfail>>
        /\ pc' \in {"folders", "files"} => pc' = pc
    BY <2>1 DEF RemoteStep
  <2>3. ASSUME pc' = "files", dir # Root, rrem[dir] = rrev'[dir], Within(dir)',
               NEW k \in Folders, rparent'[k] = dir
        PROVE  k \in kids[dir]
    <3>1. rrev'[dir] <= devrev
      BY <1>0, <2>3, LocalPast
    <3>2. rrev'[dir] = rrev[dir] /\ k \in Keys /\ rparent[k] = dir
      BY <1>0, <2>1, <2>3, <3>1, Numbers, RemoteFixed
    <3>3. Within(dir)
      <4>1. PICK d : d = dir
        OBVIOUS
      <4>2. d \in Folders /\ Within(d)' /\ rrev'[d] <= devrev /\ rparent'[k] = d
        BY <1>0, <2>2, <2>3, <3>1, <4>1 DEF Dirs
      <4>3. Within(d)
        BY <2>1, <3>2, <4>2, RemoteTells
      <4> QED BY <4>1, <4>3
    <3> QED BY <2>2, <2>3, <3>2, <3>3 DEF FillInv, Content
  <2>4. ASSUME pc' = "files", dir = Root, ~crowded', NEW k \in Folders, rparent'[k] = Root,
               rrev'[k] <= Bound'
        PROVE  k \in kids[Root]
    <3>1. k \in Keys /\ Root # None
      BY Numbers, RemoteAssumption DEF Nodes
    <3>2. rrev'[k] = rrev[k] /\ rparent[k] = Root
      BY <2>1, <2>4, <3>1, BoundPast, RemoteKeeps
    <3>3. ~crowded
      BY <2>1, <2>4 DEF RemoteStep, Shift
    <3> QED BY <2>1, <2>2, <2>4, <3>2, <3>3 DEF FillInv
  <2> QED BY <2>2, <2>3, <2>4 DEF FillInv, Filling, Stale, Content
<1>2. CASE Lookup \/ ApplyDone \/ MountInfo
  <2>1. pc' = "folders" /\ lrev'[dir'] = lrev[dir'] /\ lrev'[Root] = lrev[Root]
    BY <1>0, <1>2, FillFacts
  <2>2. CASE Lookup
    <3>1. Stale(dir') /\ ret' = "idle" /\ rrem' = rrem
      BY <2>2, FillFacts DEF Lookup, ApplyDone, MountInfo, At
    <3> QED BY <1>0, <2>1, <3>1, LocalPast DEF FillInv, Filling, Stale
  <2>3. CASE ApplyDone
    <3>1. dir' = Root /\ ret' = "end"
      BY <2>3, FillFacts DEF Lookup, ApplyDone, MountInfo, At
    <3> QED BY <2>1, <3>1 DEF FillInv, Filling
  <2>4. CASE MountInfo
    <3>1. /\ dir' = Root /\ mayfail' = mayfail /\ rrev' = rrev
          /\ "info" \in mayfail \/ rrem'[Root] = rrev[Root]
      BY <2>4, FillFacts DEF Lookup, ApplyDone, MountInfo, At, remote
    <3>2. lrev[Root] = 0 /\ rrev[Root] >= 1
      BY <2>4 DEF MountInfo, At, PlaceInv, RevInv
    <3> QED BY <1>0, <2>1, <3>1, <3>2, Numbers DEF FillInv, Filling, Stale
  <2> QED BY <1>2, <2>2, <2>3, <2>4
<1>3. CASE ListFolders
  <2>1. /\ pc = "folders" /\ pc' = "files" /\ ret' = ret /\ dir' = dir
        /\ Lists(Folders)
        /\ \A d \in Dirs : lrev'[d] = lrev[d]
        /\ rparent' = rparent /\ rrev' = rrev /\ mayfail' = mayfail /\ crowded' = crowded
    BY <1>3, ListFacts DEF ListFolders, ListFiles, At, remote
  <2>p. PICK some \in SUBSET Content(Folders, dir) :
          Puts(some, dir, rrev) /\ (Within(dir) => some = Content(Folders, dir))
    BY <2>1 DEF Lists
  <2>2. Within(dir) => kids'[dir] = kids[dir] \cup Content(Folders, dir)
    BY <1>0, <2>p DEF Puts
  <2>w. (Within(dir)' <=> Within(dir)) /\ Content(Folders, dir)' = Content(Folders, dir)
    <3>1. PICK d : d = dir /\ d = dir'
      BY <2>1
    <3>2. (Within(d)' <=> Within(d)) /\ Content(Folders, d)' = Content(Folders, d)
      BY <2>1, ContentSame
    <3> QED BY <3>1, <3>2
  <2>3. rrem'[dir] >= rrem[dir] /\ rrem'[Root] = rrem[Root]
    <3>1. Root \notin Content(Folders, dir)
      BY <1>0, Numbers DEF Content
    <3>2. rrem'[dir] = rrem[dir] \/ rrem'[dir] = rrev[dir]
      BY <1>0, <2>p, Numbers DEF Puts
    <3> QED BY <1>0, <2>p, <3>1, <3>2, LocalPast DEF Puts
  <2>4. rrem'[dir] \in Nat
    BY <1>0, Numbers, SMTT(30) DEF TreeInv, TypeOK, Revs
  <2>5. ~crowded /\ dir = Root => Within(dir)
    BY DEF RevInv, RemoteInv
  <2>6. \A k \in Folders : rparent[k] = dir => k \in Content(Folders, dir)
    BY DEF Content
  <2>7. dir' = dir /\ pc \in Filling
    BY <2>1 DEF Filling
  <2>8. dir # Root => lrev'[dir] < rrem'[dir]
    BY <1>0, <2>1, <2>3, <2>4, <2>7, LocalPast DEF FillInv
  <2> QED BY <1>0, <2>1, <2>2, <2>w, <2>3, <2>5, <2>6, <2>7, <2>8 DEF FillInv, Filling, Stale
<1>4. CASE UNCHANGED vars
  <2>1. (Within(dir)' <=> Within(dir)) /\ Content(Folders, dir)' = Content(Folders, dir)
    <3>1. PICK d : d = dir /\ d = dir'
      BY <1>4 DEF vars, control
    <3>2. (Within(d)' <=> Within(d)) /\ Content(Folders, d)' = Content(Folders, d)
      BY <1>4, ContentSame DEF vars, remote
    <3> QED BY <3>1, <3>2
  <2> QED BY <1>4, <2>1 DEF vars, remote, entries, control, FillInv, Stale, Bound, Updating
<1>5. CASE ~(Handler \/ Others \/ Lookup \/ ApplyDone \/ MountInfo \/ ListFolders \/ UNCHANGED vars)
  <2>1. pc' \notin Filling
    <3>1. EndUpdate => pc' = "housekeep"
      BY NoneDisputed DEF TreeInv, EndUpdate
    <3>2. ret \notin Filling
      BY DEF TreeInv, TypeOK, Filling
    <3> QED BY <1>5, <3>1, <3>2 DEF Next, Holder, Filling, Return, FetchInfo, ListFails, ListFiles,
        InfoFails, InfoAnswers, Unwind, GetChanges, GetChangesFails, ApplyDeleted, ApplyIgnored,
        ApplyUpdated, HousekeepOrphan, HousekeepDone, MountStatus, GetStatus, At
  <2> QED BY <2>1 DEF FillInv, Filling
<1> QED BY <1>1, <1>2, <1>3, <1>4, <1>5

\* An entry of the root that the changes up to the bound cover.
LEMMA RootKept ==
  ASSUME TreeInv, TreeInv', PlaceInv, PlaceInv', RevInv, TodoInv, InfoInv, AgreeInv, FillInv,
         RootInv, [Next]_vars
  PROVE  RootInv'
<1> DEFINE Placed(k) == k \in tab /\ par[k] = Root
           Shown(k) == \/ k \in kids[Root]
                       \/ Updating /\ (Pending(k) \/ Placed(k))
                       \/ Housekeeping /\ Placed(k) /\ (Bucket[k] > cursor \/ Pending(k))
<1> SUFFICES ASSUME "info" \notin mayfail', ~crowded', ~Stale(Root)', pc' # "mountinfo",
                    NEW k \in Keys, rparent'[k] = Root, rrev'[k] <= Bound'
             PROVE  Shown(k)'
  BY DEF RootInv
<1>0. /\ Root \in Dirs /\ Root \in Nodes /\ Root \notin Keys /\ k \in Nodes /\ k # Root
      /\ Root # None /\ Root # Trash /\ Root # Dangling /\ k # None
  BY RemoteAssumption, FolderTreeAssumption DEF Dirs, Nodes
<1>b. Bound \in Nat /\ Bound <= devrev
  BY BoundPast
<1>c. \A j \in kids[Root] : j \in tab /\ par[j] = Root
  BY <1>0 DEF TreeInv, ChildrenAgree
<1>1. CASE Handler \/ Others
  <2>1. RemoteStep /\ Bound' = Bound
    BY <1>1, RemoteSteps, BoundKept
  <2>2. rparent[k] = Root /\ rrev[k] <= Bound
    BY <1>0, <1>b, <2>1, RemoteKeeps
  <2>3. ~Stale(Root) /\ pc # "mountinfo" /\ "info" \notin mayfail /\ ~crowded
    BY <2>1 DEF RemoteStep, Shift, Stale
  <2>4. Shown(k)
    BY <2>2, <2>3 DEF RootInv
  <2>5. Pending(k)' = Pending(k) /\ Updating' = Updating /\ Housekeeping' = Housekeeping
    BY <2>1 DEF RemoteStep, Pending, Waiting, Updating, Housekeeping
  <2>6. Placed(k)' = Placed(k) /\ kids' = kids /\ cursor' = cursor
    BY <2>1 DEF RemoteStep
  <2> HIDE DEF Placed
  <2> QED BY <2>4, <2>5, <2>6
<1>2. CASE ~(Handler \/ Others)
  <2>1. /\ rparent[k] = Root /\ rrev'[k] = rrev[k] /\ mayfail' = mayfail /\ rrev[k] >= 1
        /\ ~crowded
    BY <1>0, <1>2, EntrySteps DEF RevInv
  \* The step leaves the entry where it is.
  <2>h. ASSUME Bound' = Bound, ~Stale(Root), pc # "mountinfo"
        PROVE  Shown(k)
    BY <2>1, <2>h DEF RootInv
  <2>2. CASE GetChanges
    <3>1. UNCHANGED <<tab, par, kids, rrem, lrev>> /\ pc = "changes" /\ pc' = "apply"
      BY <2>2 DEF GetChanges, entries, At
    <3>2. ret = "idle" /\ ~Updating /\ ~Housekeeping /\ Bound = treerev
      BY <3>1 DEF PlaceInv, Asking, Filling, Updating, Housekeeping, Bound
    <3>3. CASE rrev[k] <= treerev
      <4>1. k \in kids[Root]
        BY <2>1, <3>1, <3>2, <3>3 DEF RootInv, Stale
      <4> QED BY <3>1, <4>1
    <3>4. CASE ~(rrev[k] <= treerev)
      <4>2. PICK intrash : todo' = Reported(intrash)
        BY <2>2 DEF GetChanges
      <4>3. PICK c : c = [key |-> k, rev |-> rrev[k], kind |-> "updated"]
        OBVIOUS
      <4>4. c \in Changes /\ c.key = k /\ c.rev = rrev[k] /\ c.kind = "updated"
        BY <1>0, <4>3 DEF Changes, ChangeKinds, TreeInv, TypeOK, RemoteTypeOK
      <4>5. rrev[k] > treerev
        BY <1>0, <3>4, Numbers
      <4>6. c \in todo'
        BY <1>0, <2>1, <4>2, <4>4, <4>5 DEF Reported
      <4>7. Pending(k)' /\ Updating'
        BY <3>1, <4>4, <4>6 DEF Pending, Updating
      <4> HIDE DEF Placed
      <4> QED BY <4>7
    <3> QED BY <3>3, <3>4
  <2>3. CASE MountStatus
    <3>1. pc = "mount" /\ pc' = "idle" /\ treerev' = treerev /\ ret' = ret
      BY <2>3 DEF MountStatus, At
    <3>2. treerev = 0 /\ ret = "idle"
      BY <3>1 DEF PlaceInv, Asking, Filling
    <3>3. Bound' = 0
      BY <3>1, <3>2 DEF Bound, Updating
    <3> QED BY <1>0, <2>1, <3>3, Numbers
  <2>4. CASE MountInfo
    <3>1. lrev'[Root] = lrev[Root] /\ rrem'[Root] = rrev[Root]
      BY <1>0, <2>1, <2>4, FillFacts DEF Lookup, ApplyDone, MountInfo, At
    <3>2. lrev[Root] = 0 /\ rrev[Root] >= 1
      BY <2>4 DEF MountInfo, At, PlaceInv, RevInv
    <3> QED BY <3>1, <3>2, <1>0, Numbers DEF Stale
  <2>5. CASE ListFolders \/ ListFiles
    <3>1. /\ dir \in Dirs /\ pc \in Filling /\ cursor' = cursor
          /\ need' = need /\ stack' = stack /\ todo' = todo
      BY <2>5, ListFacts DEF Filling
    <3>2. PICK new \in SUBSET Keys :
            /\ Puts(new, dir, rrev) /\ \A j \in new : rparent[j] = dir
      BY <2>5, ListFacts
    <3>3. Bound' = Bound
      BY <2>5, BoundSteps DEF GetChanges, MountStatus, ListFolders, ListFiles, At
    <3>4. CASE dir = Root /\ k \in new
      BY <1>0, <3>2, <3>4 DEF Puts
    <3>5. CASE dir = Root /\ k \notin new
      <4>1. CASE pc = "files"
        <5>1. Lists(Files) /\ Within(dir)
          BY <2>1, <2>5, <3>5, <4>1, ListFacts DEF RevInv, RemoteInv
        <5>2. kids'[Root] = kids[Root] \cup Content(Files, Root)
          BY <1>0, <3>5, <5>1 DEF Lists, Puts
        <5>3. k \in Folders => k \in kids[Root]
          BY <2>1, <3>3, <3>5, <4>1 DEF FillInv
        <5> QED BY <2>1, <5>2, <5>3 DEF Content, Keys
      <4>2. CASE pc # "files"
        <5>1. /\ pc = "folders" /\ pc' = "files" /\ ret' = ret
              /\ \A d \in Dirs : lrev'[d] = lrev[d]
          BY <2>5, <4>2, ListFacts
        <5>2. /\ rrem'[Root] = rrem[Root] /\ tab \subseteq tab' /\ par'[k] = par[k]
              /\ kids[Root] \subseteq kids'[Root]
          BY <1>0, <3>2, <3>5 DEF Puts
        <5>3. Shown(k)
          BY <1>0, <2>h, <3>3, <5>1, <5>2 DEF Stale
        <5>4. Pending(k)' = Pending(k) /\ Updating' = Updating /\ Housekeeping' = Housekeeping
          BY <3>1, <5>1 DEF Pending, Waiting, Updating, Housekeeping
        <5>5. Placed(k) => Placed(k)'
          BY <5>2
        <5> HIDE DEF Placed
        <5> QED BY <3>1, <5>2, <5>3, <5>4, <5>5
      <4> QED BY <4>1, <4>2
    <3>6. CASE dir # Root
      <4>1. k \notin new
        BY <2>1, <3>2, <3>6
      <4>2. ret = "idle" /\ ~Updating /\ ~Housekeeping
        BY <3>1, <3>6 DEF PlaceInv, Filling, Updating, Housekeeping
      <4>3. lrev'[Root] = lrev[Root] /\ rrem'[Root] = rrem[Root]
        BY <1>0, <2>5, <3>2, <3>6, ListFacts DEF Puts
      <4>4. k \in kids[Root]
        <5>1. Shown(k)
          BY <2>h, <3>1, <3>3, <4>3 DEF Stale, Filling
        <5> QED BY <4>2, <5>1
      <4> QED BY <1>0, <3>2, <3>6, <4>1, <4>4 DEF Puts
    <3> QED BY <3>4, <3>5, <3>6
  <2>6. CASE ListFails
    <3>1. /\ UNCHANGED <<tab, par, kids, rrem, lrev>> /\ pc \in Filling
          /\ pc' = ret /\ ret' = "idle"
      BY <2>6 DEF ListFails, Return, entries, At, Filling
    <3>2. Bound' = Bound
      BY <3>1, BoundSteps DEF GetChanges, MountStatus, At, Filling
    <3>3. need' = need /\ stack' = stack /\ todo' = todo /\ cursor' = cursor
      BY <2>6 DEF ListFails
    <3>4. Shown(k)
      BY <2>h, <3>1, <3>2 DEF Stale, Filling
    <3>5. Pending(k)' = Pending(k)
      BY <3>3 DEF Pending, Waiting
    <3>6. Updating' = Updating /\ ~Housekeeping
      BY <3>1 DEF PlaceInv, Filling, Updating, Housekeeping
    <3>7. Placed(k)' = Placed(k)
      BY <3>1
    <3> HIDE DEF Placed
    <3> QED BY <3>1, <3>3, <3>4, <3>5, <3>6, <3>7
  <2>7. CASE InfoFails \/ ApplyDeleted
    <3>1. PICK e \in Keys, R \in SUBSET tab :
           /\ "info" \in mayfail \/ rparent[e] \in {Trash, None}
           /\ InfoFails => e = need
           /\ tab' = tab \ R /\ Root \notin R
           /\ \A j \in R : j # e => par[j] \in R
           /\ \A j \in tab \ R : par'[j] = IF par[j] \in R THEN Dangling ELSE par[j]
           /\ \A x \in Dirs : kids'[x] = IF x \in R THEN {} ELSE kids[x] \ {e}
           /\ \A n \in Nodes : rrem'[n] = IF n \in R THEN 0 ELSE rrem[n]
           /\ \A x \in Dirs : lrev'[x] = IF x \in R THEN 0 ELSE lrev[x]
      BY <2>7, GoneFacts
    <3>2. k # e
      BY <1>0, <2>1, <3>1
    <3>3. Bound' = Bound /\ cursor' = cursor /\ pc # "mountinfo"
      BY <2>7, BoundSteps DEF GetChanges, MountStatus, InfoFails, ApplyDeleted, At
    <3>4. ~Stale(Root)
      BY <1>0, <3>1 DEF Stale
    <3>5. Shown(k)
      BY <2>h, <3>3, <3>4
    <3>6. kids'[Root] = kids[Root] \ {e}
      BY <1>0, <3>1
    <3>7. Placed(k) => Placed(k)'
      BY <3>1, <3>2
    <3>8. Pending(k) => Pending(k)' \/ (pc = "apply" /\ Placed(k))
      <4>1. ASSUME NEW c \in todo, c.key = k, c.kind = "updated", UpToDate(c), pc = "apply"
            PROVE  Placed(k)
        <5>1. rrev[k] <= endrev
          BY <2>1, <3>3, <4>1 DEF Bound, Updating
        <5>2. k \in tab /\ rrem[k] >= rrev[k] /\ rrem[k] <= rrev[k]
          BY <1>0, <4>1, <5>1 DEF TodoInv, UpToDate, RevInv
        <5>3. rrem[k] = rrev[k]
          BY <1>0, <5>2, Numbers
        <5> QED BY <1>0, <2>1, <5>2, <5>3 DEF AgreeInv
      <4>2. ~Unwind
        BY <2>7 DEF InfoFails, ApplyDeleted, Unwind, At
      <4> HIDE DEF Placed
      <4> QED BY <3>1, <3>2, <4>1, <4>2, PendingSteps
    <3>9. Updating => Updating'
      BY <2>7 DEF InfoFails, ApplyDeleted, Updating, At, Return
    <3>10. Housekeeping => Housekeeping' /\ pc # "apply"
      BY <2>7 DEF InfoFails, ApplyDeleted, Housekeeping, At, Return, PlaceInv, Asking, Filling
    <3> HIDE DEF Placed
    <3> QED BY <3>2, <3>3, <3>5, <3>6, <3>7, <3>8, <3>9, <3>10
  <2>8. CASE Unwind
    <3>1. PICK w \in Waiting :
           /\ w.key \in Keys /\ w.rev \in Nat
           /\ Waiting \subseteq Waiting' \cup {w}
           /\ \A d \in Dirs : lrev'[d] = lrev[d]
           /\ \/ /\ w.parent \in Known
                 /\ Puts({w.key}, w.parent, [j \in {w.key} |-> w.rev])
              \/ w.parent \notin Known /\ UNCHANGED <<tab, par, kids, rrem, lrev>>
      BY <2>8, UnwindFacts
    <3>2. need' = need /\ todo' = todo /\ cursor' = cursor /\ pc = "unwind"
      BY <2>8 DEF Unwind, At
    <3>3. Bound' = Bound
      BY <3>2, BoundSteps DEF GetChanges, MountStatus, At
    <3>4. CASE k = w.key
      <4>1. w.parent = Root
        BY <1>0, <2>1, <3>3, <3>4 DEF InfoInv
      <4>2. Puts({w.key}, w.parent, [j \in {w.key} |-> w.rev])
        BY <3>1, <4>1 DEF Known
      <4> QED BY <1>0, <3>4, <4>1, <4>2 DEF Puts
    <3>5. CASE k # w.key
      <4>1. /\ tab \subseteq tab' /\ par'[k] = par[k] /\ rrem'[Root] = rrem[Root]
            /\ k \in kids[Root] => k \in kids'[Root]
        <5>1. CASE UNCHANGED <<tab, par, kids, rrem>>
          BY <5>1
        <5>2. CASE Puts({w.key}, w.parent, [j \in {w.key} |-> w.rev])
          <6>1. w.key # Root
            BY <1>0, <3>1
          <6>2. tab' = tab \cup {w.key} /\ par'[k] = par[k]
            BY <1>0, <3>5, <5>2 DEF Puts
          <6>3. Root \in Nodes /\ Root \in Dirs
            BY <1>0, Numbers DEF Nodes, Dirs
          <6>4. rrem'[Root] = rrem[Root]
            BY <5>2, <6>1, <6>3 DEF Puts
          <6>5. k \in kids[Root] => k \in kids'[Root]
            BY <3>5, <5>2, <6>3 DEF Puts
          <6> QED BY <6>2, <6>4, <6>5
        <5> QED BY <3>1, <5>1, <5>2
      <4>2. Shown(k)
        BY <1>0, <2>h, <3>1, <3>2, <3>3, <4>1 DEF Stale
      <4>3. Pending(k) => Pending(k)'
        BY <3>1, <3>2, <3>5 DEF Pending
      <4>4. Placed(k) => Placed(k)'
        BY <4>1
      <4>5. (Updating => Updating') /\ (Housekeeping => Housekeeping')
        BY <2>8 DEF Unwind, At, Return, Updating, Housekeeping
      <4> HIDE DEF Placed
      <4> QED BY <3>2, <4>1, <4>2, <4>3, <4>4, <4>5
    <3> QED BY <3>4, <3>5
  <2>9. CASE Lookup \/ ApplyDone
    <3>1. /\ \A d \in Dirs : kids'[d] = IF d = dir' THEN {} ELSE kids[d]
          /\ \A d \in Dirs : lrev'[d] = lrev[d] /\ rrem'[d] = rrem[d]
          /\ tab' = tab /\ par' = par /\ need' = need /\ stack' = stack /\ todo' = todo
          /\ cursor' = cursor
          /\ (Stale(dir') /\ ret' = "idle") \/ (dir' = Root /\ ret' = "end" /\ todo = {})
      <4>1. /\ \A d \in Dirs : kids'[d] = IF d = dir' THEN {} ELSE kids[d]
            /\ \A d \in Dirs : lrev'[d] = lrev[d]
            /\ tab' = tab /\ par' = par /\ need' = need /\ stack' = stack /\ todo' = todo
            /\ cursor' = cursor
        BY <2>9, FillFacts
      <4>2. ~MountInfo
        BY <2>9 DEF Lookup, ApplyDone, MountInfo, At
      <4>3. /\ UNCHANGED rrem
            /\ (Stale(dir') /\ ret' = "idle") \/ (dir' = Root /\ ret' = "end" /\ todo = {})
        BY <2>9, <4>2, FillFacts
      <4> QED BY <4>1, <4>3
    <3>2. pc \in {"idle", "apply"} /\ pc' = "folders" /\ (pc = "apply" => ret' = "end")
          /\ (pc = "idle" => ret' = "idle")
      BY <2>9 DEF Lookup, ApplyDone, At, FillFolder
    <3>3. Bound' = Bound
      BY <3>2, BoundSteps DEF GetChanges, MountStatus, At
    <3>4. ~Stale(Root) /\ Shown(k)
      BY <1>0, <2>h, <3>1, <3>2, <3>3 DEF Stale
    <3>5. ret = "idle" /\ ~Housekeeping /\ (Updating => pc = "apply") /\ need = None /\ Waiting = {}
      BY <3>2, NoneWaiting DEF PlaceInv, Asking, Filling, Updating, Housekeeping
    <3>6. CASE pc = "idle"
      <4>1. k \in kids[Root]
        BY <3>4, <3>5, <3>6
      <4>2. Stale(dir')
        BY <3>1, <3>2, <3>6
      <4>3. dir' # Root
        BY <3>4, <4>2
      <4> QED BY <1>0, <3>1, <4>1, <4>3
    <3>7. CASE pc = "apply"
      <4>1. todo = {} /\ ret' = "end"
        BY <3>1, <3>2, <3>7
      <4>2. ~Pending(k)
        BY <1>0, <3>5, <4>1 DEF Pending
      <4>3. Placed(k)
        BY <1>c, <3>4, <3>5, <4>2
      <4>4. Updating'
        BY <4>1 DEF Updating
      <4> QED BY <3>1, <4>3, <4>4
    <3> QED BY <3>2, <3>6, <3>7
  <2>10. CASE \/ InfoAnswers \/ GetStatus \/ GetChangesFails \/ ApplyIgnored \/ ApplyUpdated
              \/ EndUpdate \/ HousekeepOrphan \/ HousekeepDone
    <3>1. UNCHANGED <<tab, par, kids, rrem, lrev>>
      BY <2>10, QuietSteps DEF QuietStep
    <3>2. Bound' = Bound /\ pc # "mountinfo" /\ ~Unwind /\ ~InfoFails
      BY <2>10, BoundSteps DEF GetChanges, MountStatus, InfoFails, Unwind, At, InfoAnswers, GetStatus,
         GetChangesFails, ApplyIgnored, ApplyUpdated, EndUpdate, HousekeepOrphan, HousekeepDone
    <3>3. Shown(k)
      BY <2>h, <3>1, <3>2 DEF Stale
    <3>4. Placed(k)' = Placed(k)
      BY <3>1
    <3>5. CASE InfoAnswers \/ GetStatus \/ GetChangesFails \/ ApplyIgnored \/ ApplyUpdated
      <4>1. Pending(k) => Pending(k)' \/ (pc = "apply" /\ Placed(k))
        <5>1. ASSUME NEW c \in todo, c.key = k, c.kind = "updated", UpToDate(c), pc = "apply"
              PROVE  Placed(k)
          <6>1. rrev[k] <= endrev
            BY <2>1, <3>2, <5>1 DEF Bound, Updating
          <6>2. k \in tab /\ rrem[k] >= rrev[k] /\ rrem[k] <= rrev[k]
            BY <1>0, <5>1, <6>1 DEF TodoInv, UpToDate, RevInv
          <6>3. rrem[k] = rrev[k]
            BY <1>0, <6>2, Numbers
          <6> QED BY <1>0, <2>1, <6>2, <6>3 DEF AgreeInv
        <5> HIDE DEF Placed
        <5> QED BY <3>2, <5>1, PendingSteps
      <4>2. (Updating => Updating') /\ cursor' = cursor
        BY <3>5 DEF InfoAnswers, GetStatus, GetChangesFails, ApplyIgnored, ApplyUpdated, FetchInfo,
          At, Updating, PlaceInv, Asking, Filling
      <4>3. Housekeeping => Housekeeping' /\ pc # "apply"
        BY <3>5 DEF InfoAnswers, GetStatus, GetChangesFails, ApplyIgnored, ApplyUpdated, FetchInfo,
          At, Housekeeping, PlaceInv, Asking, Filling
      <4> HIDE DEF Placed
      <4> QED BY <3>1, <3>3, <3>4, <4>1, <4>2, <4>3
    <3>6. CASE EndUpdate \/ HousekeepOrphan \/ HousekeepDone
      <4>1. ret = "idle" /\ need = None /\ todo = {} /\ Waiting = {} /\ pc \in {"end", "housekeep"}
        BY <3>6, NoneWaiting DEF EndUpdate, HousekeepOrphan, HousekeepDone, At, PlaceInv, Asking, Filling
      <4>2. ~Pending(k)
        BY <1>0, <4>1 DEF Pending
      <4>3. Bucket[k] \in Nat \ {0} /\ cursor \in Nat
        BY FolderTreeAssumption DEF TreeInv, TypeOK
      <4>4. CASE EndUpdate
        <5>1. pc' = "housekeep" /\ pc = "end" /\ cursor' = cursor
          BY <4>4, NoneDisputed DEF TreeInv, EndUpdate, At
        <5>2. cursor = 0 /\ Housekeeping' /\ ~Housekeeping
          BY <4>1, <5>1 DEF PlaceInv, Housekeeping
        <5>3. k \in kids[Root] \/ Placed(k)
          BY <3>3, <4>2, <5>2
        <5>4. Bucket[k] > cursor'
          BY <4>3, <5>1, <5>2
        <5> HIDE DEF Placed
        <5> QED BY <3>1, <3>4, <5>2, <5>3, <5>4
      <4>5. CASE HousekeepOrphan \/ HousekeepDone
        <5>1. pc = "housekeep" /\ ~Updating
          BY <4>1, <4>5 DEF HousekeepOrphan, HousekeepDone, At, Updating
        <5>2. k \in kids[Root] \/ (Placed(k) /\ Bucket[k] > cursor)
          BY <3>3, <4>2, <5>1
        <5>3. CASE k \in kids[Root]
          BY <3>1, <5>3
        <5>4. CASE k \notin kids[Root]
          <6>1. k \in Ahead /\ Placed(k)
            BY <5>2, <5>4 DEF Ahead, Orphan
          <6>2. PICK j \in Ahead : /\ \A o \in Ahead : Bucket[j] <= Bucket[o]
                                   /\ cursor' = Bucket[j] /\ FetchInfo(j, "housekeep")
            BY <4>5, <6>1 DEF HousekeepOrphan, HousekeepDone
          <6>3. j \in Keys /\ Bucket[j] \in Nat /\ Bucket[j] <= Bucket[k] /\ (j # k => Bucket[j] # Bucket[k])
            BY <6>1, <6>2, Numbers, FolderTreeAssumption DEF Ahead
          <6>4. Housekeeping' /\ need' = j
            BY <6>2 DEF FetchInfo, Housekeeping
          <6>5. CASE j = k
            <7>1. Pending(k)'
              BY <6>4, <6>5 DEF Pending
            <7> HIDE DEF Placed
            <7> QED BY <3>4, <6>1, <6>4, <7>1
          <6>6. CASE j # k
            <7>1. Bucket[k] > cursor'
              BY <4>3, <6>2, <6>3, <6>6
            <7> HIDE DEF Placed
            <7> QED BY <3>4, <6>1, <6>4, <7>1
          <6> QED BY <6>5, <6>6
        <5> QED BY <5>3, <5>4
      <4> QED BY <3>6, <4>4, <4>5
    <3> QED BY <2>10, <3>5, <3>6
  <2>11. CASE UNCHANGED vars
    <3>1. ~Stale(Root) /\ pc # "mountinfo" /\ Bound' = Bound
      BY <2>11 DEF vars, entries, control, Stale, Bound, Updating
    <3>2. Shown(k)
      BY <2>h, <3>1
    <3> QED BY <2>11, <3>2 DEF vars, entries, control, Updating, Housekeeping, Pending, Waiting
  <2> QED BY <1>2, <2>2, <2>3, <2>4, <2>5, <2>6, <2>7, <2>8, <2>9, <2>10, <2>11 DEF Next, Holder
<1> QED BY <1>1, <1>2

-----------------------------------------------------------------------------
(* Whether a folder shows what is not there.  This part relies on the table *)
(* having been made by this mount.                                         *)

\* A folder of the remote that was filled at its present revision.
SoundInv ==
  \A d \in tab \cap Folders :
    rparent[d] \in Dirs /\ lrev[d] = rrev[d] => kids[d] \subseteq Content(Keys, d)

\* The root, unless it has changed since the changes were fetched, or is about
\* to be filled again.
RootSoundInv ==
  pc # "apply" /\ ret # "apply" /\ rrev[Root] <= Bound => kids[Root] \subseteq Content(Keys, Root)

FillSoundInv ==
  /\ pc = "folders" => kids[dir] = {}
  /\ pc = "files" /\ dir # Root /\ rrem[dir] = rrev[dir] /\ rparent[dir] \in Dirs =>
       kids[dir] \subseteq Content(Keys, dir)

\* An answer that has become wrong names a folder that shows so.
InfoSoundInv ==
  \A w \in Waiting : rparent[w.key] # w.parent =>
    /\ w.parent \in Folders /\ rparent[w.parent] \in Dirs => lrev[w.parent] < rrev[w.parent]
    /\ w.parent = Root => rrev[Root] > Bound

\* Housekeeping has left nothing behind that is gone, unless a folder lists it.
CleanInv ==
  Housekeeping /\ treerev = devrev =>
    /\ \A w \in Waiting : Exists(w.key)
    /\ \A k \in tab : ~Exists(k) /\ Bucket[k] <= cursor /\ need # k =>
         par[k] = Dangling \/ k \in kids[par[k]]

LEMMA SoundKept ==
  ASSUME TreeInv, TreeInv', PlaceInv, RevInv, TodoInv, InfoInv, FillInv,
         SoundInv, FillSoundInv, InfoSoundInv, [Next]_vars
  PROVE  SoundInv'
<1> SUFFICES ASSUME NEW d \in Folders, d \in tab', rparent'[d] \in Dirs, lrev'[d] = rrev'[d],
                    NEW k \in kids'[d]
             PROVE  k \in Keys /\ rparent'[k] = d
  BY DEF SoundInv, Content
<1>0. d \in Dirs /\ d \in Keys /\ d # Root /\ None \notin Dirs
  BY Numbers, RemoteAssumption DEF Dirs, Nodes, Keys
<1>p. /\ lrev[d] \in Nat /\ rrem[d] \in Nat /\ rrev[d] \in Nat /\ devrev \in Nat
      /\ lrev[d] <= rrem[d] /\ rrem[d] <= rrev[d] /\ rrev[d] <= devrev
  BY <1>0, LocalPast
<1>k. k \in Keys
  BY <1>0 DEF TreeInv, TypeOK
<1>1. CASE Handler \/ Others
  <2>1. RemoteStep
    BY <1>1, RemoteSteps
  <2>2. lrev'[d] = lrev[d] /\ rrev'[d] <= devrev /\ tab' = tab /\ kids' = kids
    BY <1>p, <2>1 DEF RemoteStep
  <2>3. /\ rrev'[d] = rrev[d] /\ rparent[d] \in Dirs
        /\ rparent[k] = d /\ rparent'[k] # d => rparent'[d] = None
    BY <1>0, <1>k, <2>1, <2>2, RemoteFixed
  <2>4. rparent[k] = d
    BY <2>2, <2>3 DEF SoundInv, Content
  <2> QED BY <1>0, <1>k, <2>3, <2>4
<1>2. CASE ~(Handler \/ Others)
  <2>1. rparent' = rparent /\ rrev'[d] = rrev[d] /\ rrev[d] >= 1
    <3>1. rparent' = rparent /\ rrev' = rrev
      BY <1>2, EntrySteps
    <3> QED BY <1>0, <3>1 DEF RevInv
  <2>h. ASSUME d \in tab, lrev'[d] = lrev[d], k \in kids[d] PROVE rparent[k] = d
    BY <2>1, <2>h DEF SoundInv, Content
  \* What is not in the table has never been filled.
  <2>n. lrev'[d] = lrev[d] => d \in tab
    BY <1>0, <1>p, <2>1 DEF RevInv
  <2>2. CASE UNCHANGED <<tab, par, kids, rrem, lrev>>
    BY <1>k, <2>1, <2>2, <2>h
  <2>3. CASE ListFolders \/ ListFiles
    <3>1. CASE dir = d
      <4>1. CASE pc = "folders"
        <5>1. lrev'[d] = lrev[d] /\ lrev[d] < rrem[d]
          BY <1>0, <2>3, <3>1, <4>1, ListFacts DEF FillInv, Filling
        <5> QED BY <1>p, <2>1, <5>1
      <4>2. CASE pc # "folders"
        <5>1. /\ pc = "files"
              /\ \E new \in SUBSET Keys : Puts(new, dir, rrev) /\ \A j \in new : rparent[j] = dir
              /\ \A x \in Dirs : lrev'[x] = IF x = dir THEN rrem[x] ELSE lrev[x]
          BY <2>3, <4>2, ListFacts
        <5>2. rrem[d] = rrev[d]
          BY <1>0, <2>1, <3>1, <5>1
        <5>3. kids[d] \subseteq Content(Keys, d)
          BY <1>0, <2>1, <3>1, <5>1, <5>2 DEF FillSoundInv
        <5>4. k \in kids[d] \/ rparent[k] = d
          BY <1>0, <3>1, <5>1 DEF Puts
        <5> QED BY <1>k, <2>1, <5>3, <5>4 DEF Content
      <4> QED BY <4>1, <4>2
    <3>2. CASE dir # d
      <4>1. PICK new \in SUBSET Keys :
              /\ Puts(new, dir, rrev) /\ \A j \in new : rparent[j] = dir
              /\ lrev'[d] = lrev[d]
        BY <1>0, <2>3, <3>2, ListFacts
      <4>2. k \in kids[d]
        BY <1>0, <3>2, <4>1 DEF Puts
      <4> QED BY <1>k, <2>1, <2>h, <2>n, <4>1, <4>2
    <3> QED BY <3>1, <3>2
  <2>4. CASE Unwind
    <3>1. PICK w \in Waiting :
             /\ lrev'[d] = lrev[d]
             /\ \/ Puts({w.key}, w.parent, [j \in {w.key} |-> w.rev])
                \/ UNCHANGED <<tab, kids>>
      BY <1>0, <2>4, UnwindFacts
    <3>2. CASE k \in kids[d]
      BY <1>k, <2>1, <2>h, <2>n, <3>1, <3>2
    <3>3. CASE k \notin kids[d]
      <4>1. k = w.key /\ w.parent = d
        <5>1. CASE UNCHANGED <<tab, kids>>
          BY <3>3, <5>1
        <5>2. CASE Puts({w.key}, w.parent, [j \in {w.key} |-> w.rev])
          <6>1. kids'[d] = IF d = w.parent THEN kids[d] \cup {w.key} ELSE kids[d] \ {w.key}
            BY <1>0, <5>2 DEF Puts
          <6> QED BY <3>3, <6>1
        <5> QED BY <3>1, <5>1, <5>2
      <4> QED BY <1>k, <1>p, <2>1, <3>1, <4>1 DEF InfoSoundInv
    <3> QED BY <3>2, <3>3
  <2>5. CASE InfoFails \/ ApplyDeleted
    <3>1. PICK e \in Keys : \E R \in SUBSET tab :
           /\ "info" \in mayfail \/ rparent[e] \in {Trash, None}
           /\ InfoFails => e = need
           /\ tab' = tab \ R /\ e \notin tab' /\ Root \notin R /\ Dangling \notin R
           /\ \A j \in R : j # e => par[j] \in R
           /\ \A j \in tab \ R : par'[j] = IF par[j] \in R THEN Dangling ELSE par[j]
           /\ \A x \in Dirs : kids'[x] = IF x \in R THEN {} ELSE kids[x] \ {e}
           /\ \A n \in Nodes : rrem'[n] = IF n \in R THEN 0 ELSE rrem[n]
           /\ \A x \in Dirs : lrev'[x] = IF x \in R THEN 0 ELSE lrev[x]
      BY <2>5, GoneFacts
    <3>r. PICK R \in SUBSET tab :
           /\ tab' = tab \ R
           /\ kids'[d] = IF d \in R THEN {} ELSE kids[d] \ {e}
           /\ lrev'[d] = IF d \in R THEN 0 ELSE lrev[d]
      BY <1>0, <3>1
    <3>2. lrev'[d] = lrev[d] /\ k \in kids[d] /\ d \in tab
      BY <1>0, <3>r
    <3> QED BY <1>k, <2>1, <2>h, <3>2
  <2>6. CASE Lookup \/ ApplyDone \/ MountInfo
    <3>1. lrev'[d] = lrev[d] /\ k \in kids[d]
      BY <1>0, <2>6, FillFacts
    <3> QED BY <1>k, <2>1, <2>h, <2>n, <3>1
  <2> QED BY <1>2, <2>2, <2>3, <2>4, <2>5, <2>6, EntrySteps
<1> QED BY <1>1, <1>2

LEMMA FillSoundKept ==
  ASSUME TreeInv, TreeInv', RevInv, FillSoundInv, [Next]_vars
  PROVE  FillSoundInv'
<1>0. /\ Root \in Dirs /\ Root \notin Keys /\ dir \in Dirs /\ dir' \in Dirs /\ None \notin Dirs
      /\ \A d \in Dirs : d # Root => d \in Folders
  BY RemoteAssumption DEF Dirs, Nodes, Keys, TreeInv, TypeOK
<1>1. CASE Handler \/ Others
  <2>1. RemoteStep
    BY <1>1, RemoteSteps
  <2>2. dir' = dir /\ UNCHANGED <<kids, rrem>> /\ (pc' \in {"folders", "files"} => pc' = pc)
    BY <2>1 DEF RemoteStep
  <2>3. ASSUME pc' = "files", dir # Root, rrem[dir] = rrev'[dir], rparent'[dir] \in Dirs,
               NEW k \in kids[dir]
        PROVE  k \in Keys /\ rparent'[k] = dir
    <3>1. rrev'[dir] <= devrev /\ k \in Keys
      <4>1. rrem[dir] \in Nat /\ rrem[dir] <= rrev[dir] /\ rrev[dir] <= devrev
            /\ rrev[dir] \in Nat /\ devrev \in Nat
        BY <1>0, LocalPast
      <4>2. k \in Keys
        BY <1>0, <2>2, <2>3 DEF TreeInv, TypeOK
      <4> QED BY <2>3, <4>1, <4>2
    <3>2. /\ rrev'[dir] = rrev[dir] /\ rparent[dir] \in Dirs
          /\ rparent[k] = dir /\ rparent'[k] # dir => rparent'[dir] = None
      BY <1>0, <2>1, <2>3, <3>1, RemoteFixed
    <3>3. rparent[k] = dir
      BY <2>2, <2>3, <3>2 DEF FillSoundInv, Content
    <3> QED BY <1>0, <2>3, <3>1, <3>2, <3>3
  <2> QED BY <2>2, <2>3 DEF FillSoundInv, Content
<1>2. CASE Lookup \/ ApplyDone \/ MountInfo
  BY <1>0, <1>2, FillFacts DEF FillSoundInv
<1>3. CASE ListFolders
  <2>1. /\ pc = "folders" /\ pc' = "files" /\ dir' = dir /\ rparent' = rparent
        /\ \E new \in SUBSET Keys : Puts(new, dir, rrev) /\ \A j \in new : rparent[j] = dir
    BY <1>3, ListFacts DEF ListFolders, ListFiles, At, remote
  <2>2. \A k \in kids'[dir] : k \in Keys /\ rparent[k] = dir
    BY <1>0, <2>1 DEF Puts, FillSoundInv
  <2> QED BY <2>1, <2>2 DEF FillSoundInv, Content
<1>4. CASE UNCHANGED vars
  BY <1>4 DEF vars, remote, entries, control, FillSoundInv, Content
<1>5. CASE ~(Handler \/ Others \/ Lookup \/ ApplyDone \/ MountInfo \/ ListFolders \/ UNCHANGED vars)
  <2>1. pc' \notin Filling
    <3>1. EndUpdate => pc' = "housekeep"
      BY NoneDisputed DEF TreeInv, EndUpdate
    <3>2. ret \notin Filling
      BY DEF TreeInv, TypeOK, Filling
    <3> QED BY <1>5, <3>1, <3>2 DEF Next, Holder, Filling, Return, FetchInfo, ListFails, ListFiles,
        InfoFails, InfoAnswers, Unwind, GetChanges, GetChangesFails, ApplyDeleted, ApplyIgnored,
        ApplyUpdated, HousekeepOrphan, HousekeepDone, MountStatus, GetStatus, At
  <2> QED BY <2>1 DEF FillSoundInv, Filling
<1> QED BY <1>1, <1>2, <1>3, <1>4, <1>5

LEMMA RootSoundKept ==
  ASSUME TreeInv, TreeInv', PlaceInv, PlaceInv', RevInv, InfoSoundInv, RootSoundInv, [Next]_vars
  PROVE  RootSoundInv'
<1> SUFFICES ASSUME pc' # "apply", ret' # "apply", rrev'[Root] <= Bound', NEW k \in kids'[Root]
             PROVE  k \in Keys /\ rparent'[k] = Root
  BY DEF RootSoundInv, Content
<1>0. /\ Root \in Dirs /\ Root \in Nodes /\ Root \notin Folders /\ Root \notin Keys
  BY RemoteAssumption DEF Dirs, Nodes, Keys
<1>k. k \in Keys
  BY <1>0 DEF TreeInv, TypeOK
<1>1. CASE Handler \/ Others
  <2>1. RemoteStep /\ Bound' = Bound
    BY <1>1, RemoteSteps, BoundKept
  <2>2. Bound \in Nat /\ Bound <= devrev /\ rrev'[Root] \in Nat /\ devrev \in Nat
    <3>1. rrev'[Root] \in Nat
      BY <1>0 DEF TreeInv, TypeOK, RemoteTypeOK, Revs
    <3> QED BY <3>1, BoundPast, Numbers
  <2>3. rrev'[Root] <= devrev
    BY <2>1, <2>2
  <2>4. rrev'[Root] = rrev[Root] /\ (rparent[k] = Root => rparent'[k] = Root)
    BY <1>0, <1>k, <2>1, <2>3, RemoteFixed
  <2>5. k \in kids[Root] /\ pc # "apply" /\ ret # "apply"
    BY <2>1 DEF RemoteStep
  <2> QED BY <1>k, <2>1, <2>4, <2>5 DEF RootSoundInv, Content
<1>2. CASE ~(Handler \/ Others)
  <2>1. rparent' = rparent /\ rrev' = rrev
    BY <1>2, EntrySteps
  <2>h. ASSUME Bound' = Bound, pc # "apply", ret # "apply", k \in kids[Root] PROVE rparent'[k] = Root
    BY <2>1, <2>h DEF RootSoundInv, Content
  <2>2. CASE GetChanges \/ ApplyDeleted \/ ApplyIgnored \/ ApplyUpdated
    BY <2>2 DEF GetChanges, ApplyDeleted, ApplyIgnored, ApplyUpdated, FetchInfo, At
  <2>3. CASE MountStatus
    <3>1. tab = {} /\ kids' = kids
      BY <2>3 DEF MountStatus, entries, At, PlaceInv
    <3> QED BY <1>0, <3>1 DEF TreeInv, ChildrenAgree
  <2>4. CASE ApplyDone \/ MountInfo
    <3>1. dir' = Root
      BY <2>4, FillFacts DEF Lookup, ApplyDone, MountInfo, At
    <3> QED BY <1>0, <2>4, <3>1, FillFacts
  <2>5. CASE InfoFails \/ Unwind
    <3>1. pc # "apply" /\ ret # "apply" /\ Bound' = Bound
      BY <2>5, BoundSteps DEF InfoFails, Unwind, Return, At, GetChanges, MountStatus
    <3>2. CASE k \in kids[Root]
      BY <1>k, <2>h, <3>1, <3>2
    <3>3. CASE k \notin kids[Root]
      <4>1. Unwind
        <5>1. ASSUME InfoFails PROVE FALSE
          <6>1. EntriesTyped /\ ChildrenAgree /\ need \in Keys /\ Remove(need)
            BY <5>1, TypeParts DEF TreeInv, InfoFails, ControlInv, At
          <6>2. PICK R \in SUBSET tab : \A d \in Dirs : kids'[d] = IF d \in R THEN {} ELSE kids[d] \ {need}
            BY <6>1, RemoveFacts
          <6>3. kids'[Root] \subseteq kids[Root]
            BY <1>0, <6>2
          <6> QED BY <3>3, <6>3
        <5> QED BY <2>5, <5>1
      <4>2. PICK w \in Waiting : k = w.key /\ w.parent = Root
        <5>1. PICK w \in Waiting :
                 \/ Puts({w.key}, w.parent, [j \in {w.key} |-> w.rev])
                 \/ UNCHANGED <<tab, kids>>
          BY <4>1, UnwindFacts
        <5>2. CASE UNCHANGED <<tab, kids>>
          BY <3>3, <5>2
        <5>3. CASE Puts({w.key}, w.parent, [j \in {w.key} |-> w.rev])
          <6>1. kids'[Root] = IF Root = w.parent THEN kids[Root] \cup {w.key} ELSE kids[Root] \ {w.key}
            BY <1>0, <5>3 DEF Puts
          <6> QED BY <3>3, <6>1
        <5> QED BY <5>1, <5>2, <5>3
      <4>3. Bound \in Nat /\ rrev[Root] \in Nat /\ rrev[Root] <= Bound
        BY <1>0, <2>1, <3>1, BoundPast, Numbers
      <4>4. rparent[k] # Root => rrev[Root] > Bound
        BY <4>2 DEF InfoSoundInv
      <4> QED BY <1>k, <2>1, <4>3, <4>4
    <3> QED BY <3>2, <3>3
  <2>6. CASE ListFolders \/ ListFiles
    <3>1. PICK new \in SUBSET Keys :
            /\ Puts(new, dir, rrev) /\ \A j \in new : rparent[j] = dir
      BY <2>6, ListFacts
    <3>2. pc # "apply" /\ ret # "apply" /\ Bound' = Bound
      BY <2>6, BoundSteps DEF ListFolders, ListFiles, At, GetChanges, MountStatus, PlaceInv, Filling
    <3>3. k \in kids[Root] \/ (k \in new /\ dir = Root)
      BY <1>0, <3>1 DEF Puts
    <3> QED BY <1>k, <2>1, <2>h, <3>1, <3>2, <3>3
  <2>7. CASE Lookup
    <3>1. k \in kids[Root]
      BY <1>0, <2>7, FillFacts
    <3>2. pc # "apply" /\ ret # "apply" /\ Bound' = Bound
      BY <2>7, BoundSteps DEF Lookup, At, GetChanges, MountStatus, PlaceInv, Asking, Filling
    <3> QED BY <1>k, <2>h, <3>1, <3>2
  <2>8. CASE \/ ListFails \/ InfoAnswers \/ GetStatus \/ GetChangesFails
             \/ EndUpdate \/ HousekeepOrphan \/ HousekeepDone
    <3>1. kids' = kids
      BY <2>8, QuietSteps DEF QuietStep
    <3>2. pc # "apply" /\ ret # "apply"
      BY <2>8 DEF ListFails, InfoAnswers, GetStatus, GetChangesFails, EndUpdate, HousekeepOrphan,
         HousekeepDone, At, PlaceInv, Asking, Filling
    <3>3. Bound' = Bound
      BY <2>8, BoundSteps DEF ListFails, InfoAnswers, GetStatus, GetChangesFails, EndUpdate,
         HousekeepOrphan, HousekeepDone, At, GetChanges, MountStatus
    <3> QED BY <1>k, <2>h, <3>1, <3>2, <3>3
  <2>9. CASE UNCHANGED vars
    <3>1. Bound' = Bound /\ pc # "apply" /\ ret # "apply" /\ k \in kids[Root]
      BY <2>9 DEF vars, entries, control, Bound, Updating
    <3> QED BY <1>k, <2>h, <3>1
  <2> QED BY <1>2, <2>2, <2>3, <2>4, <2>5, <2>6, <2>7, <2>8, <2>9 DEF Next, Holder
<1> QED BY <1>1, <1>2

LEMMA InfoSoundKept ==
  ASSUME TreeInv, TreeInv', PlaceInv, PlaceInv', RevInv, InfoInv, InfoSoundInv, [Next]_vars
  PROVE  InfoSoundInv'
<1>0. Root \in Dirs /\ Root \in Nodes /\ Root # Trash /\ Root # None /\ None \notin Dirs
  BY RemoteAssumption DEF Dirs, Nodes, Keys
<1> SUFFICES ASSUME NEW w \in Waiting', rparent'[w.key] # w.parent
             PROVE  /\ w.parent \in Folders /\ rparent'[w.parent] \in Dirs =>
                         lrev'[w.parent] < rrev'[w.parent]
                    /\ w.parent = Root => rrev'[Root] > Bound'
  BY DEF InfoSoundInv
<1>1. CASE Handler \/ Others
  <2>1. RemoteStep /\ Bound' = Bound /\ Bound \in Nat /\ Bound <= devrev
    BY <1>1, RemoteSteps, BoundKept, BoundPast
  <2>2. w \in Waiting /\ w.key \in Keys
    BY <2>1, WaitingTyped DEF RemoteStep, Waiting
  <2>3. rrev'[Root] \in Nat /\ rrev[Root] \in Nat /\ devrev \in Nat
    BY <1>0, Numbers DEF TreeInv, TypeOK, RemoteTypeOK, Revs
  <2>4. ASSUME NEW d \in Dirs, w.parent = d, rrev'[d] <= devrev, d = Root \/ rparent'[d] \in Dirs
        PROVE  /\ rparent[w.key] # d /\ rrev'[d] = rrev[d]
               /\ d \in Folders => rparent[d] \in Dirs
    <3>1. /\ rrev'[d] = rrev[d] /\ (d \in Folders /\ rparent'[d] \in Dirs => rparent[d] \in Dirs)
          /\ rparent[w.key] = d /\ rparent'[w.key] # d => d \in Folders /\ rparent'[d] = None
      BY <2>1, <2>2, <2>4, RemoteFixed
    <3>2. Root \notin Folders
      BY RemoteAssumption DEF Keys
    <3> QED BY <1>0, <2>4, <3>1, <3>2
  <2>5. ASSUME NEW d \in Folders, w.parent = d, rparent'[d] \in Dirs
        PROVE  lrev'[d] < rrev'[d]
    <3>1. d \in Dirs /\ lrev'[d] = lrev[d]
      BY <2>1 DEF RemoteStep, Dirs
    <3>2. lrev[d] \in Nat /\ devrev \in Nat /\ lrev[d] <= devrev /\ rrev'[d] \in Nat
      <4>1. d \in Nodes
        BY <3>1, Numbers
      <4>2. rrev'[d] \in Nat
        BY <4>1 DEF TreeInv, TypeOK, RemoteTypeOK, Revs
      <4>3. /\ lrev[d] \in Nat /\ rrem[d] \in Nat /\ rrev[d] \in Nat /\ devrev \in Nat
            /\ lrev[d] <= rrem[d] /\ rrem[d] <= rrev[d] /\ rrev[d] <= devrev
        BY <3>1, LocalPast
      <4> QED BY <4>2, <4>3
    <3>3. CASE rrev'[d] <= devrev
      <4>1. rparent[w.key] # d /\ rrev'[d] = rrev[d] /\ rparent[d] \in Dirs
        BY <2>4, <2>5, <3>1, <3>3
      <4>2. lrev[d] < rrev[d]
        BY <2>2, <2>5, <4>1 DEF InfoSoundInv
      <4> QED BY <3>1, <4>1, <4>2
    <3>4. CASE ~(rrev'[d] <= devrev)
      BY <3>1, <3>2, <3>4
    <3> QED BY <3>3, <3>4
  <2>6. ASSUME w.parent = Root PROVE rrev'[Root] > Bound'
    <3>1. CASE rrev'[Root] <= devrev
      <4>1. rparent[w.key] # Root /\ rrev'[Root] = rrev[Root]
        BY <1>0, <2>4, <2>6, <3>1
      <4> QED BY <2>1, <2>2, <2>6, <4>1 DEF InfoSoundInv
    <3>2. CASE ~(rrev'[Root] <= devrev)
      BY <2>1, <2>3, <3>2
    <3> QED BY <3>1, <3>2
  <2> QED BY <2>5, <2>6
<1>2. CASE ~(Handler \/ Others)
  <2>1. /\ UNCHANGED <<rparent, rrev, devrev>>
        /\ Bound' = Bound
        /\ \/ InfoAnswers
           \/ Waiting' \subseteq Waiting /\ \A d \in Dirs : lrev'[d] = lrev[d] \/ lrev'[d] = 0
    BY <1>2, WaitingKept DEF remote
  <2>2. CASE w \in Waiting
    <3>1. \A d \in Dirs : lrev'[d] = lrev[d] \/ lrev'[d] = 0
      BY <2>1 DEF InfoAnswers, entries
    <3>2. /\ w.parent \in Folders /\ rparent[w.parent] \in Dirs => lrev[w.parent] < rrev[w.parent]
          /\ w.parent = Root => rrev[Root] > Bound
      BY <2>1, <2>2 DEF InfoSoundInv
    <3>3. \A d \in Folders : d \in Dirs /\ lrev[d] \in Nat /\ rrev[d] \in Nat
      BY Numbers DEF Dirs
    <3> QED BY <2>1, <3>1, <3>2, <3>3
  <2>3. CASE w \notin Waiting
    <3>1. InfoAnswers
      BY <2>1, <2>3
    <3>2. Waiting' = Waiting \cup {[key |-> need, parent |-> rparent[need], rev |-> rrev[need]]}
      BY <3>1, AnswerFacts
    <3>3. w.parent = rparent[w.key]
      BY <2>3, <3>2
    <3> QED BY <2>1, <3>3
  <2> QED BY <2>2, <2>3
<1> QED BY <1>1, <1>2

LEMMA CleanKept ==
  ASSUME TreeInv, TreeInv', PlaceInv, PlaceInv', RevInv, TodoInv, CleanInv, [Next]_vars
  PROVE  CleanInv'
<1> DEFINE Fine(k) == par[k] = Dangling \/ k \in kids[par[k]]
<1> SUFFICES ASSUME Housekeeping', treerev' = devrev'
             PROVE  /\ \A w \in Waiting' : Exists(w.key)'
                    /\ \A k \in tab' : ~Exists(k)' /\ Bucket[k] <= cursor' /\ need' # k => Fine(k)'
  BY DEF CleanInv
<1>b. \A k \in tab : k \in Keys /\ k # None /\ Bucket[k] \in Nat \ {0}
  BY Numbers, RemoteAssumption, FolderTreeAssumption DEF Nodes
<1>1. CASE Handler \/ Others
  <2>1. devrev' > devrev /\ treerev' = treerev
    BY <1>1, RemoteSteps DEF RemoteStep, Shift
  <2>2. devrev \in Nat /\ devrev' \in Nat /\ treerev <= devrev /\ treerev \in Nat
    BY Numbers DEF RevInv, TreeInv, TypeOK, RemoteTypeOK, Revs
  <2> QED BY <2>1, <2>2
<1>2. CASE ~(Handler \/ Others)
  <2>1. /\ rparent' = rparent /\ devrev' = devrev
        /\ \A k : Exists(k)' = Exists(k)
    <3>1. rparent' = rparent /\ devrev' = devrev
      BY <1>2, EntrySteps
    <3> QED BY <3>1 DEF Exists
  <2>2. CASE EndUpdate
    <3>1. pc' = "housekeep" /\ cursor' = 0
      BY <2>2, NoneDisputed DEF TreeInv, EndUpdate, PlaceInv, At, Asking, Filling, Housekeeping
    <3>2. Waiting' = {}
      BY <3>1 DEF PlaceInv, Asking, Waiting
    <3>3. tab' = tab
      BY <2>2 DEF EndUpdate
    <3> QED BY <1>b, <3>1, <3>2, <3>3
  <2>3. CASE HousekeepOrphan
    <3>1. PICK j \in Ahead : /\ \A o \in Ahead : Bucket[j] <= Bucket[o]
                             /\ cursor' = Bucket[j] /\ need' = j
      BY <2>3 DEF HousekeepOrphan, FetchInfo
    <3>2. /\ pc = "housekeep" /\ UNCHANGED <<tab, par, kids, stack, treerev>> /\ need = None
      BY <2>3 DEF HousekeepOrphan, At, PlaceInv
    <3>3. Waiting' = {}
      BY <3>2 DEF Waiting, PlaceInv, Asking
    <3>4. ASSUME NEW k \in tab, ~Exists(k), Bucket[k] <= Bucket[j], j # k PROVE Fine(k)
      <4>1. CASE Bucket[k] <= cursor
        BY <1>b, <2>1, <3>2, <3>4, <4>1 DEF CleanInv, Housekeeping
      <4>2. CASE ~(Bucket[k] <= cursor)
        <5>1. Bucket[k] > cursor /\ Bucket[j] # Bucket[k] /\ Bucket[j] \in Nat
          <6>1. cursor \in Nat
            BY DEF TreeInv, TypeOK
          <6> QED BY <1>b, <3>4, <4>2, <6>1, FolderTreeAssumption DEF Ahead
        <5>2. k \notin Ahead
          BY <1>b, <3>1, <3>4, <5>1
        <5> QED BY <3>4, <5>1, <5>2 DEF Ahead, Orphan
      <4> QED BY <4>1, <4>2
    <3>5. \A k \in tab : Fine(k)' = Fine(k)
      BY <3>2
    <3> HIDE DEF Fine
    <3> QED BY <2>1, <3>1, <3>2, <3>3, <3>4, <3>5
  <2>4. CASE InfoFails
    <3>1. PICK e \in Keys, R \in SUBSET tab :
           /\ e = need
           /\ tab' = tab \ R /\ e \notin tab' /\ Dangling \notin R
           /\ \A k \in tab \ R : par'[k] = IF par[k] \in R THEN Dangling ELSE par[k]
           /\ \A d \in Dirs : kids'[d] = IF d \in R THEN {} ELSE kids[d] \ {e}
      BY <2>4, GoneFacts
    <3>2. Housekeeping /\ UNCHANGED <<treerev, cursor, stack>>
      BY <2>4 DEF InfoFails, At, Return, Housekeeping, PlaceInv, Asking
    <3>3. Waiting' = Waiting
      BY <3>2 DEF Waiting
    <3>4. ASSUME NEW k \in tab', ~Exists(k), Bucket[k] <= cursor PROVE Fine(k)'
      <4>1. k \in tab /\ k \notin R /\ k # need
        BY <3>1, <3>4
      <4>2. Fine(k)
        BY <2>1, <3>2, <3>4, <4>1 DEF CleanInv
      <4>3. CASE par[k] \in R \cup {Dangling}
        BY <3>1, <4>1, <4>3
      <4>4. CASE par[k] \notin R \cup {Dangling}
        <5>1. par[k] \in Dirs
          BY <4>1, <4>4 DEF RevInv
        <5> QED BY <3>1, <4>1, <4>2, <4>4, <5>1
      <4> QED BY <4>3, <4>4
    <3> HIDE DEF Fine
    <3> QED BY <2>1, <3>2, <3>3, <3>4 DEF CleanInv
  <2>5. CASE InfoAnswers
    <3>1. /\ need \in Keys
          /\ Waiting' = Waiting \cup {[key |-> need, parent |-> rparent[need], rev |-> rrev[need]]}
      BY <2>5, AnswerFacts
    <3>2. /\ Exists(need) /\ UNCHANGED <<tab, par, kids, treerev, cursor, ret>> /\ Housekeeping
      BY <2>5 DEF InfoAnswers, entries, At, Housekeeping
    <3>3. \A k \in tab : Fine(k)' = Fine(k)
      BY <3>2
    <3> HIDE DEF Fine
    <3>4. \A k \in tab : ~Exists(k) /\ Bucket[k] <= cursor => Fine(k)
      BY <2>1, <3>2 DEF CleanInv, Fine
    <3> QED BY <2>1, <3>1, <3>2, <3>3, <3>4 DEF CleanInv
  <2>6. CASE Unwind
    <3>1. PICK w \in Waiting :
           /\ w.key \in Keys
           /\ Waiting' \subseteq Waiting
           /\ \/ Puts({w.key}, w.parent, [k \in {w.key} |-> w.rev])
              \/ UNCHANGED <<tab, par, kids>>
      BY <2>6, UnwindFacts
    <3>2. Housekeeping /\ UNCHANGED <<treerev, cursor>> /\ need = None
      BY <2>6 DEF Unwind, At, Return, Housekeeping, PlaceInv
    <3>3. \A v \in Waiting : Exists(v.key)
      BY <2>1, <3>2 DEF CleanInv
    <3>4. ASSUME NEW k \in tab', ~Exists(k), Bucket[k] <= cursor PROVE Fine(k)'
      <4>1. k # w.key
        BY <3>3, <3>4
      <4>2. k \in tab
        BY <3>1, <3>4, <4>1 DEF Puts
      <4>3. Fine(k)
        BY <1>b, <2>1, <3>2, <3>4, <4>2 DEF CleanInv
      <4>4. par'[k] = par[k]
        BY <1>b, <3>1, <4>1, <4>2 DEF Puts
      <4>5. CASE par[k] = Dangling
        BY <4>4, <4>5
      <4>6. CASE par[k] # Dangling
        <5>1. par[k] \in Dirs /\ k \in kids[par[k]]
          BY <4>2, <4>3, <4>6 DEF RevInv
        <5>2. k \in kids'[par[k]]
          BY <3>1, <4>1, <5>1 DEF Puts
        <5> QED BY <4>4, <5>2
      <4> QED BY <4>5, <4>6
    <3> HIDE DEF Fine
    <3> QED BY <2>1, <3>1, <3>2, <3>3, <3>4
  <2>7. CASE ~(EndUpdate \/ HousekeepOrphan \/ InfoFails \/ InfoAnswers \/ Unwind \/ UNCHANGED vars)
    <3>1. ret \notin Filling \cup {"housekeep"} \/ pc \in Asking
      BY DEF PlaceInv, TreeInv, TypeOK, Asking, Filling
    <3>2. ~Housekeeping'
      BY <1>2, <2>7, <3>1 DEF Next, Holder, Filling, Asking, Housekeeping, At, Return, FetchInfo,
        FillFolder, PlaceInv, ListFails, ListFolders, ListFiles, GetChanges, GetChangesFails,
        ApplyDeleted, ApplyIgnored, ApplyUpdated, ApplyDone, HousekeepDone, MountStatus, MountInfo,
        GetStatus, Lookup
    <3> QED BY <3>2
  <2>8. CASE UNCHANGED vars
    <3>1. UNCHANGED <<tab, par, kids, treerev, cursor, need>> /\ Waiting' = Waiting /\ Housekeeping
      BY <2>8 DEF vars, entries, control, Waiting, Housekeeping
    <3>2. \A k \in tab : Fine(k)' = Fine(k)
      BY <3>1
    <3>3. \A k \in tab : ~Exists(k) /\ Bucket[k] <= cursor /\ need # k => Fine(k)
      BY <2>1, <3>1 DEF CleanInv
    <3> HIDE DEF Fine
    <3> QED BY <2>1, <3>1, <3>2, <3>3 DEF CleanInv
  <2> QED BY <1>2, <2>2, <2>3, <2>4, <2>5, <2>6, <2>7, <2>8
<1> QED BY <1>1, <1>2

-----------------------------------------------------------------------------
(* The invariant. *)

\* What holds of any table, however it was made.
KeepInv ==
  /\ TreeInv /\ PlaceInv /\ RevInv
  /\ TodoInv /\ InfoInv
  /\ AgreeInv /\ HeldInv
  /\ CompleteInv /\ FillInv /\ RootInv

\* What holds of a table that this mount has made.
ExactInv == SoundInv /\ RootSoundInv /\ FillSoundInv /\ InfoSoundInv /\ CleanInv

ViewInv == KeepInv /\ ExactInv

LEMMA KeepStep == KeepInv /\ [Next]_vars => KeepInv'
<1> SUFFICES ASSUME KeepInv, [Next]_vars PROVE KeepInv'
  OBVIOUS
<1>1. /\ TreeInv /\ PlaceInv /\ RevInv /\ TodoInv /\ InfoInv /\ AgreeInv /\ HeldInv
      /\ CompleteInv /\ FillInv /\ RootInv
  BY DEF KeepInv
<1>2. TreeInv'
  BY <1>1, Inductive
<1>3. PlaceInv'
  BY <1>1, PlaceKept
<1>4. RevInv'
  BY <1>1, <1>2, RevKept
<1>5. TodoInv'
  BY <1>1, <1>2, TodoKept
<1>6. InfoInv'
  BY <1>1, <1>2, <1>3, InfoKept
<1>7. AgreeInv'
  BY <1>1, <1>2, AgreeKept
<1>8. HeldInv'
  BY <1>1, <1>2, HeldKept
<1>9. CompleteInv'
  BY <1>1, <1>2, <1>4, CompleteKept
<1>10. FillInv'
  BY <1>1, <1>2, <1>3, <1>4, FillKept
<1>11. RootInv'
  BY <1>1, <1>2, <1>3, RootKept
<1> QED BY <1>2, <1>3, <1>4, <1>5, <1>6, <1>7, <1>8, <1>9, <1>10, <1>11 DEF KeepInv

LEMMA ViewStep == ViewInv /\ [Next]_vars => ViewInv'
<1> SUFFICES ASSUME ViewInv, [Next]_vars PROVE ViewInv'
  OBVIOUS
<1>1. /\ TreeInv /\ PlaceInv /\ RevInv /\ TodoInv /\ InfoInv /\ FillInv
      /\ SoundInv /\ RootSoundInv /\ FillSoundInv /\ InfoSoundInv /\ CleanInv
  BY DEF ViewInv, KeepInv, ExactInv
<1>2. KeepInv'
  BY KeepStep DEF ViewInv
<1>3. TreeInv' /\ PlaceInv'
  BY <1>2 DEF KeepInv
<1>4. SoundInv'
  BY <1>1, <1>3, SoundKept
<1>5. RootSoundInv'
  BY <1>1, <1>3, RootSoundKept
<1>6. FillSoundInv'
  BY <1>1, <1>3, FillSoundKept
<1>7. InfoSoundInv'
  BY <1>1, <1>3, InfoSoundKept
<1>8. CleanInv'
  BY <1>1, <1>3, CleanKept
<1> QED BY <1>2, <1>4, <1>5, <1>6, <1>7, <1>8 DEF ViewInv, ExactInv

LEMMA ViewInitially == Init => ViewInv
<1> SUFFICES ASSUME Init PROVE ViewInv
  OBVIOUS
<1>1. TreeInv
  BY Initially
<1>2. /\ tab = {} /\ stack = <<>> /\ todo = {} /\ need = None /\ cursor = 0
      /\ pc = "mount" /\ ret = "idle" /\ treerev = 0 /\ endrev = 0 /\ dir = Root
      /\ \A n \in Nodes : rrem[n] = 0
      /\ \A d \in Dirs : lrev[d] = 0 /\ kids[d] = {}
  BY DEF Init
<1>3. Waiting = {} /\ Bound = 0 /\ ~Housekeeping
  BY <1>2 DEF Waiting, Bound, Updating, Housekeeping
<1>4. Root \in Dirs /\ Root \in Nodes /\ None \notin Dirs /\ Folders \subseteq Dirs
  BY RemoteAssumption DEF Dirs, Nodes, Keys
<1>5. /\ \A n \in Nodes : rrev[n] \in {0, 1}
      /\ rrev[Root] = 1 /\ devrev = 1
      /\ \A k \in Keys : rparent[k] # None => rrev[k] = 1 /\ k \in Live
  <2>1. \A k \in Keys : k \in Nodes /\ k # Root
    BY <1>4, Numbers, RemoteAssumption DEF Nodes
  <2> QED BY <1>4, <2>1 DEF Init, RemoteInit
<1>6. ASSUME NEW k \in Keys, rparent[k] \in Dirs PROVE rrev[k] >= 1 /\ rrev[rparent[k]] >= 1
  <2>1. rrev[k] = 1 /\ k \in Live /\ k # Root
    BY <1>4, <1>5, <1>6, RemoteAssumption DEF Nodes
  <2>2. rparent[k] \in Live
    BY <1>1, <2>1, LiveParent DEF TreeInv, TypeOK
  <2>3. CASE rparent[k] = Root
    BY <1>5, <2>1, <2>3
  <2>4. CASE rparent[k] # Root
    <3>1. rparent[k] \in Keys /\ rparent[rparent[k]] \in Dirs
      BY <1>1, <2>2, <2>4, LiveParent DEF TreeInv, TypeOK
    <3> QED BY <1>4, <1>5, <2>1, <3>1
  <2> QED BY <2>3, <2>4
<1>7. PlaceInv
  BY <1>2, <1>3, <1>4 DEF PlaceInv, Asking, Filling
<1>r. RemoteInv
  <2>1. ASSUME NEW k \in Keys, NEW d \in Folders, rparent[k] = d PROVE rparent[d] # None
    <3>1. d \in Live /\ d # Root
      BY <1>1, <1>4, <1>5, <2>1, LiveParent, Numbers, RemoteAssumption DEF TreeInv, TypeOK, Nodes, Keys
    <3> QED BY <1>1, <1>4, <3>1, LiveParent DEF TreeInv, TypeOK
  <2>2. ~crowded => Within(Root)
    BY DEF Init, RemoteInit
  <2> QED BY <2>1, <2>2 DEF RemoteInv
<1>8. RevInv
  BY <1>1, <1>2, <1>4, <1>5, <1>6, <1>r, Numbers DEF RevInv
<1>9. TodoInv /\ InfoInv /\ AgreeInv /\ HeldInv /\ FillInv
  BY <1>2, <1>3 DEF TodoInv, InfoInv, AgreeInv, HeldInv, FillInv, Filling
<1>10. CompleteInv
  BY <1>2, <1>4, <1>6 DEF CompleteInv
<1>11. RootInv
  <2>1. ASSUME NEW k \in Keys, rparent[k] = Root PROVE ~(rrev[k] <= Bound)
    BY <1>1, <1>3, <1>4, <1>6, <2>1, Numbers
  <2> QED BY <2>1 DEF RootInv
<1>12. ExactInv
  BY <1>2, <1>3, <1>4 DEF ExactInv, SoundInv, RootSoundInv, FillSoundInv, InfoSoundInv, CleanInv
<1> QED BY <1>1, <1>7, <1>8, <1>9, <1>10, <1>11, <1>12 DEF ViewInv, KeepInv

-----------------------------------------------------------------------------
(* What the invariant says once the tree has caught up. *)

LEMMA NothingPending ==
  ASSUME TreeInv, PlaceInv, pc \in {"idle", "housekeep"}
  PROVE  /\ ret = "idle" /\ ~Updating /\ Bound = treerev /\ need = None
         /\ \A k \in Keys : ~Pending(k)
<1>1. ret = "idle" /\ need = None /\ todo = {} /\ Waiting = {}
  BY NoneWaiting DEF PlaceInv, Asking, Filling
<1> QED BY <1>1, RemoteAssumption DEF Updating, Bound, Pending, Nodes

\* A walk that takes only what is not stale sees the remote as it is.
LEMMA FreshExact ==
  ASSUME ViewInv, pc \in {"idle", "housekeep"}, treerev = devrev
  PROVE  \A d \in Fresh :
           /\ d \in Dirs /\ kids[d] \subseteq Content(Keys, d)
           /\ pc = "idle" /\ Told(d) /\ "info" \notin mayfail => Content(Keys, d) \subseteq kids[d]
<1>1. /\ TreeInv /\ PlaceInv /\ RevInv /\ HeldInv /\ CompleteInv /\ RootInv
      /\ SoundInv /\ RootSoundInv
  BY DEF ViewInv, KeepInv, ExactInv
<1>2. ret = "idle" /\ ~Updating /\ Bound = devrev /\ \A k \in Keys : ~Pending(k)
  BY <1>1, NothingPending
<1>3. /\ Root \in Nodes /\ Root \notin Keys /\ Root \in Dirs /\ Folders \subseteq Keys /\ Keys \subseteq Nodes
      /\ \A d \in Dirs : d # Root => d \in Folders
  BY RemoteAssumption DEF Nodes, Dirs, Keys
<1> DEFINE Q == {d \in Dirs : \/ d = Root /\ ~Stale(Root)
                              \/ d \in tab /\ d \in Folders /\ rparent[d] \in Dirs /\ lrev[d] = rrev[d]}
<1>4. ASSUME NEW d \in Q PROVE kids[d] \subseteq Content(Keys, d)
  <2>1. CASE d = Root
    BY <1>1, <1>2, <1>3, <2>1 DEF RootSoundInv, RevInv
  <2>2. CASE d # Root
    BY <1>1, <2>2 DEF SoundInv
  <2> QED BY <2>1, <2>2
<1>5. ASSUME NEW d \in Q \cap Dirs, NEW k \in kids[d] \cap Folders, ~Stale(k) PROVE k \in Q
  <2>1. rparent[k] = d /\ k \in Keys
    BY <1>3, <1>4, <1>5 DEF Content
  <2>2. k \in tab /\ par[k] = d
    BY <1>1 DEF TreeInv, ChildrenAgree
  <2>3. rrem[k] = rrev[k]
    BY <1>1, <1>2, <1>3, <2>1, <2>2 DEF HeldInv, RevInv
  <2> QED BY <1>5, <2>1, <2>2, <2>3 DEF Stale, Dirs
<1>6. Fresh \subseteq Q \cap Dirs
  <2>1. ~Stale(Root) => Root \in Q
    BY <1>3
  <2> HIDE DEF Q
  <2> QED BY <1>5, <2>1, FreshWithin
<1>7. ASSUME NEW d \in Q, pc = "idle", Told(d), "info" \notin mayfail,
             NEW k \in Keys, rparent[k] = d
      PROVE  k \in kids[d]
  <2>1. CASE d = Root
    <3>1. rrev[k] <= Bound /\ ~Housekeeping
      BY <1>1, <1>2, <1>3, <1>7 DEF RevInv, Housekeeping
    <3>2. ~Stale(Root)
      BY <1>3, <2>1
    <3>3. rparent[k] = Root /\ pc # "mountinfo"
      BY <1>7, <2>1
    <3>4. k \in kids[Root]
      BY <1>1, <1>2, <1>7, <2>1, <3>1, <3>2, <3>3 DEF RootInv, Told
    <3> QED BY <2>1, <3>4
  <2>2. CASE d # Root
    BY <1>1, <1>7, <2>2 DEF CompleteInv, Told
  <2> QED BY <2>1, <2>2
<1> QED BY <1>4, <1>6, <1>7 DEF Content

LEMMA ChangesFound == KeepInv => ChangesIntegrated
<1> SUFFICES ASSUME KeepInv, pc = "idle", NEW k \in tab, rparent[k] \in Dirs, rrev[k] <= treerev
             PROVE  IF par[k] = rparent[k] THEN rrem[k] = rrev[k]
                    ELSE /\ rparent[k] # Root
                         /\ lrev[rparent[k]] # rrev[rparent[k]] \/ ~Within(rparent[k])
  BY DEF ChangesIntegrated
<1>1. TreeInv /\ PlaceInv /\ HeldInv /\ CompleteInv
  BY DEF KeepInv
<1>2. Bound = treerev /\ k \in Keys /\ ~Pending(k)
  BY <1>1, NothingPending, Numbers
<1>3. par[k] = rparent[k] \/ rparent[k] = Root => par[k] = rparent[k] /\ rrem[k] = rrev[k]
  BY <1>1, <1>2 DEF HeldInv
<1>4. ASSUME rparent[k] # Root, lrev[rparent[k]] = rrev[rparent[k]], Within(rparent[k])
      PROVE  par[k] = rparent[k]
  <2>1. rparent[k] \in Folders
    BY <1>4 DEF Dirs
  <2>2. k \in kids[rparent[k]]
    BY <1>1, <1>2, <1>4, <2>1 DEF CompleteInv
  <2> QED BY <1>1, <2>1, <2>2 DEF TreeInv, ChildrenAgree, Dirs
<1> QED BY <1>3, <1>4

LEMMA Inherits == Spec => []ViewInv
BY ViewInitially, ViewStep, PTL DEF Spec

-----------------------------------------------------------------------------
(* The theorems. *)

\* Whatever fails and whenever the remote changes: an entry of the table is where
\* the remote has it and at its revision, up to the revision the tree claims, or
\* else it waits for a folder that has not been filled since it changed, or that is
\* beyond the limit of get_content.  So the revision folder_tree_update ends with
\* never skips a change (hashtbl.c:1463).
THEOREM NoChangeLost == Spec => []ChangesIntegrated
<1>1. ViewInv => ChangesIntegrated
  BY ChangesFound DEF ViewInv
<1> QED BY <1>1, Inherits, PTL

\* Once the tree is at the remote's revision, every folder that
\* folder_tree_lookup_path takes from the table without filling it lists nothing
\* that the remote folder does not hold.  It lists all of it, unless a get_info
\* failed, or the folder is beyond the limit of get_content, the "temporary hard
\* limit" of folder_get_content.c:94 (the root: or has ever been).
THEOREM ViewsAreAccurate == Spec => []ViewAccurate
<1>1. ViewInv => ViewAccurate
  BY FreshExact DEF ViewAccurate, Current
<1> QED BY <1>1, Inherits, PTL

\* After folder_tree_housekeep every object that the remote has deleted for good
\* has left the table, unless a stale folder still lists it or its parent pointer
\* dangles.
THEOREM HousekeepingIsClean == Spec => HousekeepingCleans
<1>1. ASSUME ViewInv, [Next]_vars, pc = "housekeep", pc' = "idle", treerev = devrev, NEW k \in tab
      PROVE  Exists(k) \/ par[k] = Dangling \/ Listed(k)
  <2>1. TreeInv /\ PlaceInv /\ CleanInv /\ RevInv
    BY <1>1 DEF ViewInv, KeepInv, ExactInv
  <2>2. HousekeepDone
    <3>1. ~(Handler \/ Others)
      <4>1. RemoteStep => pc' = pc \/ pc = "idle"
        BY DEF RemoteStep
      <4> QED BY <1>1, <2>1, <4>1, RemoteSteps
    <3> QED BY <1>1, <3>1 DEF Next, Holder, vars, control, At, ListFails, ListFolders, ListFiles,
        InfoFails, InfoAnswers, Unwind, GetChanges, GetChangesFails, ApplyDeleted, ApplyIgnored,
        ApplyUpdated, ApplyDone, EndUpdate, HousekeepOrphan, FetchInfo, MountStatus, MountInfo,
        GetStatus, Lookup, FillFolder
  <2> SUFFICES ASSUME ~Exists(k), par[k] # Dangling PROVE Listed(k)
    OBVIOUS
  <2>3. need = None /\ k \in Keys /\ k # None
    BY <1>1, <2>1, NothingPending, Numbers, RemoteAssumption DEF Nodes
  <2>4. k \in kids[par[k]]
    <3>1. CASE Bucket[k] <= cursor
      BY <1>1, <2>1, <2>3, <3>1 DEF CleanInv, Housekeeping
    <3>2. CASE ~(Bucket[k] <= cursor)
      <4>1. Bucket[k] > cursor
        BY <2>1, <2>3, <3>2, FolderTreeAssumption DEF TreeInv, TypeOK
      <4> QED BY <2>2, <4>1 DEF HousekeepDone, Ahead, Orphan
    <3> QED BY <3>1, <3>2
  <2>5. par[k] \notin Fresh
    <3> SUFFICES ASSUME par[k] \in Fresh PROVE FALSE
      OBVIOUS
    <3>1. par[k] \in Dirs /\ rparent[k] = par[k]
      BY <1>1, <2>4, FreshExact DEF Content
    <3>2. rparent[k] # None
      BY <3>1, RemoteAssumption DEF Dirs, Nodes, Keys
    <3> QED BY <2>3, <3>2 DEF Exists
  <2> QED BY <2>4, <2>5 DEF Listed
<1>2. ViewInv /\ [Next]_vars =>
        [(pc = "housekeep" /\ pc' = "idle" /\ ~ub /\ treerev = devrev)
           => \A k \in tab : Exists(k) \/ par[k] = Dangling \/ Listed(k)]_vars
  BY <1>1
<1> QED BY <1>2, Inherits, PTL DEF Spec, HousekeepingCleans

=============================================================================
