-------------------------- MODULE FolderTreeProofs --------------------------
(***************************************************************************)
(* Proofs about FolderTree for every set of keys, every revision bound and *)
(* every choice of calls that may fail.                                    *)
(***************************************************************************)
EXTENDS FolderTree, SequenceTheorems, TLAPS

\* The remote's own steps keep its state well typed.
LEMMA ChangeTyped ==
  ASSUME RemoteTypeOK, CanChange,
         NEW newparent \in [Keys -> Dirs \cup {Trash, None}], NEW touched,
         Change(newparent, touched)
  PROVE  RemoteTypeOK'
BY RemoteAssumption DEF RemoteTypeOK, CanChange, Change, Revs

LEMMA RemoteStepTyped ==
  ASSUME RemoteTypeOK, NEW k \in Keys,
         \/ \E p \in Dirs : RemoteCreate(k, p)
         \/ \E p \in Dirs : RemoteMove(k, p)
         \/ RemoteModify(k)
         \/ RemoteTrash(k)
         \/ RemotePurge(k)
  PROVE  RemoteTypeOK'
<1>1. ASSUME NEW p \in Dirs, RemoteCreate(k, p) PROVE RemoteTypeOK'
  <2>1. [rparent EXCEPT ![k] = p] \in [Keys -> Dirs \cup {Trash, None}]
    BY DEF RemoteTypeOK
  <2> QED BY <1>1, <2>1, ChangeTyped DEF RemoteCreate
<1>2. ASSUME NEW p \in Dirs, RemoteMove(k, p) PROVE RemoteTypeOK'
  <2>1. [rparent EXCEPT ![k] = p] \in [Keys -> Dirs \cup {Trash, None}]
    BY DEF RemoteTypeOK
  <2> QED BY <1>2, <2>1, ChangeTyped DEF RemoteMove
<1>3. ASSUME RemoteModify(k) PROVE RemoteTypeOK'
  BY <1>3, ChangeTyped DEF RemoteModify, RemoteTypeOK
<1>4. ASSUME RemoteTrash(k) PROVE RemoteTypeOK'
  <2>1. [rparent EXCEPT ![k] = Trash] \in [Keys -> Dirs \cup {Trash, None}]
    BY DEF RemoteTypeOK
  <2> QED BY <1>4, <2>1, ChangeTyped DEF RemoteTrash
<1>5. ASSUME RemotePurge(k) PROVE RemoteTypeOK'
  <2>1. PICK gone \in SUBSET Keys :
          Change([x \in Keys |-> IF x \in gone THEN None ELSE rparent[x]], {})
    BY <1>5 DEF RemotePurge
  <2>2. [x \in Keys |-> IF x \in gone THEN None ELSE rparent[x]]
          \in [Keys -> Dirs \cup {Trash, None}]
    BY DEF RemoteTypeOK
  <2> QED BY <1>5, <2>1, <2>2, ChangeTyped DEF RemotePurge
<1> QED BY <1>1, <1>2, <1>3, <1>4, <1>5

-----------------------------------------------------------------------------
(* The entries: what adding and removing keep. *)

\* The part of TypeOK about the entries.
EntriesTyped ==
  /\ tab \subseteq Keys
  /\ par \in [Keys -> Nodes \cup {Dangling, None}]
  /\ kids \in [Dirs -> SUBSET Keys]
  /\ rrem \in [Nodes -> Revs]
  /\ lrev \in [Dirs -> Revs]
  /\ ub \in BOOLEAN

LEMMA AddTyped ==
  ASSUME EntriesTyped, NEW new \in SUBSET Keys, NEW p \in Nodes, NEW rev,
         \A k \in new : rev[k] \in Revs,
         AddEntries(new, p, rev), lrev' \in [Dirs -> Revs]
  PROVE  EntriesTyped'
<1>1. ub' \in BOOLEAN /\ tab' \subseteq Keys
  BY DEF EntriesTyped, AddEntries
<1>2. par' \in [Keys -> Nodes \cup {Dangling, None}]
  BY DEF EntriesTyped, AddEntries
<1>3. kids' \in [Dirs -> SUBSET Keys]
  BY DEF EntriesTyped, AddEntries
<1>4. rrem' \in [Nodes -> Revs]
  BY DEF EntriesTyped, AddEntries, Nodes
<1> QED BY <1>1, <1>2, <1>3, <1>4 DEF EntriesTyped

\* Adding keeps the agreement, since it takes an entry out of the array of the
\* parent it names, and by the agreement it is in no other.
LEMMA AddAgrees ==
  ASSUME EntriesTyped, ChildrenAgree,
         NEW new \in SUBSET Keys, NEW p \in Known, NEW rev,
         AddEntries(new, p, rev)
  PROVE  ChildrenAgree'
<1> SUFFICES ASSUME NEW d \in Dirs, NEW k \in kids'[d]
             PROVE  d \in Known' /\ k \in tab' /\ par'[k] = d
  BY DEF ChildrenAgree
<1>1. Known \subseteq Known'
  BY DEF AddEntries, Known
<1>2. CASE d = p /\ k \in new
  BY <1>1, <1>2 DEF AddEntries
<1>3. CASE ~(d = p /\ k \in new)
  <2>1. k \in kids[d] /\ k \in Keys /\ ~(k \in new /\ par[k] = d /\ d # p)
    BY <1>3 DEF AddEntries, EntriesTyped
  <2>2. d \in Known /\ k \in tab /\ par[k] = d
    BY <2>1 DEF ChildrenAgree
  <2>3. k \notin new
    BY <1>3, <2>1, <2>2
  <2> QED BY <1>1, <2>1, <2>2, <2>3 DEF AddEntries
<1> QED BY <1>2, <1>3

LEMMA RemoveTyped ==
  ASSUME EntriesTyped, NEW e \in Keys, Remove(e)
  PROVE  EntriesTyped'
<1>1. CASE e \notin tab /\ UNCHANGED entries
  BY <1>1 DEF EntriesTyped, entries
<1>2. CASE ~(e \notin tab /\ UNCHANGED entries)
  <2>1. PICK R \in Freed(e) :
          /\ ub' = (ub \/ par[e] \in R \cup {Dangling})
          /\ tab' = tab \ R
          /\ par' = [k \in Keys |-> IF k \in R THEN None
                                    ELSE IF par[k] \in R THEN Dangling ELSE par[k]]
          /\ kids' = [d \in Dirs |-> IF d \in R THEN {} ELSE kids[d] \ {e}]
          /\ rrem' = [n \in Nodes |-> IF n \in R THEN 0 ELSE rrem[n]]
          /\ lrev' = [d \in Dirs |-> IF d \in R THEN 0 ELSE lrev[d]]
    BY <1>2 DEF Remove
  <2>2. 0 \in Revs
    BY RemoteAssumption DEF Revs
  <2> QED BY <2>1, <2>2 DEF EntriesTyped
<1> QED BY <1>1, <1>2

\* Removing keeps the agreement: an array that survives belongs to a folder
\* that was not freed, and an entry freed together with e names a freed parent.
LEMMA RemoveAgrees ==
  ASSUME EntriesTyped, ChildrenAgree, NEW e \in Keys, Remove(e)
  PROVE  ChildrenAgree'
<1>1. CASE e \notin tab /\ UNCHANGED entries
  BY <1>1 DEF ChildrenAgree, entries, Known
<1>2. CASE ~(e \notin tab /\ UNCHANGED entries)
  <2>1. PICK R \in Freed(e) :
          /\ tab' = tab \ R
          /\ par' = [k \in Keys |-> IF k \in R THEN None
                                    ELSE IF par[k] \in R THEN Dangling ELSE par[k]]
          /\ kids' = [d \in Dirs |-> IF d \in R THEN {} ELSE kids[d] \ {e}]
    BY <1>2 DEF Remove
  <2>2. \A k \in R \ {e} : par[k] \in R
    BY DEF Freed
  <2> SUFFICES ASSUME NEW d \in Dirs, NEW k \in kids'[d]
               PROVE  d \in Known' /\ k \in tab' /\ par'[k] = d
    BY DEF ChildrenAgree
  <2>3. d \notin R /\ k \in kids[d] /\ k # e /\ k \in Keys
    BY <2>1 DEF EntriesTyped
  <2>4. d \in Known /\ k \in tab /\ par[k] = d
    BY <2>3 DEF ChildrenAgree
  <2>5. k \notin R
    BY <2>2, <2>3, <2>4
  <2> QED BY <2>1, <2>3, <2>4, <2>5 DEF Known
<1> QED BY <1>1, <1>2

-----------------------------------------------------------------------------
(* TreeInv is inductive. *)

\* The part of TypeOK about the control state.
Labels  == {"mount", "mountinfo", "idle", "status", "changes", "apply", "info",
            "unwind", "folders", "files", "end", "housekeep"}
Returns == {"idle", "status", "apply", "end", "housekeep"}
ControlTyped ==
  /\ treerev \in Revs
  /\ pc \in Labels
  /\ ret \in Returns
  /\ todo \subseteq Changes
  /\ endrev \in Revs
  /\ need \in Keys \cup {None}
  /\ stack \in Seq(Infos)
  /\ dir \in Dirs
  /\ cursor \in Nat
  /\ mayfail \in FailSets

LEMMA TypeParts ==
  /\ TypeOK <=> RemoteTypeOK /\ EntriesTyped /\ ControlTyped
  /\ TypeOK' <=> RemoteTypeOK' /\ EntriesTyped' /\ ControlTyped'
BY DEF TypeOK, EntriesTyped, ControlTyped, Labels, Returns

LEMMA Initially == Init => TreeInv
<1> SUFFICES ASSUME Init PROVE TreeInv
  OBVIOUS
<1>1. 0 \in Revs /\ 1 \in Revs
  BY RemoteAssumption DEF Revs
<1>2. RemoteTypeOK
  BY <1>1 DEF Init, RemoteInit, RemoteTypeOK
<1>3. EntriesTyped
  BY <1>1 DEF Init, EntriesTyped
<1>4. ControlTyped
  BY <1>1 DEF Init, ControlTyped, Labels, Returns, Dirs
<1>5. ChildrenAgree /\ ControlInv
  BY DEF Init, ChildrenAgree, ControlInv
<1> QED BY <1>2, <1>3, <1>4, <1>5, TypeParts DEF TreeInv

\* Freeing the children array of a folder.
LEMMA FillKeeps ==
  ASSUME EntriesTyped, ChildrenAgree, NEW d \in Known \cap Dirs, NEW back,
         FillFolder(d, back),
         UNCHANGED <<tab, par, lrev, ub>>, rrem' \in [Nodes -> Revs]
  PROVE  EntriesTyped' /\ ChildrenAgree' /\ dir' \in Known'
<1>1. kids' \in [Dirs -> SUBSET Keys]
  BY DEF FillFolder, EntriesTyped
<1>2. EntriesTyped'
  BY <1>1 DEF EntriesTyped
<1>3. \A x \in Dirs : kids'[x] \subseteq kids[x]
  BY DEF FillFolder, EntriesTyped
<1>4. ChildrenAgree'
  BY <1>3 DEF ChildrenAgree, Known
<1> QED BY <1>2, <1>4 DEF FillFolder, Known

\* Steps that change the entries only by filling a folder, or not at all.
LEMMA EntriesKept ==
  ASSUME EntriesTyped, ChildrenAgree, UNCHANGED entries
  PROVE  EntriesTyped' /\ ChildrenAgree' /\ Known' = Known
BY DEF EntriesTyped, ChildrenAgree, Known, entries

LEMMA HelperSteps ==
  ASSUME TreeInv, ListFails \/ ListFolders \/ ListFiles
  PROVE  TreeInv'
<1> USE DEF At
<1>1. RemoteTypeOK /\ EntriesTyped /\ ControlTyped /\ ChildrenAgree /\ ControlInv
  BY TypeParts DEF TreeInv
<1>2. dir \in Known \cap Dirs /\ dir \in Nodes
  BY <1>1 DEF ControlInv, ControlTyped, ListFails, ListFolders, ListFiles, Dirs, Nodes, Keys
<1>3. RemoteTypeOK'
  BY <1>1 DEF RemoteTypeOK, remote, ListFails, ListFolders, ListFiles
<1>4. ControlTyped'
  BY <1>1 DEF ControlTyped, Labels, Returns, Return, ListFails, ListFolders, ListFiles, Dirs
<1>5. CASE ListFails
  <2>1. UNCHANGED entries
    BY <1>5 DEF ListFails
  <2>2. pc' \in Returns
    BY <1>1, <1>5 DEF ListFails, Return, ControlTyped
  <2> QED BY <1>1, <1>3, <1>4, <2>1, <2>2, EntriesKept, TypeParts
          DEF TreeInv, ControlInv, Returns
<1>6. ASSUME NEW new \in SUBSET Keys, AddEntries(new, dir, rrev), lrev' \in [Dirs -> Revs],
             pc' # "info", pc' # "unwind", pc' \in {"folders", "files"} => dir' = dir
      PROVE  TreeInv'
  <2>1. \A k \in new : rrev[k] \in Revs
    BY <1>1 DEF RemoteTypeOK, Nodes
  <2>2. EntriesTyped'
    BY <1>1, <1>2, <1>6, <2>1, AddTyped
  <2>3. ChildrenAgree'
    BY <1>1, <1>2, <1>6, AddAgrees
  <2>4. dir \in Known'
    BY <1>2, <1>6 DEF AddEntries, Known
  <2> QED BY <1>3, <1>4, <1>6, <2>2, <2>3, <2>4, TypeParts DEF TreeInv, ControlInv
<1>7. CASE ListFolders
  <2>1. PICK some \in Answers(Folders, dir) : AddFolders(some, dir, rrev)
    BY <1>7 DEF ListFolders
  <2>2. some \in SUBSET Keys
    BY DEF Answers, Content, Keys
  <2>3. lrev' \in [Dirs -> Revs]
    BY <1>1, <2>1 DEF AddFolders, EntriesTyped
  <2> QED BY <1>6, <1>7, <2>1, <2>2, <2>3 DEF ListFolders, AddFolders
<1>8. CASE ListFiles
  <2>1. PICK some \in Answers(Files, dir) : AddEntries(some, dir, rrev)
    BY <1>8 DEF ListFiles
  <2>2. some \in SUBSET Keys
    BY DEF Answers, Content, Keys
  <2>3. lrev' \in [Dirs -> Revs]
    BY <1>1, <1>2, <1>8 DEF ListFiles, EntriesTyped
  <2>4. pc' \in Returns
    BY <1>1, <1>8 DEF ListFiles, Return, ControlTyped
  <2> QED BY <1>6, <1>8, <2>1, <2>2, <2>3, <2>4 DEF ListFiles, Returns
<1> QED BY <1>5, <1>7, <1>8

LEMMA InfoSteps ==
  ASSUME TreeInv, InfoFails \/ InfoAnswers \/ Unwind
  PROVE  TreeInv'
<1> USE DEF At
<1>1. RemoteTypeOK /\ EntriesTyped /\ ControlTyped /\ ChildrenAgree /\ ControlInv
  BY TypeParts DEF TreeInv
<1>2. RemoteTypeOK'
  BY <1>1 DEF RemoteTypeOK, remote, InfoFails, InfoAnswers, Unwind
<1>3. CASE InfoFails
  <2>1. need \in Keys
    BY <1>1, <1>3 DEF InfoFails, ControlInv
  <2>2. EntriesTyped' /\ ChildrenAgree'
    BY <1>1, <1>3, <2>1, RemoveTyped, RemoveAgrees DEF InfoFails
  <2>3. ControlTyped' /\ ControlInv'
    BY <1>1, <1>3 DEF InfoFails, ControlTyped, ControlInv, Return, Labels, Returns
  <2> QED BY <1>2, <2>2, <2>3, TypeParts DEF TreeInv
<1>4. CASE InfoAnswers
  <2>1. need \in Keys /\ rparent[need] \in Dirs \cup {Trash} /\ rrev[need] \in Revs
    <3>1. need \in Keys
      BY <1>1, <1>4 DEF InfoAnswers, ControlInv
    <3>2. rparent[need] # None
      BY <1>4, <3>1, RemoteAssumption DEF InfoAnswers, Exists
    <3> QED BY <1>1, <3>1, <3>2 DEF RemoteTypeOK, Nodes
  <2> DEFINE info == [key |-> need, parent |-> rparent[need], rev |-> rrev[need]]
  <2>2. info \in Infos
    BY <2>1 DEF Infos, Dirs, Nodes, Keys
  <2>3. stack' = Append(stack, info)
    BY <1>4 DEF InfoAnswers
  <2>4. stack' \in Seq(Infos) /\ stack' # <<>>
    <3> HIDE DEF info
    <3> QED BY <1>1, <2>2, <2>3 DEF ControlTyped
  <2>5. /\ need' \in Keys \cup {None}
        /\ pc' \in {"unwind", "info"}
        /\ pc' = "info" => need' \in Keys
    BY <1>4, <2>1 DEF InfoAnswers, Known, Dirs, Keys
  <2>6. ControlTyped'
    BY <1>1, <1>4, <2>4, <2>5 DEF InfoAnswers, ControlTyped, Labels
  <2>7. ControlInv'
    BY <2>4, <2>5 DEF ControlInv
  <2>8. EntriesTyped' /\ ChildrenAgree'
    BY <1>1, <1>4, EntriesKept DEF InfoAnswers
  <2> QED BY <1>2, <2>6, <2>7, <2>8, TypeParts DEF TreeInv
<1>5. CASE Unwind
  <2> DEFINE info == stack[Len(stack)]
  <2>1. stack \in Seq(Infos) /\ stack # <<>>
    BY <1>1, <1>5 DEF Unwind, ControlTyped, ControlInv
  <2>2. info \in Infos
    BY <2>1
  <2>3. stack' \in Seq(Infos) /\ Len(stack') = Len(stack) - 1 /\ Len(stack) \in Nat \ {0}
    <3>1. Len(stack) \in Nat \ {0}
      BY <2>1
    <3>2. stack' = SubSeq(stack, 1, Len(stack) - 1)
      BY <1>5 DEF Unwind
    <3>3. \A i \in 1 .. Len(stack) - 1 : stack[i] \in Infos
      BY <2>1, <3>1
    <3>4. 1 \in Int /\ Len(stack) - 1 \in Int
      BY <3>1
    <3>5. SubSeq(stack, 1, Len(stack) - 1) \in Seq(Infos)
      BY <3>3, <3>4, SubSeqProperties
    <3>6. Len(SubSeq(stack, 1, Len(stack) - 1))
            = IF 1 <= Len(stack) - 1 THEN Len(stack) - 1 - 1 + 1 ELSE 0
      BY <3>3, <3>4, SubSeqProperties
    <3>7. stack' \in Seq(Infos)
      BY <3>2, <3>5
    <3> DEFINE n == Len(stack)
               m == Len(SubSeq(stack, 1, n - 1))
    <3>8. n \in Nat \ {0} /\ m = IF 1 <= n - 1 THEN n - 1 - 1 + 1 ELSE 0
      BY <3>1, <3>6
    <3>9. Len(stack') = m
      BY <3>2
    <3> HIDE DEF n, m
    <3>10. m = n - 1
      BY <3>8
    <3> QED BY <3>1, <3>7, <3>9, <3>10 DEF n
  <2>4. EntriesTyped' /\ ChildrenAgree'
    <3>1. CASE UNCHANGED entries
      BY <1>1, <3>1, EntriesKept
    <3>2. CASE ~UNCHANGED entries
      <4>1. /\ info.parent \in Known
            /\ AddEntries({info.key}, info.parent, [k \in {info.key} |-> info.rev])
            /\ UNCHANGED lrev
        BY <1>5, <3>2 DEF Unwind, AddFolders
      <4>2. info.key \in Keys /\ info.rev \in Revs /\ info.parent \in Nodes
        BY <1>1, <2>2, <4>1 DEF Infos, Known, EntriesTyped, Nodes
      <4>3. lrev' \in [Dirs -> Revs]
        BY <1>1, <4>1 DEF EntriesTyped
      <4> DEFINE new == {info.key}
                 rev == [k \in {info.key} |-> info.rev]
      <4>4. new \in SUBSET Keys /\ \A k \in new : rev[k] \in Revs
        BY <4>2
      <4>5. AddEntries(new, info.parent, rev)
        BY <4>1
      <4> HIDE DEF info, new, rev
      <4>6. EntriesTyped'
        BY <1>1, <4>2, <4>3, <4>4, <4>5, AddTyped
      <4>7. ChildrenAgree'
        BY <1>1, <4>1, <4>4, <4>5, AddAgrees
      <4> QED BY <4>6, <4>7
    <3> QED BY <3>1, <3>2
  <2>5. IF Len(stack) = 1 THEN Return ELSE pc' = "unwind" /\ UNCHANGED ret
    BY <1>5 DEF Unwind
  <2>6. ControlTyped'
    BY <1>1, <1>5, <2>3, <2>5 DEF Unwind, ControlTyped, Return, Labels, Returns
  <2>7. ControlInv'
    <3>1. CASE Len(stack) = 1
      BY <1>1, <2>5, <3>1 DEF Return, ControlInv, ControlTyped, Returns
    <3>2. CASE Len(stack) # 1
      <4>1. stack' # <<>>
        BY <2>3, <3>2
      <4> QED BY <2>5, <3>2, <4>1 DEF ControlInv
    <3> QED BY <3>1, <3>2
  <2> QED BY <1>2, <2>4, <2>6, <2>7, TypeParts DEF TreeInv
<1> QED BY <1>3, <1>4, <1>5

LEMMA UpdateSteps ==
  ASSUME TreeInv,
         \/ GetStatus \/ GetChanges \/ GetChangesFails
         \/ ApplyDeleted \/ ApplyIgnored \/ ApplyUpdated \/ ApplyDone
  PROVE  TreeInv'
<1> USE DEF At
<1>1. RemoteTypeOK /\ EntriesTyped /\ ControlTyped /\ ChildrenAgree /\ ControlInv
  BY TypeParts DEF TreeInv
<1>2. RemoteTypeOK'
  BY <1>1 DEF RemoteTypeOK, remote, GetStatus, GetChanges, GetChangesFails,
              ApplyDeleted, ApplyIgnored, ApplyUpdated, ApplyDone
<1>3. CASE GetStatus \/ GetChangesFails \/ ApplyIgnored
  <2>1. EntriesTyped' /\ ChildrenAgree'
    BY <1>1, <1>3, EntriesKept DEF GetStatus, GetChangesFails, ApplyIgnored
  <2>2. ControlTyped' /\ ControlInv'
    BY <1>1, <1>3 DEF GetStatus, GetChangesFails, ApplyIgnored, ControlTyped, ControlInv, Labels
  <2> QED BY <1>2, <2>1, <2>2, TypeParts DEF TreeInv
<1>4. CASE GetChanges
  <2>1. EntriesTyped' /\ ChildrenAgree'
    BY <1>1, <1>4, EntriesKept DEF GetChanges
  <2>2. todo' \subseteq Changes /\ endrev' \in Revs
    BY <1>1, <1>4 DEF GetChanges, Reported, RemoteTypeOK
  <2>3. ControlTyped' /\ ControlInv'
    BY <1>1, <1>4, <2>2 DEF GetChanges, ControlTyped, ControlInv, Labels
  <2> QED BY <1>2, <2>1, <2>3, TypeParts DEF TreeInv
<1>5. CASE ApplyDeleted
  <2>1. PICK c \in NextChanges : Remove(c.key) /\ todo' = todo \ {c}
    BY <1>5 DEF ApplyDeleted
  <2>2. c.key \in Keys
    BY <1>1 DEF NextChanges, ControlTyped, Changes
  <2>3. EntriesTyped' /\ ChildrenAgree'
    BY <1>1, <2>1, <2>2, RemoveTyped, RemoveAgrees
  <2>4. ControlTyped' /\ ControlInv'
    BY <1>1, <1>5, <2>1 DEF ApplyDeleted, ControlTyped, ControlInv, Labels
  <2> QED BY <1>2, <2>3, <2>4, TypeParts DEF TreeInv
<1>6. CASE ApplyUpdated
  <2>1. PICK c \in NextChanges : FetchInfo(c.key, "apply") /\ todo' = todo \ {c}
    BY <1>6 DEF ApplyUpdated
  <2>2. c.key \in Keys
    BY <1>1 DEF NextChanges, ControlTyped, Changes
  <2>3. EntriesTyped' /\ ChildrenAgree'
    BY <1>1, <1>6, EntriesKept DEF ApplyUpdated
  <2>4. ControlTyped' /\ ControlInv'
    BY <1>1, <1>6, <2>1, <2>2
    DEF ApplyUpdated, FetchInfo, ControlTyped, ControlInv, Labels, Returns
  <2> QED BY <1>2, <2>3, <2>4, TypeParts DEF TreeInv
<1>7. CASE ApplyDone
  <2>1. Root \in Known \cap Dirs /\ rrem' \in [Nodes -> Revs]
    BY <1>1, <1>7 DEF Known, Dirs, ApplyDone, EntriesTyped
  <2>2. EntriesTyped' /\ ChildrenAgree' /\ dir' \in Known'
    BY <1>1, <1>7, <2>1, FillKeeps DEF ApplyDone
  <2>3. ControlTyped' /\ ControlInv'
    BY <1>1, <1>7, <2>2
    DEF ApplyDone, FillFolder, ControlTyped, ControlInv, Labels, Returns, Dirs
  <2> QED BY <1>2, <2>2, <2>3, TypeParts DEF TreeInv
<1> QED BY <1>3, <1>4, <1>5, <1>6, <1>7

\* The agreement leaves housekeeping's first pass nothing to do.
LEMMA NoneDisputed == ChildrenAgree => Disputed = {}
BY DEF ChildrenAgree, Disputed

LEMMA HousekeepSteps ==
  ASSUME TreeInv, EndUpdate \/ HousekeepOrphan \/ HousekeepDone
  PROVE  TreeInv'
<1> USE DEF At
<1>1. RemoteTypeOK /\ EntriesTyped /\ ControlTyped /\ ChildrenAgree /\ ControlInv
  BY TypeParts DEF TreeInv
<1>2. RemoteTypeOK'
  BY <1>1 DEF RemoteTypeOK, remote, EndUpdate, HousekeepOrphan, HousekeepDone
<1>3. CASE EndUpdate
  <2>1. UNCHANGED entries /\ pc' = "housekeep" /\ UNCHANGED <<dir, ret>>
    BY <1>1, <1>3, NoneDisputed DEF EndUpdate, entries
  <2>2. EntriesTyped' /\ ChildrenAgree'
    BY <1>1, <2>1, EntriesKept
  <2>3. ControlTyped' /\ ControlInv'
    BY <1>1, <1>3, <2>1 DEF EndUpdate, ControlTyped, ControlInv, Labels
  <2> QED BY <1>2, <2>2, <2>3, TypeParts DEF TreeInv
<1>4. CASE HousekeepOrphan
  <2>1. PICK k \in Ahead :
          cursor' = Bucket[k] /\ ub' = (par[k] = Dangling) /\ FetchInfo(k, "housekeep")
    BY <1>4 DEF HousekeepOrphan
  <2>2. k \in Keys /\ Bucket[k] \in Nat
    BY <1>1, FolderTreeAssumption DEF Ahead, EntriesTyped
  <2>3. EntriesTyped' /\ ChildrenAgree'
    BY <1>1, <1>4, <2>1 DEF HousekeepOrphan, EntriesTyped, ChildrenAgree, Known
  <2>4. ControlTyped' /\ ControlInv'
    BY <1>1, <1>4, <2>1, <2>2
    DEF HousekeepOrphan, FetchInfo, ControlTyped, ControlInv, Labels, Returns
  <2> QED BY <1>2, <2>3, <2>4, TypeParts DEF TreeInv
<1>5. CASE HousekeepDone
  <2>1. EntriesTyped' /\ ChildrenAgree'
    BY <1>1, <1>5, EntriesKept DEF HousekeepDone
  <2>2. 0 \in Revs
    BY RemoteAssumption DEF Revs
  <2>3. ControlTyped' /\ ControlInv'
    BY <1>1, <1>5, <2>2 DEF HousekeepDone, ControlTyped, ControlInv, Labels
  <2> QED BY <1>2, <2>1, <2>3, TypeParts DEF TreeInv
<1> QED BY <1>3, <1>4, <1>5

LEMMA OtherSteps ==
  ASSUME TreeInv, MountStatus \/ MountInfo \/ Lookup \/ Handler \/ Others
  PROVE  TreeInv'
<1> USE DEF At
<1>1. RemoteTypeOK /\ EntriesTyped /\ ControlTyped /\ ChildrenAgree /\ ControlInv
  BY TypeParts DEF TreeInv
<1>2. CASE MountStatus
  <2>1. RemoteTypeOK' /\ EntriesTyped' /\ ChildrenAgree'
    BY <1>1, <1>2, EntriesKept DEF MountStatus, remote, RemoteTypeOK
  <2>2. ControlTyped' /\ ControlInv'
    BY <1>1, <1>2 DEF MountStatus, ControlTyped, ControlInv, Labels, RemoteTypeOK
  <2> QED BY <2>1, <2>2, TypeParts DEF TreeInv
<1>3. CASE MountInfo
  <2>1. Root \in Known \cap Dirs /\ rrem' \in [Nodes -> Revs]
    BY <1>1, <1>3 DEF Known, Dirs, Nodes, MountInfo, EntriesTyped, RemoteTypeOK
  <2>2. EntriesTyped' /\ ChildrenAgree' /\ dir' \in Known'
    BY <1>1, <1>3, <2>1, FillKeeps DEF MountInfo
  <2>3. ControlTyped' /\ ControlInv'
    BY <1>1, <1>3, <2>2
    DEF MountInfo, FillFolder, ControlTyped, ControlInv, Labels, Returns, Dirs
  <2>4. RemoteTypeOK'
    BY <1>1, <1>3 DEF MountInfo, remote, RemoteTypeOK
  <2> QED BY <2>2, <2>3, <2>4, TypeParts DEF TreeInv
<1>4. CASE Lookup
  <2>1. PICK d \in Known \cap Dirs : FillFolder(d, "idle")
    BY <1>4 DEF Lookup
  <2>2. EntriesTyped' /\ ChildrenAgree' /\ dir' \in Known'
    BY <1>1, <1>4, <2>1, FillKeeps DEF Lookup, EntriesTyped
  <2>3. ControlTyped' /\ ControlInv'
    BY <1>1, <1>4, <2>1, <2>2
    DEF Lookup, FillFolder, ControlTyped, ControlInv, Labels, Returns
  <2>4. RemoteTypeOK'
    BY <1>1, <1>4 DEF Lookup, remote, RemoteTypeOK
  <2> QED BY <2>2, <2>3, <2>4, TypeParts DEF TreeInv
<1>5. CASE Handler
  <2>1. ThenUpdate \/ WithoutUpdate
    BY <1>5 DEF Handler, Mkdir, Rmdir, Unlink, RenameBegins, Rename, Upload, Utimens
  <2>2. EntriesTyped' /\ ChildrenAgree' /\ Known' = Known
    BY <1>1, <2>1, EntriesKept DEF ThenUpdate, WithoutUpdate
  <2>3. ControlTyped' /\ ControlInv'
    <3>1. CASE ThenUpdate
      BY <1>1, <3>1 DEF ThenUpdate, ControlTyped, ControlInv, Labels
    <3>2. CASE WithoutUpdate
      BY <1>1, <2>2, <3>2 DEF WithoutUpdate, control, ControlTyped, ControlInv
    <3> QED BY <2>1, <3>1, <3>2
  <2>4. PICK k \in Keys :
          \/ \E p \in Dirs : RemoteCreate(k, p)
          \/ \E p \in Dirs : RemoteMove(k, p)
          \/ RemoteModify(k)
          \/ RemoteTrash(k)
    BY <1>5 DEF Handler, Mkdir, Rmdir, Unlink, RenameBegins, Rename, Upload, Utimens,
                NamedDirs, NamedFiles, Keys
  <2>5. RemoteTypeOK'
    BY <1>1, <2>4, RemoteStepTyped
  <2> QED BY <2>2, <2>3, <2>5, TypeParts DEF TreeInv
<1>6. CASE Others
  <2>1. RemoteTypeOK'
    BY <1>1, <1>6, RemoteStepTyped DEF Others, RemoteNext
  <2>2. EntriesTyped' /\ ChildrenAgree' /\ Known' = Known
    BY <1>1, <1>6, EntriesKept DEF Others
  <2>3. ControlTyped' /\ ControlInv'
    BY <1>1, <1>6, <2>2 DEF Others, control, ControlTyped, ControlInv
  <2> QED BY <2>1, <2>2, <2>3, TypeParts DEF TreeInv
<1> QED BY <1>2, <1>3, <1>4, <1>5, <1>6

LEMMA Stuttering == TreeInv /\ UNCHANGED vars => TreeInv'
BY DEF TreeInv, TypeOK, RemoteTypeOK, ChildrenAgree, ControlInv, Known, Nodes,
       vars, remote, entries, control

LEMMA Inductive == TreeInv /\ [Next]_vars => TreeInv'
<1> SUFFICES ASSUME TreeInv, [Next]_vars PROVE TreeInv'
  OBVIOUS
<1>1. CASE ListFails \/ ListFolders \/ ListFiles
  BY <1>1, HelperSteps
<1>2. CASE InfoFails \/ InfoAnswers \/ Unwind
  BY <1>2, InfoSteps
<1>3. CASE \/ GetStatus \/ GetChanges \/ GetChangesFails
           \/ ApplyDeleted \/ ApplyIgnored \/ ApplyUpdated \/ ApplyDone
  BY <1>3, UpdateSteps
<1>4. CASE EndUpdate \/ HousekeepOrphan \/ HousekeepDone
  BY <1>4, HousekeepSteps
<1>5. CASE MountStatus \/ MountInfo \/ Lookup \/ Handler \/ Others
  BY <1>5, OtherSteps
<1>6. CASE UNCHANGED vars
  BY <1>6, Stuttering
<1> QED BY <1>1, <1>2, <1>3, <1>4, <1>5, <1>6 DEF Next, Holder

-----------------------------------------------------------------------------
(* The theorems. *)

\* Every variable has its type: with one pointer per key, a parent is always an
\* entry, the root or freed memory.
THEOREM TypeCorrect == Spec => []TypeOK
<1>1. TreeInv => TypeOK
  BY DEF TreeInv
<1> QED BY <1>1, Initially, Inductive, PTL DEF Spec

\* Whatever fails and whatever else changes the remote, the children arrays of
\* hashtbl.c hold live entries only, and each of them names the folder that
\* lists it as its parent.
THEOREM ChildrenAlwaysAgree == Spec => []ChildrenAgree
<1>1. TreeInv => ChildrenAgree
  BY DEF TreeInv
<1> QED BY <1>1, Initially, Inductive, PTL DEF Spec

\* The first pass of folder_tree_housekeep never finds a folder to fill again:
\* its comment "this should actually never happen" is right.
THEOREM FirstPassIdle == Spec => [](Disputed = {})
<1> QED BY ChildrenAlwaysAgree, NoneDisputed, PTL
=============================================================================
