----------------------------- MODULE StoredFile -----------------------------
(***************************************************************************)
(* What the mount promises about the content of one file, without copies,  *)
(* patches or downloads: FileCache implements it.  The service keeps every *)
(* revision; the mount knows one of them; a reader sees the content of a   *)
(* revision not older than the one known when it opened the file; when a   *)
(* flush reports success, everything written through the handle is in some *)
(* revision not older than the one opened.                                 *)
(***************************************************************************)
EXTENDS Naturals

CONSTANTS
  Edits,   \* what can be written; a content is the set of edits made
  Closed   \* no handle is open

VARIABLES
  rev,     \* the revision of now
  hist,    \* the content of each revision so far
  known,   \* the revision that the mount knows
  open     \* the handle: since which revision, what a reader sees, what a
           \* writer wrote and whether a flush has reported it as stored

vars == <<rev, hist, known, open>>

Contents == SUBSET Edits
Reader(r, c) == [since |-> r, sees |-> c]
Writer(r)    == [since |-> r, wrote |-> {}, stored |-> TRUE]
Reading == open # Closed /\ "sees" \in DOMAIN open
Writing == open # Closed /\ "wrote" \in DOMAIN open

Init ==
  /\ rev = 1
  /\ hist[1] \in Contents
  /\ known = 1
  /\ open = Closed

Store(c) ==
  /\ rev' = rev + 1
  /\ hist' = [hist EXCEPT ![rev + 1] = c]

\* Somebody stores a content: another client, or the mount itself in a call
\* that it then reports as failed.
Change == (\E c \in Contents : Store(c)) /\ UNCHANGED <<known, open>>

Learn == known' = rev /\ UNCHANGED <<rev, hist, open>>

OpenRead ==
  /\ open = Closed
  /\ \E r \in known .. rev : open' = Reader(known, hist[r])
  /\ UNCHANGED <<rev, hist, known>>

OpenWrite ==
  /\ open = Closed
  /\ open' = Writer(known)
  /\ UNCHANGED <<rev, hist, known>>

Write ==
  /\ Writing
  /\ \E e \in Edits : open' = [open EXCEPT !.wrote = @ \cup {e}, !.stored = FALSE]
  /\ UNCHANGED <<rev, hist, known>>

Flush ==
  /\ Writing
  /\ open' = [open EXCEPT !.stored = TRUE]
  /\ \/ \E c \in Contents : open.wrote \subseteq c /\ Store(c)
     \/ (\E r \in open.since .. rev : open.wrote \subseteq hist[r]) /\ UNCHANGED <<rev, hist>>
  /\ UNCHANGED known

\* After a truncation whoever has the file open has nothing.
Truncate ==
  /\ open # Closed
  /\ \E r \in open.since .. rev : hist[r] = {}
  /\ \/ Reading /\ open' = [open EXCEPT !.sees = {}]
     \/ Writing /\ open' = [open EXCEPT !.wrote = {}]
  /\ UNCHANGED <<rev, hist, known>>

\* A close, or the end of the process, whatever was written; the close learns.
Close ==
  /\ open' = Closed
  /\ known' \in {known, rev}
  /\ UNCHANGED <<rev, hist>>

\* A mount starts from what an earlier one knew.
Mount ==
  /\ open = Closed
  /\ known' \in 1 .. rev
  /\ UNCHANGED <<rev, hist, open>>

Next ==
  \/ Change \/ Learn
  \/ OpenRead \/ OpenWrite \/ Write \/ Flush \/ Truncate \/ Close \/ Mount

Spec == Init /\ [][Next]_vars
=============================================================================
