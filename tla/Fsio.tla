------------------------------- MODULE Fsio -------------------------------
(***************************************************************************)
(* Block by block copies and digests: fsio_file_copy and fsio_file_read of *)
(* utils/fsio.c, the latter with the hooks of utils/hash.c.  filecache.c   *)
(* makes the copy for writing with the first and checks every download and *)
(* every patched file with the second.                                     *)
(*                                                                         *)
(* The source is the bytes 1, 2, .., size.  A step is one system call, or  *)
(* what happens between two.  out is the target of a copy, or what went    *)
(* into the digest: the digest is right exactly when out is the source.    *)
(* The calls of one thread follow each other and share errno.              *)
(***************************************************************************)
EXTENDS Naturals, Integers, Sequences

CONSTANTS
  MaxSize,   \* bound: bytes of the source
  Block,     \* the block size, st_blksize but at least 128 KB
  MaxFails,  \* bound: failures of read() that one block counts
  Runs,      \* bound: copies and digests that one thread makes
  FaultSets  \* what faults may be

Faults == {"interrupt", "short", "error", "transient", "full"}

ASSUME FsioAssumption ==
  /\ MaxSize \in Nat /\ Block \in Nat \ {0} /\ MaxFails \in Nat /\ Runs \in Nat
  /\ FaultSets \subseteq SUBSET Faults

VARIABLES
  mode,      \* "copy" or "digest"
  size,      \* of the source
  pos,       \* its file position
  reading,   \* "fine", or it "fails", or it has failed and works "again"
  buffer,    \* fsio->buffer
  ask,       \* bytes_to_read, bytes_to_write
  block,     \* bytes_total of the block
  total,     \* bytes_total of the copy, fsio->bytes_read of the digest
  out,
  pc, result,
  stale,     \* errno is EINTR
  runs,      \* calls made so far
  ub,        \* read() was given more room than the buffer has
  faults     \* what may go wrong: "interrupt": EINTR, "short": read() returns
             \* less than there is, "error": read() fails from some point on,
             \* "transient": only for a while, "full": write() does less, or
             \* fails

input == <<mode, size>>
vars  == <<mode, size, pos, reading, buffer, ask, block, total, out, pc, result, stale, runs,
           ub, faults>>

Unset == 0
Bytes == 1 .. MaxSize
Source == [i \in 1 .. size |-> i]

Init ==
  /\ mode \in {"copy", "digest"} /\ size \in 0 .. MaxSize
  /\ pos = 0 /\ reading = "fine"
  /\ buffer = [i \in 1 .. Block |-> Unset]
  /\ ask = 0 /\ block = 0 /\ total = 0
  /\ out = <<>>
  /\ pc = "recommend" /\ result = 1
  /\ stale = FALSE /\ runs = 1 /\ ub = FALSE
  /\ faults \in FaultSets

\* The next call, on a file of its own.
Again ==
  /\ pc = "done" /\ runs < Runs /\ ~ub
  /\ mode' \in {"copy", "digest"} /\ size' \in 0 .. MaxSize
  /\ pos' = 0 /\ reading' = "fine"
  /\ buffer' = [i \in 1 .. Block |-> Unset]
  /\ ask' = 0 /\ block' = 0 /\ total' = 0
  /\ out' = <<>>
  /\ pc' = "recommend" /\ result' = 1
  /\ runs' = runs + 1
  /\ UNCHANGED <<stale, ub, faults>>

-----------------------------------------------------------------------------
\* _fsio_recommend repeats fstatvfs until it returns 1, which it never does,
\* or errno is not EINTR, which success does not change.
Recommend ==
  /\ pc = "recommend" /\ ~stale
  /\ pc' = "next"
  /\ UNCHANGED <<input, pos, reading, buffer, ask, block, total, out, result, stale, runs, ub, faults>>

Ends(r) ==
  /\ pc' = "done" /\ result' = r
  /\ UNCHANGED <<ask, block>>

\* Whether another block is read.  The digest reads until the end of the file,
\* and counts in a size_t: less than nothing is more than any size.
More == IF mode = "copy" THEN total < size ELSE total \in 0 .. size
Outcome == IF total \in 0 .. size - 1 THEN -1 ELSE 0

NextBlock ==
  /\ pc = "next"
  /\ IF More
     THEN pc' = "read" /\ ask' = Block /\ block' = 0 /\ UNCHANGED result
     ELSE Ends(Outcome)
  /\ UNCHANGED <<input, pos, reading, buffer, total, out, stale, runs, ub, faults>>

-----------------------------------------------------------------------------
(* _fsio_read_block *)

\* n bytes are put where the buffer begins, wherever the last ones went.
Filled(n) == [i \in 1 .. Block |-> IF i <= n THEN pos + i ELSE buffer[i]]

\* A mutant: there is always as much to read as was asked for.
LeastAsked(a, b) == a
Least(a, b) == IF a < b THEN a ELSE b

Reads(n) ==
  /\ buffer' = Filled(n)
  /\ ub' = (ub \/ n > Block)
  /\ pos' = pos + n
  /\ ask' = ask - n
  /\ block' = block + n

\* A failure is counted as one byte less than none, and nothing ends that but
\* MaxFails here: the code goes on for as long as read() fails.
ReadFails ==
  /\ ask < Block + MaxFails
  /\ ask' = ask + 1
  /\ block' = block - 1

Read ==
  /\ pc = "read" /\ ask > 0 /\ pos < size /\ ~ub
  /\ \/ /\ reading # "fails"
        /\ LET all == Least(ask, size - pos) IN
             \E n \in IF "short" \in faults THEN 1 .. all ELSE {all} : Reads(n)
        /\ UNCHANGED reading
     \/ /\ reading = "fails" \/ (reading = "fine" /\ "error" \in faults)
        /\ reading' = "fails"
        /\ ReadFails
        /\ UNCHANGED <<buffer, pos, ub>>
  /\ UNCHANGED <<input, total, out, pc, result, stale, runs, faults>>

\* The error goes away before the block is read.
Mended ==
  /\ reading = "fails" /\ "transient" \in faults
  /\ reading' = "again"
  /\ UNCHANGED <<input, pos, buffer, ask, block, total, out, pc, result, stale, runs, ub, faults>>

\* A signal, before a read or a write.  Both are tried again.
Interrupt ==
  /\ "interrupt" \in faults
  /\ pc \in {"read", "write"} /\ ask > 0 /\ ~stale
  /\ stale' = TRUE
  /\ UNCHANGED <<input, pos, reading, buffer, ask, block, total, out, pc, result, runs, ub, faults>>

\* A mutant: the block counts as full.
GotWhole == Block
Got == block

\* A mutant: the end of the file is not noticed.
NoMoreNever == FALSE
NoMore == Got = 0

\* The hook of hash.c, called with the bytes of the block.
Hashed == out \o SubSeq(buffer, 1, Got)

\* The block is full or the file has ended.
EndBlock ==
  /\ pc = "read" /\ (ask = 0 \/ pos >= size) /\ ~ub
  /\ IF mode = "digest"
     THEN /\ out' = Hashed
          /\ total' = total + Got
          /\ IF NoMore
             THEN Ends(Outcome)
             ELSE pc' = "next" /\ UNCHANGED <<ask, block, result>>
     ELSE /\ IF NoMore
             THEN Ends(Outcome)
             ELSE pc' = "write" /\ ask' = Got /\ UNCHANGED <<block, result>>
          /\ UNCHANGED <<out, total>>
  /\ UNCHANGED <<input, pos, reading, buffer, stale, runs, ub, faults>>

-----------------------------------------------------------------------------
(* _fsio_write_blocks: it returns what the last write() returned, and the  *)
(* copy goes on only if that was the whole block.                          *)

\* A mutant: it returns the sum.
WrittenSum(n) == block
Written(n) == n

Write ==
  /\ pc = "write"
  /\ \/ /\ ask > 0
        /\ \E n \in IF "full" \in faults THEN 1 .. ask ELSE {ask} :
             /\ out' = out \o SubSeq(buffer, 1, n)
             /\ IF n < ask
                THEN ask' = ask - n /\ UNCHANGED <<pc, result, block, total>>
                ELSE IF Written(n) = block
                     THEN /\ total' = total + block
                          /\ pc' = "next"
                          /\ UNCHANGED <<ask, block, result>>
                     ELSE Ends(-1) /\ UNCHANGED total
     \/ /\ "full" \in faults \/ ask < 0
        /\ Ends(-1)
        /\ UNCHANGED <<out, total>>
  /\ UNCHANGED <<input, pos, reading, buffer, stale, runs, ub, faults>>

-----------------------------------------------------------------------------
Next ==
  \/ Again \/ Recommend \/ NextBlock
  \/ Read \/ Mended \/ Interrupt \/ EndBlock \/ Write

Spec == Init /\ [][Next]_vars

\* A thread goes on; nothing is said of faults.
FairSpec == Spec /\ WF_vars(Recommend \/ NextBlock \/ Read \/ EndBlock \/ Write)

-----------------------------------------------------------------------------
TypeOK ==
  /\ mode \in {"copy", "digest"} /\ size \in 0 .. MaxSize /\ pos \in 0 .. size
  /\ reading \in {"fine", "fails", "again"} /\ stale \in BOOLEAN /\ ub \in BOOLEAN
  /\ faults \in FaultSets
  /\ buffer \in [1 .. Block -> {Unset} \cup Bytes]
  /\ ask \in Int /\ block \in Int /\ total \in Int
  /\ pc = "read" => ask >= 0 /\ ask + block = Block
  /\ out \in Seq({Unset} \cup Bytes)
  /\ pc \in {"recommend", "next", "read", "write", "done"}
  /\ result \in {-1, 0, 1}
  /\ runs \in Nat

\* A copy that reports success is one, and a digest is that of the file, as
\* "calculate the SHA256 sum" (hash.c:145) says: if read() returns less than
\* there is only at the end of the file, since the rest of a block is put
\* where it begins (fsio.c:411), and does not work again after errors (419).
Honest == result = 0 /\ ~ub /\ faults \cap {"short", "transient"} = {} => out = Source

\* Whatever the system calls do, success is only reported of as many bytes as
\* the source has; unless read() works again after errors, which have been
\* counted as bytes (fsio.c:419).
Counted == result = 0 /\ ~ub /\ "transient" \notin faults => Len(out) = size

\* However little read() and write() do, every call comes to an end; unless
\* read() fails for good (fsio.c:419) or fstatvfs follows an interrupted call
\* (330).
Returns == faults \subseteq {"short", "full"} /\ pc = "recommend" ~> pc = "done"
=============================================================================
