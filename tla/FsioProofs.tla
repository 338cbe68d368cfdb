----------------------------- MODULE FsioProofs -----------------------------
(***************************************************************************)
(* Copies and digests of sources of any size, with blocks of any size: what *)
(* Fsio states of fsio_file_copy and fsio_file_read, whatever the system   *)
(* calls do of what the assumptions of each property let them do.          *)
(*                                                                         *)
(* Three invariants: where a block's two counters are whatever happens     *)
(* (RangeInv), how they relate to the position of the source and to the    *)
(* bytes that went out when read() does not work again after errors        *)
(* (CountInv), and what these bytes are when, besides, read() only comes up *)
(* short at the end (ContentInv).                                          *)
(***************************************************************************)
EXTENDS Fsio, SequenceTheorems, TLAPS

-----------------------------------------------------------------------------
(* What a block adds to the bytes that went out. *)

LEMMA Appended ==
  ASSUME NEW S, NEW o \in Seq(S), NEW b \in [1 .. Block -> S],
         NEW n \in Int, n <= Block
  PROVE  /\ o \o SubSeq(b, 1, n) \in Seq(S)
         /\ Len(o \o SubSeq(b, 1, n)) = IF n >= 1 THEN Len(o) + n ELSE Len(o)
         /\ \A i \in 1 .. Len(o) : (o \o SubSeq(b, 1, n))[i] = o[i]
         /\ \A i \in 1 .. n : (o \o SubSeq(b, 1, n))[Len(o) + i] = b[i]
<1> DEFINE s == SubSeq(b, 1, n)
<1>1. \A i \in 1 .. n : b[i] \in S
  BY FsioAssumption
<1>2. /\ s \in Seq(S)
      /\ Len(s) = IF 1 <= n THEN n - 1 + 1 ELSE 0
      /\ \A i \in 1 .. n - 1 + 1 : s[i] = b[1 + i - 1]
  BY <1>1, SubSeqProperties, 1 \in Int
<1>3. /\ s \in Seq(S)
      /\ Len(s) = IF n >= 1 THEN n ELSE 0
      /\ \A i \in 1 .. n : s[i] = b[i]
  <2>1. \A i \in 1 .. n : 1 + i - 1 = i /\ i \in 1 .. n - 1 + 1
    OBVIOUS
  <2> HIDE DEF s
  <2>2. \A i \in 1 .. n : s[i] = b[i]
    BY <1>2, <2>1
  <2> QED BY <1>2, <2>2
<1> HIDE DEF s
<1>4. /\ o \o s \in Seq(S)
      /\ Len(o \o s) = Len(o) + Len(s)
      /\ \A i \in 1 .. Len(o) + Len(s) :
           (o \o s)[i] = IF i <= Len(o) THEN o[i] ELSE s[i - Len(o)]
  BY <1>3, ConcatProperties
<1>5. Len(o) \in Nat /\ Len(s) \in Nat
  BY <1>3, LenProperties
<1>6. \A i \in 1 .. Len(o) : (o \o s)[i] = o[i]
  BY <1>4, <1>5
<1>7. ASSUME NEW i \in 1 .. n PROVE (o \o s)[Len(o) + i] = b[i]
  <2>1. Len(o) + i \in 1 .. Len(o) + Len(s) /\ ~(Len(o) + i <= Len(o)) /\ (Len(o) + i) - Len(o) = i
    BY <1>3, <1>5
  <2>2. (o \o s)[Len(o) + i] = s[(Len(o) + i) - Len(o)]
    BY <1>4, <2>1
  <2> QED BY <1>3, <2>1, <2>2
<1>8. Len(o \o s) = IF n >= 1 THEN Len(o) + n ELSE Len(o)
  BY <1>3, <1>4, <1>5
<1> QED BY <1>4, <1>6, <1>7, <1>8 DEF s

-----------------------------------------------------------------------------
(* Whatever the system calls do: the bytes asked for and those of the block *)
(* are a whole block together, also when failures are counted (up to       *)
(* MaxFails of them, a bound of the model).                                *)

RangeInv ==
  /\ TypeOK
  /\ pc = "write" => block <= Block /\ ask <= block /\ mode = "copy"

\* The counters, when an error of read() is for good: it then never leaves
\* the block it is in.
CountInv ==
  "transient" \notin faults =>
    /\ ~ub /\ reading # "again"
    /\ reading = "fails" => pc = "read" /\ ask > 0 /\ pos < size
    /\ pc \in {"recommend", "next"} => Len(out) = total /\ pos = total
    /\ pc = "read" /\ reading = "fine" =>
         block \in 0 .. Block /\ Len(out) = total /\ pos = total + block
    /\ pc = "write" =>
         ask \in 1 .. block /\ Len(out) = total + (block - ask) /\ pos = total + block
    /\ pc # "done" => result = 1
    /\ pc = "done" /\ result = 0 => Len(out) = size

\* What went out is the beginning of the source, and the buffer continues it,
\* when read() comes up short only at the end of the source.
Continues == \A i \in 1 .. Len(out) : out[i] = i
Buffered == \A i \in 1 .. block : buffer[i] = total + i

ContentInv ==
  faults \cap {"short", "transient"} = {} =>
    /\ pc \in {"recommend", "next", "read"} => Continues
    /\ pc = "read" /\ reading = "fine" =>
         (block = 0 \/ ask = 0 \/ pos = size) /\ Buffered
    /\ pc = "write" => Buffered /\ (ask = block => Continues)
    /\ pc = "done" /\ result = 0 => Continues

-----------------------------------------------------------------------------
(* RangeInv *)

LEMMA RangeInit == Init => RangeInv
<1> SUFFICES ASSUME Init PROVE RangeInv
  OBVIOUS
<1>1. buffer \in [1 .. Block -> {Unset} \cup Bytes]
  BY DEF Init
<1>2. out \in Seq({Unset} \cup Bytes)
  BY EmptySeq DEF Init
<1>3. size \in 0 .. MaxSize /\ pos \in 0 .. size /\ ask \in Int
  BY FsioAssumption DEF Init
<1>4. /\ mode \in {"copy", "digest"} /\ reading \in {"fine", "fails", "again"}
      /\ block \in Int /\ total \in Int /\ runs \in Nat
      /\ pc = "recommend" /\ result \in {-1, 0, 1}
  BY DEF Init
<1>5. stale \in BOOLEAN /\ ub \in BOOLEAN /\ faults \in FaultSets
  BY DEF Init
<1> QED BY <1>1, <1>2, <1>3, <1>4, <1>5 DEF RangeInv, TypeOK

LEMMA RangeAgain == RangeInv /\ Again => RangeInv'
<1> SUFFICES ASSUME RangeInv, Again PROVE RangeInv'
  OBVIOUS
<1>1. buffer' \in [1 .. Block -> {Unset} \cup Bytes]
  BY DEF Again
<1>2. out' \in Seq({Unset} \cup Bytes)
  BY EmptySeq DEF Again
<1> QED BY <1>1, <1>2, FsioAssumption DEF Again, RangeInv, TypeOK

LEMMA RangeNextBlock == RangeInv /\ NextBlock => RangeInv'
<1> SUFFICES ASSUME RangeInv, NextBlock PROVE RangeInv'
  OBVIOUS
<1>1. CASE More
  BY <1>1, FsioAssumption DEF NextBlock, RangeInv, TypeOK, input
<1>2. CASE ~More
  BY <1>2 DEF NextBlock, Ends, Outcome, RangeInv, TypeOK, input
<1> QED BY <1>1, <1>2

\* A read that returns n bytes, which may be more than the buffer takes.
LEMMA RangeReads ==
  ASSUME RangeInv, pc = "read", pos < size, NEW n \in 1 .. Least(ask, size - pos), Reads(n)
  PROVE  /\ buffer' \in [1 .. Block -> {Unset} \cup Bytes]
         /\ ub' \in BOOLEAN /\ pos' \in 0 .. size
         /\ ask' \in Int /\ ask' >= 0 /\ block' \in Int /\ ask' + block' = Block
<1> USE FsioAssumption DEF RangeInv, TypeOK
<1>1. n \in Nat /\ n <= ask /\ pos + n <= size
  BY DEF Least
<1>2. \A i \in 1 .. Block : i <= n => pos + i \in Bytes
  BY <1>1 DEF Bytes
<1>3. Filled(n) \in [1 .. Block -> {Unset} \cup Bytes]
  BY <1>2 DEF Filled
<1> QED BY <1>1, <1>3 DEF Reads

LEMMA RangeRead == RangeInv /\ Read => RangeInv'
<1> SUFFICES ASSUME RangeInv, Read PROVE RangeInv'
  OBVIOUS
<1>1. UNCHANGED <<mode, size, total, out, pc, result, stale, runs, faults>> /\ pc = "read" /\ ask > 0 /\ pos < size
  BY DEF Read, input
<1>2. CASE /\ \E n \in IF "short" \in faults THEN 1 .. Least(ask, size - pos)
                       ELSE {Least(ask, size - pos)} : Reads(n)
           /\ UNCHANGED reading
  <2>1. Least(ask, size - pos) \in 1 .. Least(ask, size - pos)
    BY <1>1, FsioAssumption DEF Least, RangeInv, TypeOK
  <2>2. PICK n \in 1 .. Least(ask, size - pos) : Reads(n)
    BY <1>2, <2>1
  <2> QED BY <1>1, <1>2, <2>2, RangeReads DEF RangeInv, TypeOK
<1>3. CASE reading' = "fails" /\ ReadFails /\ UNCHANGED <<buffer, pos, ub>>
  BY <1>1, <1>3, FsioAssumption DEF ReadFails, RangeInv, TypeOK
<1> QED BY <1>2, <1>3 DEF Read

LEMMA RangeEndBlock == RangeInv /\ EndBlock => RangeInv'
<1> SUFFICES ASSUME RangeInv, EndBlock PROVE RangeInv'
  OBVIOUS
<1>1. UNCHANGED <<mode, size, pos, buffer, reading, stale, runs, ub, faults>> /\ pc = "read"
  BY DEF EndBlock, input
<1>2. block \in Int /\ block <= Block /\ Got = block
  BY <1>1, FsioAssumption DEF RangeInv, TypeOK, Got
<1>3. out' \in Seq({Unset} \cup Bytes) /\ total' \in Int
  <2>1. Hashed \in Seq({Unset} \cup Bytes)
    BY <1>2, Appended, FsioAssumption DEF Hashed, RangeInv, TypeOK
  <2> QED BY <1>2, <2>1 DEF EndBlock, RangeInv, TypeOK
<1>4. /\ ask' \in Int /\ block' = block
      /\ pc' = "write" => ask' = block' /\ mode = "copy"
      /\ pc' \in {"done", "next", "write"} /\ result' \in {-1, 0, 1}
  BY <1>2, FsioAssumption DEF EndBlock, Ends, Outcome, RangeInv, TypeOK
<1>5. TypeOK'
  BY <1>1, <1>2, <1>3, <1>4 DEF RangeInv, TypeOK
<1>6. pc' = "write" => block' <= Block /\ ask' <= block' /\ mode' = "copy"
  BY <1>1, <1>2, <1>4, FsioAssumption
<1>7. pc' # "read"
  BY <1>4
<1> QED BY <1>5, <1>6, <1>7 DEF RangeInv

\* What a write leaves: the same block with less of it to write, or the end of
\* the block.
LEMMA RangeWrite == RangeInv /\ Write => RangeInv'
<1> SUFFICES ASSUME RangeInv, Write PROVE RangeInv'
  OBVIOUS
<1>1. UNCHANGED <<mode, size, pos, buffer, reading, stale, runs, ub, faults>> /\ pc = "write"
  BY DEF Write, input
<1>2. CASE Ends(-1) /\ UNCHANGED <<out, total>>
  BY <1>1, <1>2, FsioAssumption DEF Ends, RangeInv, TypeOK
<1>3. ASSUME ask > 0, NEW n \in 1 .. ask, out' = out \o SubSeq(buffer, 1, n),
             IF n < ask
             THEN ask' = ask - n /\ UNCHANGED <<pc, result, block, total>>
             ELSE IF Written(n) = block
                  THEN /\ total' = total + block
                       /\ pc' = "next"
                       /\ UNCHANGED <<ask, block, result>>
                  ELSE Ends(-1) /\ UNCHANGED total
      PROVE  RangeInv'
  <2>1. n \in Int /\ n <= Block
    BY <1>1, <1>3, FsioAssumption DEF RangeInv, TypeOK
  <2>2. out' \in Seq({Unset} \cup Bytes)
    BY <1>3, <2>1, Appended DEF RangeInv, TypeOK
  <2>3. /\ ask' \in Int /\ block' = block /\ total' \in Int
        /\ pc' = "write" => ask' <= block
        /\ pc' \in {"done", "next", "write"} /\ result' \in {-1, 0, 1}
    BY <1>1, <1>3, FsioAssumption DEF Ends, RangeInv, TypeOK
  <2> QED BY <1>1, <2>2, <2>3 DEF RangeInv, TypeOK
<1>4. ask > 0 => ask \in 1 .. ask
  BY DEF RangeInv, TypeOK
<1> QED BY <1>2, <1>3, <1>4 DEF Write

LEMMA RangeStep == RangeInv /\ [Next]_vars => RangeInv'
<1> SUFFICES ASSUME RangeInv, [Next]_vars PROVE RangeInv'
  OBVIOUS
<1>1. CASE Recommend
  BY <1>1 DEF Recommend, RangeInv, TypeOK, input
<1>2. CASE Mended
  BY <1>2 DEF Mended, RangeInv, TypeOK, input
<1>3. CASE Interrupt
  BY <1>3 DEF Interrupt, RangeInv, TypeOK, input
<1>4. CASE UNCHANGED vars
  BY <1>4 DEF vars, RangeInv, TypeOK, input
<1> QED
  BY <1>1, <1>2, <1>3, <1>4, RangeAgain, RangeNextBlock, RangeRead, RangeEndBlock, RangeWrite DEF Next

-----------------------------------------------------------------------------
(* CountInv *)

LEMMA CountInit == Init => CountInv
BY EmptySeq DEF Init, CountInv

LEMMA CountRead == RangeInv /\ CountInv /\ Read => CountInv'
<1> SUFFICES ASSUME RangeInv, CountInv, Read, "transient" \notin faults PROVE CountInv'
  BY DEF Read, CountInv
<1>1. UNCHANGED <<mode, size, total, out, pc, result, stale, runs, faults>> /\ pc = "read" /\ ask > 0 /\ pos < size
  BY DEF Read, input
<1>2. CASE /\ reading # "fails"
           /\ \E n \in IF "short" \in faults THEN 1 .. Least(ask, size - pos)
                       ELSE {Least(ask, size - pos)} : Reads(n)
           /\ UNCHANGED reading
  <2>1. Least(ask, size - pos) \in 1 .. Least(ask, size - pos)
    BY <1>1, FsioAssumption DEF Least, RangeInv, TypeOK
  <2>2. PICK n \in 1 .. Least(ask, size - pos) : Reads(n)
    BY <1>2, <2>1
  <2>3. reading = "fine" /\ reading' = "fine" /\ block \in 0 .. Block /\ n <= ask
    BY <1>1, <1>2, FsioAssumption DEF CountInv, RangeInv, TypeOK, Least
  <2>4. n \in Nat /\ ask + block = Block /\ n <= Block /\ block + n \in 0 .. Block
    BY <1>1, <2>3, FsioAssumption DEF RangeInv, TypeOK
  <2>5. ~ub' /\ pos' = pos + n /\ block' = block + n
    <3>1. ~ub /\ ~(n > Block)
      BY <2>4, FsioAssumption DEF CountInv
    <3>2. ub' = (ub \/ n > Block)
      BY <2>2 DEF Reads
    <3>3. ~ub'
      BY <3>1, <3>2, Zenon
    <3> QED BY <2>2, <3>3 DEF Reads
  <2> QED BY <1>1, <2>3, <2>4, <2>5 DEF CountInv, RangeInv, TypeOK
<1>3. CASE reading' = "fails" /\ ReadFails /\ UNCHANGED <<buffer, pos, ub>>
  <2>1. ask' > 0
    BY <1>1, <1>3 DEF ReadFails, RangeInv, TypeOK
  <2> QED BY <1>1, <1>3, <2>1 DEF CountInv
<1> QED BY <1>2, <1>3 DEF Read

LEMMA CountEndBlock == RangeInv /\ CountInv /\ EndBlock => CountInv'
<1> SUFFICES ASSUME RangeInv, CountInv, EndBlock, "transient" \notin faults PROVE CountInv'
  BY DEF EndBlock, CountInv
<1>1. UNCHANGED <<mode, size, pos, buffer, reading, stale, runs, ub, faults>> /\ pc = "read"
      /\ (ask = 0 \/ pos >= size)
  BY DEF EndBlock, input
<1>2. /\ reading = "fine" /\ ~ub /\ Got = block /\ result = 1
      /\ block \in 0 .. Block /\ Len(out) = total /\ pos = total + block
      /\ ask + block = Block /\ pos <= size /\ total \in Int /\ size \in Nat /\ Block \in Nat \ {0}
  BY <1>1, FsioAssumption DEF CountInv, RangeInv, TypeOK, Got
<1>3. CASE mode = "digest" /\ ~NoMore
  <2>1. out' = Hashed /\ total' = total + block /\ pc' = "next" /\ result' = 1
    BY <1>2, <1>3 DEF EndBlock
  <2>2. Len(Hashed) = total + block
    BY <1>2, <1>3, Appended DEF Hashed, RangeInv, TypeOK, NoMore
  <2> QED BY <1>1, <1>2, <2>1, <2>2 DEF CountInv
<1>4. CASE NoMore
  <2>1. block = 0 /\ total = size
    BY <1>1, <1>2, <1>4 DEF NoMore
  <2>2. Len(out') = Len(out)
    <3>1. CASE mode = "digest"
      BY <1>2, <2>1, <3>1, Appended DEF EndBlock, Hashed, RangeInv, TypeOK
    <3>2. CASE mode # "digest"
      BY <3>2 DEF EndBlock
    <3> QED BY <3>1, <3>2
  <2>3. pc' = "done"
    BY <1>4 DEF EndBlock, Ends
  <2> QED BY <1>1, <1>2, <2>1, <2>2, <2>3 DEF CountInv
<1>5. CASE mode # "digest" /\ ~NoMore
  <2>1. pc' = "write" /\ ask' = block /\ UNCHANGED <<block, result, out, total>> /\ block # 0
    BY <1>2, <1>5 DEF EndBlock, NoMore
  <2> QED BY <1>1, <1>2, <2>1 DEF CountInv
<1> QED BY <1>3, <1>4, <1>5

LEMMA CountWrite == RangeInv /\ CountInv /\ Write => CountInv'
<1> SUFFICES ASSUME RangeInv, CountInv, Write, "transient" \notin faults PROVE CountInv'
  BY DEF Write, CountInv
<1>1. UNCHANGED <<mode, size, pos, buffer, reading, stale, runs, ub, faults>> /\ pc = "write"
  BY DEF Write, input
<1>2. /\ ~ub /\ reading = "fine" /\ result = 1 /\ ask \in 1 .. block
      /\ Len(out) = total + (block - ask) /\ pos = total + block
      /\ block \in Int /\ block <= Block /\ total \in Int
  BY <1>1 DEF CountInv, RangeInv, TypeOK
<1>3. CASE Ends(-1) /\ UNCHANGED <<out, total>>
  BY <1>1, <1>2, <1>3 DEF Ends, CountInv
<1>4. ASSUME NEW n \in 1 .. ask, out' = out \o SubSeq(buffer, 1, n),
             IF n < ask
             THEN ask' = ask - n /\ UNCHANGED <<pc, result, block, total>>
             ELSE IF Written(n) = block
                  THEN /\ total' = total + block
                       /\ pc' = "next"
                       /\ UNCHANGED <<ask, block, result>>
                  ELSE Ends(-1) /\ UNCHANGED total
      PROVE  CountInv'
  <2>1. n \in Int /\ n >= 1 /\ n <= Block
    BY <1>2, <1>4, FsioAssumption
  <2>2. Len(out') = Len(out) + n
    BY <1>4, <2>1, Appended DEF RangeInv, TypeOK
  <2>3. CASE n < ask
    <3>1. ask' = ask - n /\ UNCHANGED <<pc, result, block, total>>
      BY <1>4, <2>3
    <3> QED BY <1>1, <1>2, <2>1, <2>2, <2>3, <3>1 DEF CountInv
  <2>4. CASE n = ask /\ n = block
    <3>1. total' = total + block /\ pc' = "next" /\ UNCHANGED <<ask, block, result>>
      BY <1>2, <1>4, <2>4 DEF Written
    <3> QED BY <1>1, <1>2, <2>1, <2>2, <2>4, <3>1 DEF CountInv
  <2>5. CASE n = ask /\ n # block
    <3>1. Ends(-1)
      BY <1>2, <1>4, <2>5 DEF Written
    <3> QED BY <1>1, <1>2, <3>1 DEF CountInv, Ends
  <2> QED BY <1>2, <1>4, <2>3, <2>4, <2>5
<1>5. ask \in 1 .. ask
  BY <1>2
<1> QED BY <1>3, <1>4, <1>5 DEF Write

LEMMA CountStep == RangeInv /\ CountInv /\ [Next]_vars => CountInv'
<1> SUFFICES ASSUME RangeInv, CountInv, [Next]_vars PROVE CountInv'
  OBVIOUS
<1>1. CASE Again
  BY <1>1, EmptySeq DEF Again, CountInv
<1>2. CASE Recommend
  BY <1>2 DEF Recommend, CountInv, input
<1>3. CASE NextBlock
  <2>1. CASE More
    BY <1>3, <2>1, FsioAssumption DEF NextBlock, CountInv, RangeInv, TypeOK, input
  <2>2. CASE ~More
    BY <1>3, <2>2 DEF NextBlock, More, Ends, Outcome, CountInv, RangeInv, TypeOK, input
  <2> QED BY <2>1, <2>2
<1>4. CASE Mended
  BY <1>4 DEF Mended, CountInv
<1>5. CASE Interrupt
  BY <1>5 DEF Interrupt, CountInv, input
<1>6. CASE UNCHANGED vars
  BY <1>6 DEF vars, CountInv, input
<1> QED BY <1>1, <1>2, <1>3, <1>4, <1>5, <1>6, CountRead, CountEndBlock, CountWrite DEF Next

-----------------------------------------------------------------------------
(* ContentInv *)

\* The block continues what went out, as far as it goes out.
LEMMA ContinuesAppended ==
  ASSUME RangeInv, Continues, Buffered, NEW n \in Int, n <= Block, n <= block,
         Len(out) = total, out' = out \o SubSeq(buffer, 1, n)
  PROVE  Continues'
<1>1. /\ Len(out') = IF n >= 1 THEN Len(out) + n ELSE Len(out)
      /\ \A i \in 1 .. Len(out) : out'[i] = out[i]
      /\ \A i \in 1 .. n : out'[Len(out) + i] = buffer[i]
      /\ Len(out) \in Nat
  <2>1. out \in Seq({Unset} \cup Bytes) /\ buffer \in [1 .. Block -> {Unset} \cup Bytes]
    BY DEF RangeInv, TypeOK
  <2>2. /\ Len(out \o SubSeq(buffer, 1, n)) = IF n >= 1 THEN Len(out) + n ELSE Len(out)
        /\ \A i \in 1 .. Len(out) : (out \o SubSeq(buffer, 1, n))[i] = out[i]
        /\ \A i \in 1 .. n : (out \o SubSeq(buffer, 1, n))[Len(out) + i] = buffer[i]
    BY <2>1, Appended
  <2>3. Len(out) \in Nat
    BY <2>1, LenProperties
  <2> HIDE DEF RangeInv
  <2> QED BY <2>2, <2>3
<1>2. block \in Int
  BY DEF RangeInv, TypeOK
<1>3. ASSUME NEW i \in 1 .. Len(out') PROVE out'[i] = i
  <2>1. CASE i <= Len(out)
    BY <1>1, <2>1 DEF Continues
  <2>2. CASE i > Len(out)
    <3>1. PICK j \in 1 .. n : i = Len(out) + j
      <4>1. i - Len(out) \in 1 .. n /\ i = Len(out) + (i - Len(out))
        BY <1>1, <2>2
      <4> QED BY <4>1
    <3>2. out'[i] = buffer[j] /\ j \in 1 .. block
      BY <1>1, <1>2, <3>1
    <3> QED BY <3>1, <3>2 DEF Buffered
  <2> QED BY <1>1, <2>1, <2>2
<1> QED BY <1>3 DEF Continues

LEMMA ContentInit == Init => ContentInv
<1> SUFFICES ASSUME Init PROVE ContentInv
  OBVIOUS
<1>1. Len(out) = 0
  BY EmptySeq DEF Init
<1>2. Continues
  BY <1>1 DEF Continues
<1> QED BY <1>2 DEF Init, ContentInv

\* Only the first read of a block puts bytes into it.
LEMMA ContentRead == RangeInv /\ CountInv /\ ContentInv /\ Read => ContentInv'
<1> SUFFICES ASSUME RangeInv, CountInv, ContentInv, Read, faults \cap {"short", "transient"} = {}
             PROVE  ContentInv'
  BY DEF Read, ContentInv
<1>1. UNCHANGED <<mode, size, total, out, pc, result, stale, runs, faults>> /\ pc = "read" /\ ask > 0 /\ pos < size
  BY DEF Read, input
<1>2. "short" \notin faults /\ "transient" \notin faults
  OBVIOUS
<1>3. Continues'
  BY <1>1 DEF ContentInv, Continues
<1>4. CASE /\ reading # "fails"
           /\ \E n \in IF "short" \in faults THEN 1 .. Least(ask, size - pos)
                       ELSE {Least(ask, size - pos)} : Reads(n)
           /\ UNCHANGED reading
  <2>1. PICK n \in {Least(ask, size - pos)} : Reads(n)
    BY <1>2, <1>4
  <2>2. reading = "fine"
    BY <1>2, <1>4 DEF CountInv, RangeInv, TypeOK
  <2>3. block = 0 /\ pos = total /\ ask = Block
    BY <1>1, <1>2, <2>2, FsioAssumption DEF ContentInv, CountInv, RangeInv, TypeOK
  <2>4. n \in 1 .. Block /\ (n = ask \/ n = size - pos)
    BY <1>1, <2>1, <2>3, FsioAssumption DEF Least, RangeInv, TypeOK
  <2>5. block' = n /\ ask' = ask - n /\ pos' = pos + n /\ buffer' = Filled(n)
    BY <2>1, <2>3, <2>4 DEF Reads
  <2>6. ask' = 0 \/ pos' = size'
    BY <1>1, <2>3, <2>4, <2>5, FsioAssumption DEF RangeInv, TypeOK
  <2>7. ASSUME NEW i \in 1 .. block' PROVE buffer'[i] = total' + i
    BY <1>1, <2>3, <2>4, <2>5, FsioAssumption DEF Filled, RangeInv, TypeOK
  <2> QED BY <1>1, <1>3, <2>6, <2>7 DEF ContentInv, Buffered
<1>5. CASE reading' = "fails"
  BY <1>1, <1>3, <1>5 DEF ContentInv
<1> QED BY <1>4, <1>5 DEF Read

LEMMA ContentEndBlock == RangeInv /\ CountInv /\ ContentInv /\ EndBlock => ContentInv'
<1> SUFFICES ASSUME RangeInv, CountInv, ContentInv, EndBlock, faults \cap {"short", "transient"} = {}
             PROVE  ContentInv'
  BY DEF EndBlock, ContentInv
<1>1. UNCHANGED <<mode, size, pos, buffer, reading, stale, runs, ub, faults>> /\ pc = "read"
  BY DEF EndBlock, input
<1>2. reading = "fine" /\ block \in 0 .. Block /\ Len(out) = total /\ Got = block
      /\ Continues /\ Buffered
  <2>1. "transient" \notin faults
    OBVIOUS
  <2>2. reading = "fine" /\ block \in 0 .. Block /\ Len(out) = total
    <3>1. reading # "fails"
      BY <1>1, <2>1 DEF EndBlock, CountInv, RangeInv, TypeOK
    <3> QED BY <1>1, <2>1, <3>1 DEF CountInv, RangeInv, TypeOK
  <2> QED BY <1>1, <2>2 DEF ContentInv, Got
<1>3. CASE mode = "digest"
  <2>1. out' = out \o SubSeq(buffer, 1, block)
    BY <1>2, <1>3 DEF EndBlock, Hashed
  <2>2. Continues'
    BY <1>2, <2>1, ContinuesAppended, FsioAssumption
  <2>3. pc' \in {"done", "next"}
    BY <1>3 DEF EndBlock, Ends
  <2> QED BY <1>1, <2>2, <2>3 DEF ContentInv
<1>4. CASE mode # "digest"
  <2>1. UNCHANGED <<out, total, block>> /\ (pc' = "done" \/ (pc' = "write" /\ ask' = block))
    BY <1>2, <1>4 DEF EndBlock, Ends
  <2>2. Continues' /\ Buffered'
    BY <1>1, <1>2, <2>1 DEF Continues, Buffered
  <2> QED BY <1>1, <2>1, <2>2 DEF ContentInv
<1> QED BY <1>3, <1>4

\* Only a block that is written at once is written right, and it is the only one
\* after which the copy goes on.
LEMMA ContentWrite == RangeInv /\ CountInv /\ ContentInv /\ Write => ContentInv'
<1> SUFFICES ASSUME RangeInv, CountInv, ContentInv, Write, faults \cap {"short", "transient"} = {}
             PROVE  ContentInv'
  BY DEF Write, ContentInv
<1>1. UNCHANGED <<mode, size, pos, buffer, reading, stale, runs, ub, faults>> /\ pc = "write"
  BY DEF Write, input
<1>2. /\ Buffered /\ (ask = block => Continues)
      /\ ask \in 1 .. block /\ Len(out) = total + (block - ask) /\ result = 1
      /\ block \in Int /\ block <= Block /\ total \in Int
  BY <1>1 DEF ContentInv, CountInv, RangeInv, TypeOK
<1>3. CASE Ends(-1)
  BY <1>1, <1>3 DEF Ends, ContentInv
<1>4. ASSUME NEW n \in 1 .. ask, out' = out \o SubSeq(buffer, 1, n),
             IF n < ask
             THEN ask' = ask - n /\ UNCHANGED <<pc, result, block, total>>
             ELSE IF Written(n) = block
                  THEN /\ total' = total + block
                       /\ pc' = "next"
                       /\ UNCHANGED <<ask, block, result>>
                  ELSE Ends(-1) /\ UNCHANGED total
      PROVE  ContentInv'
  <2>1. CASE n < ask
    <3>1. ask' = ask - n /\ UNCHANGED <<pc, result, block, total>>
      BY <1>4, <2>1
    <3>2. Buffered' /\ ask' # block'
      BY <1>1, <1>2, <1>4, <2>1, <3>1 DEF Buffered
    <3> QED BY <1>1, <3>1, <3>2 DEF ContentInv
  <2>2. CASE n = ask /\ n = block
    <3>1. pc' = "next"
      BY <1>2, <1>4, <2>2 DEF Written
    <3>2. n \in Int /\ n <= Block /\ n <= block /\ Len(out) = total /\ Continues
      BY <1>2, <2>2, FsioAssumption
    <3>3. Continues'
      BY <1>2, <1>4, <3>2, ContinuesAppended
    <3> QED BY <3>1, <3>3 DEF ContentInv
  <2>3. CASE n = ask /\ n # block
    <3>1. Ends(-1)
      BY <1>2, <1>4, <2>3 DEF Written
    <3> QED BY <1>1, <3>1 DEF ContentInv, Ends
  <2> QED BY <1>2, <1>4, <2>1, <2>2, <2>3
<1>5. ask \in 1 .. ask
  BY <1>2
<1> QED BY <1>3, <1>4, <1>5 DEF Write

LEMMA ContentStep == RangeInv /\ CountInv /\ ContentInv /\ [Next]_vars => ContentInv'
<1> SUFFICES ASSUME RangeInv, CountInv, ContentInv, [Next]_vars PROVE ContentInv'
  OBVIOUS
<1>1. CASE Again
  <2>1. Len(out') = 0
    BY <1>1, EmptySeq DEF Again
  <2>2. Continues'
    BY <2>1 DEF Continues
  <2> QED BY <1>1, <2>2 DEF Again, ContentInv
<1>2. CASE Recommend
  BY <1>2 DEF Recommend, ContentInv, Continues
<1>3. CASE NextBlock
  <2>1. UNCHANGED <<out, faults, pos, size, total, buffer>> /\ (pc' = "done" \/ (pc' = "read" /\ block' = 0))
        /\ pc = "next"
    BY <1>3 DEF NextBlock, Ends, input
  <2>2. faults \cap {"short", "transient"} = {} => Continues'
    BY <2>1 DEF ContentInv, Continues
  <2>3. block' = 0 => Buffered'
    BY DEF Buffered
  <2> QED BY <2>1, <2>2, <2>3 DEF ContentInv
<1>4. CASE Mended
  <2>1. "transient" \in faults /\ faults' = faults
    BY <1>4 DEF Mended
  <2> QED BY <2>1 DEF ContentInv
<1>5. CASE Interrupt
  BY <1>5 DEF Interrupt, ContentInv, Continues, Buffered, input
<1>6. CASE UNCHANGED vars
  BY <1>6 DEF vars, ContentInv, Continues, Buffered, input
<1> QED BY <1>1, <1>2, <1>3, <1>4, <1>5, <1>6, ContentRead, ContentEndBlock, ContentWrite DEF Next

FsioInv == RangeInv /\ CountInv /\ ContentInv

LEMMA FsioAlways == Spec => []FsioInv
<1>1. Init => FsioInv
  BY RangeInit, CountInit, ContentInit DEF FsioInv
<1>2. FsioInv /\ [Next]_vars => FsioInv'
  BY RangeStep, CountStep, ContentStep DEF FsioInv
<1> QED BY <1>1, <1>2, PTL DEF Spec

-----------------------------------------------------------------------------
\* Whatever read and write do, and however often read fails: no more is ever read
\* than was asked for, the source is not read past its end, and what is asked for
\* and what the block holds stay one block together.  Nothing bounds either of
\* the two: each failure moves them apart (fsio.c:419).
THEOREM FsioTypeCorrect == Spec => []TypeOK
<1>1. FsioInv => TypeOK
  BY DEF FsioInv, RangeInv
<1> QED BY <1>1, FsioAlways, PTL

\* A copy or a digest that reports success is of as many bytes as the source
\* has, whatever signals, short reads, errors and partial writes came between,
\* as long as an error of read is for good.
THEOREM SuccessIsCounted == Spec => []Counted
<1>1. FsioInv => Counted
  <2> SUFFICES ASSUME FsioInv, result = 0, "transient" \notin faults PROVE Len(out) = size
    BY DEF Counted
  <2>1. pc = "done"
    BY DEF FsioInv, CountInv
  <2> QED BY <2>1 DEF FsioInv, CountInv
<1> QED BY <1>1, FsioAlways, PTL

\* A copy that reports success is the source, and a digest is of the source, for
\* any sizes of source and block, when read comes up short only at the end and
\* its errors are for good: a partial write is written again from the start of
\* the block, and is never reported as a success.
THEOREM SuccessIsHonest == Spec => []Honest
<1>1. FsioInv => Honest
  <2> SUFFICES ASSUME FsioInv, result = 0, faults \cap {"short", "transient"} = {} PROVE out = Source
    BY DEF Honest
  <2>1. pc = "done" /\ Len(out) = size
    BY DEF FsioInv, CountInv
  <2>2. Continues
    BY <2>1 DEF FsioInv, ContentInv
  <2>3. out \in [1 .. Len(out) -> {Unset} \cup Bytes]
    BY LenProperties DEF FsioInv, RangeInv, TypeOK
  <2> QED BY <2>1, <2>2, <2>3 DEF Source, Continues
<1> QED BY <1>1, FsioAlways, PTL
=============================================================================
