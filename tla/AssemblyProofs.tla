--------------------------- MODULE AssemblyProofs ---------------------------
(***************************************************************************)
(* Proofs about Assembly, for any book, any floor of a part, any number of *)
(* receives and any number of faults: the memory of the writer is bounded, *)
(* S3 accepts its parts, no upload is left open without a cause, the last  *)
(* attempt degrades instead of being dead-lettered; book.mp3 is the whole  *)
(* narration or is not there, each byte range of a manifest holds the      *)
(* frames of its chunk, the timeline is never off, however many durations  *)
(* it adds up, and the stitcher, call by call, implements Stitched.        *)
(***************************************************************************)
EXTENDS Assembly, Recursion, SequenceTheorems, FiniteSetTheorems, TLAPS

-----------------------------------------------------------------------------
(* Uploads: who can still close them *)

\* Every action keeps the count, so it is inductive once typed.
UploadsInv ==
  /\ uploads \in Nat /\ orphans \in Nat
  /\ pc \in StitcherPcs
  /\ UploadsAccountedFor

LEMMA UploadsInit == Init => UploadsInv
  BY DEF Init, UploadsInv, UploadsAccountedFor, HoldsUpload, StitcherPcs

LEMMA UploadsStep == UploadsInv /\ [Next]_vars => UploadsInv'
  <1> SUFFICES ASSUME UploadsInv, [Next]_vars PROVE UploadsInv'
    OBVIOUS
  <1> USE DEF UploadsInv, UploadsAccountedFor, HoldsUpload, StitcherPcs
  <1>1. CASE List
    BY <1>1 DEF List
  <1>2. CASE Create
    BY <1>2 DEF Create, Fault
  <1>3. CASE Read
    <2>1. pc' \in {"read", "write"} /\ pc = "read" /\ UNCHANGED <<uploads, orphans>>
      BY <1>3 DEF Read
    <2> QED
      BY <2>1
  <1>4. CASE ReadFails
    BY <1>4 DEF ReadFails, Leave
  <1>5. CASE UploadPart
    BY <1>5 DEF UploadPart, Leave
  <1>6. CASE Written
    BY <1>6 DEF Written
  <1>7. CASE Flush
    BY <1>7 DEF Flush, Leave
  <1>8. CASE Complete
    <2>1. pc = "complete" /\ uploads' = uploads - 1 /\ UNCHANGED orphans
      BY <1>8 DEF Complete
    <2>2. pc' \in {"manifest", "abortClosed"}
      BY <1>8 DEF Complete
    <2> QED
      BY <2>1, <2>2
  <1>9. CASE CompleteFails
    BY <1>9 DEF CompleteFails, Leave
  <1>10. CASE Abort
    BY <1>10 DEF Abort, Fault
  <1>11. CASE AbortClosed
    BY <1>11 DEF AbortClosed
  <1>12. CASE Transient
    BY <1>12 DEF Transient, Raise
  <1>13. CASE PutManifest
    BY <1>13 DEF PutManifest
  <1>14. CASE PutManifestFails
    BY <1>14 DEF PutManifestFails, Raise
  <1>15. CASE Finish
    BY <1>15 DEF Finish
  <1>16. CASE Crash
    BY <1>16 DEF Crash, Raise, AtRest
  <1>17. CASE TableFails
    BY <1>17 DEF TableFails, Raise
  <1>18. CASE UNCHANGED vars
    BY <1>18 DEF vars
  <1> QED
    BY <1>1, <1>2, <1>3, <1>4, <1>5, <1>6, <1>7, <1>8, <1>9, <1>10, <1>11, <1>12, <1>13,
       <1>14, <1>15, <1>16, <1>17, <1>18 DEF Next

\* No multipart upload stays open but those whose id was lost
\* (s3_object_storage.py:85-113).
THEOREM UploadsAreClosed == Spec => []UploadsAccountedFor
  <1>1. UploadsInv => UploadsAccountedFor
    BY DEF UploadsInv
  <1> QED
    BY UploadsInit, UploadsStep, <1>1, PTL DEF Spec

\* The stitch message is dead-lettered by a dying Lambda, a manifest that
\* cannot be written or a call of the table that raises, never by a call of
\* storage that fails while book.mp3 is made (stitching.py:149, 273-309, 356).
THEOREM LastAttemptDegrades == Spec => DeadOnlyWithoutWayOut
  <1> DEFINE WayOut == Crash \/ TableFails \/ (PutManifestFails /\ ~plan.degraded)
  <1>1. [Next]_vars => [pc' = "dead" => WayOut]_vars
    <2> SUFFICES ASSUME Next, pc' = "dead" PROVE WayOut
      OBVIOUS
    <2>1. CASE PutManifestFails
      BY <2>1 DEF PutManifestFails
    <2>2. ~Transient
      BY DEF Transient, Raise, RetriesLeft
    <2>3. pc # "dead"
      BY DEF Next, List, Create, Read, ReadFails, UploadPart, Written, Flush, Complete, CompleteFails,
             Abort, AbortClosed, Transient, PutManifest, PutManifestFails, Finish,
             TableFails, Crash, AtRest
    <2>4. ~(List \/ Create \/ Read \/ ReadFails \/ UploadPart \/ Written \/ Flush)
      BY <2>3 DEF List, Create, Read, ReadFails, UploadPart, Written, Flush, Leave
    <2>5. ~(Complete \/ CompleteFails \/ Abort \/ AbortClosed \/ PutManifest \/ Finish)
      BY DEF Complete, CompleteFails, Abort, AbortClosed, PutManifest, Finish, Leave
    <2> QED
      BY <2>1, <2>2, <2>4, <2>5 DEF Next
  <1> QED
    BY <1>1, PTL DEF Spec, DeadOnlyWithoutWayOut

-----------------------------------------------------------------------------
(* The writer: its memory and its parts *)

Bytes == Chunks \X Nat

\* The buffer is below the floor between two clips, grows by one clip, and is
\* drained part by part; so every part but the one of the flush is a full one.
WriterInv ==
  /\ done \subseteq Chunks /\ todo \subseteq done
  /\ size \in [done -> Sizes]
  /\ buffer \in Seq(Bytes) /\ parts \in Seq(Seq(Bytes))
  /\ pc \in {"list", "create"} => buffer = <<>> /\ parts = <<>>
  /\ pc = "read" => Len(buffer) < MIN_PART_BYTES
  /\ pc \in {"read", "write"} => \A k \in 1 .. Len(parts) : Len(parts[k]) = MIN_PART_BYTES
  /\ PartsAreLegal
  /\ BufferBounded

\* The parts of the writer that only the writer's own steps look at.
LEMMA ElsewhereKept ==
  ASSUME WriterInv, UNCHANGED <<clipVars, writerVars>>,
         pc' \notin {"list", "create", "read", "write", "complete"}
  PROVE  WriterInv'
  BY DEF WriterInv, clipVars, writerVars, PartsAreLegal, BufferBounded

LEMMA RaiseKept ==
  ASSUME WriterInv, UNCHANGED clipVars, Raise
  PROVE  WriterInv'
  <1>1. buffer' = <<>> /\ parts' = <<>> /\ todo' = {} /\ pc' \in {"list", "dead"}
    BY DEF Raise, Reset
  <1>2. Len(buffer') = 0 /\ 0 \in Sizes \cup {0}
    BY <1>1
  <1>3. BufferBounded'
    BY <1>2, AssemblyAssumption DEF BufferBounded, AssemblyAssumption
  <1> QED
    BY <1>1, <1>3 DEF WriterInv, clipVars, PartsAreLegal

LEMMA LesserOfTwo ==
  ASSUME NEW a \in Nat, NEW b \in Nat, a <= b
  PROVE  Min({a, b}) = a
  <1>1. a \in {a, b} /\ \A y \in {a, b} : a <= y
    OBVIOUS
  <1>2. \A x \in {a, b} : (\A y \in {a, b} : x <= y) => x = a
    OBVIOUS
  <1> QED
    BY <1>1, <1>2 DEF Min

LEMMA FramesTyped ==
  ASSUME WriterInv, NEW c \in done
  PROVE  Frames(c) \in Seq(Bytes) /\ Len(Frames(c)) = size[c] /\ size[c] \in Sizes /\ size[c] \in Nat
  <1>1. size[c] \in Sizes /\ size[c] \in Nat /\ c \in Chunks
    BY AssemblyAssumption DEF WriterInv, AssemblyAssumption
  <1> QED
    BY <1>1 DEF Frames, Bytes

LEMMA WriterInit == Init => WriterInv
  <1> SUFFICES ASSUME Init PROVE WriterInv
    OBVIOUS
  <1>1. BufferBounded
    <2>1. Len(buffer) = 0 /\ 0 \in Sizes \cup {0}
      BY DEF Init
    <2> QED
      BY <2>1, AssemblyAssumption DEF BufferBounded, AssemblyAssumption
  <1> QED
    BY <1>1 , AssemblyAssumption DEF Init, WriterInv, PartsAreLegal, AssemblyAssumption

LEMMA ReadKept == ASSUME WriterInv, Read PROVE WriterInv'
  <1>1. pc = "read" /\ Len(buffer) < MIN_PART_BYTES /\ UNCHANGED <<clipVars, parts>>
    BY DEF Read, WriterInv
  <1>2. PICK c \in todo : /\ todo' = todo \ {c}
                          /\ IF size[c] = 0 THEN UNCHANGED <<pc, buffer, entries>>
                             ELSE pc' = "write" /\ buffer' = buffer \o Frames(c) /\ entries' = Append(entries, c)
    BY DEF Read
  <1>3. CASE size[c] = 0
    BY <1>1, <1>2, <1>3 DEF WriterInv, clipVars, PartsAreLegal, BufferBounded
  <1>4. CASE size[c] # 0
    <2>1. pc' = "write" /\ buffer' = buffer \o Frames(c)
      BY <1>2, <1>4
    <2>2. Frames(c) \in Seq(Bytes) /\ Len(Frames(c)) = size[c] /\ size[c] \in Sizes /\ size[c] \in Nat
      BY FramesTyped DEF WriterInv
    <2>3. buffer' \in Seq(Bytes) /\ Len(buffer') = Len(buffer) + size[c] /\ Len(buffer) \in Nat
      <3> DEFINE f == Frames(c)
      <3>1. buffer \in Seq(Bytes) /\ f \in Seq(Bytes) /\ Len(f) = size[c]
        BY <2>2 DEF WriterInv
      <3>2. buffer' = buffer \o f
        BY <2>1
      <3> HIDE DEF f
      <3>3. buffer \o f \in Seq(Bytes) /\ Len(buffer \o f) = Len(buffer) + Len(f)
        BY <3>1, ConcatProperties
      <3> QED
        BY <3>1, <3>2, <3>3, LenProperties
    <2>4. BufferBounded'
      BY <1>1, <2>2, <2>3, AssemblyAssumption DEF BufferBounded, AssemblyAssumption
    <2> QED
      BY <1>1, <1>2, <2>1, <2>3, <2>4 DEF WriterInv, clipVars, PartsAreLegal
  <1> QED
    BY <1>3, <1>4

LEMMA UploadPartKept == ASSUME WriterInv, UploadPart PROVE WriterInv'
  <1>1. pc = "write" /\ Len(buffer) >= MIN_PART_BYTES /\ UNCHANGED clipVars
    BY DEF UploadPart, FullPart
  <1>2. CASE Leave
    BY <1>1, <1>2, ElsewhereKept DEF Leave
  <1>3. CASE ~Leave
    <2> DEFINE n == Min({MIN_PART_BYTES, Len(buffer)})
    <2>1. /\ parts' = Append(parts, SubSeq(buffer, 1, n))
          /\ buffer' = SubSeq(buffer, n + 1, Len(buffer))
          /\ UNCHANGED <<pc, todo, entries>>
      BY <1>3 DEF UploadPart
    <2>2. MIN_PART_BYTES \in Nat \ {0} /\ Len(buffer) \in Nat /\ buffer \in Seq(Bytes)
      BY AssemblyAssumption DEF AssemblyAssumption, WriterInv
    <2>3. n = MIN_PART_BYTES
      BY <1>1, <2>2, LesserOfTwo
    <2> HIDE DEF n
    <2>4. SubSeq(buffer, 1, n) \in Seq(Bytes) /\ Len(SubSeq(buffer, 1, n)) = MIN_PART_BYTES
      BY <1>1, <2>2, <2>3
    <2>5. buffer' \in Seq(Bytes) /\ Len(buffer') = Len(buffer) - MIN_PART_BYTES
      BY <1>1, <2>1, <2>2, <2>3
    <2>6. parts' \in Seq(Seq(Bytes)) /\ \A k \in 1 .. Len(parts') : Len(parts'[k]) = MIN_PART_BYTES
      BY <1>1, <2>1, <2>4 DEF WriterInv
    <2>7. BufferBounded'
      BY <2>2, <2>5, AssemblyAssumption DEF BufferBounded, WriterInv, AssemblyAssumption
    <2> QED
      BY <1>1, <2>1, <2>5, <2>6, <2>7 DEF WriterInv, clipVars, PartsAreLegal
  <1> QED
    BY <1>2, <1>3

LEMMA FlushKept == ASSUME WriterInv, Flush PROVE WriterInv'
  <1>1. pc = "read" /\ UNCHANGED clipVars
    BY DEF Flush
  <1>2. CASE Leave
    BY <1>1, <1>2, ElsewhereKept DEF Leave
  <1>3. CASE ~Leave
    <2>1. /\ parts' = IF TailToUpload THEN Append(parts, buffer) ELSE parts
          /\ buffer' = <<>> /\ pc' = "complete"
          /\ UNCHANGED <<todo, entries>>
      BY <1>3 DEF Flush
    <2>2. /\ parts \in Seq(Seq(Bytes)) /\ buffer \in Seq(Bytes) /\ MIN_PART_BYTES \in Nat
          /\ \A k \in 1 .. Len(parts) : Len(parts[k]) = MIN_PART_BYTES
      BY <1>1, AssemblyAssumption DEF WriterInv, AssemblyAssumption
    <2>3. parts' \in Seq(Seq(Bytes)) /\ PartsAreLegal'
      <3>1. CASE TailToUpload
        <4>1. parts' = Append(parts, buffer)
          BY <2>1, <3>1
        <4>2. Len(parts') = Len(parts) + 1 /\ \A k \in 1 .. Len(parts) : parts'[k] = parts[k]
          BY <2>2, <4>1
        <4> QED
          BY <2>2, <4>1, <4>2 DEF PartsAreLegal
      <3>2. CASE ~TailToUpload
        BY <2>1, <2>2, <3>2 DEF PartsAreLegal, TailToUpload
      <3> QED
        BY <3>1, <3>2
    <2>4. BufferBounded'
      <3>1. Len(buffer') = 0 /\ 0 \in Sizes \cup {0}
        BY <2>1
      <3> QED
        BY <3>1, AssemblyAssumption DEF BufferBounded, AssemblyAssumption
    <2> QED
      BY <1>1, <2>1, <2>3, <2>4 DEF WriterInv, clipVars
  <1> QED
    BY <1>2, <1>3

LEMMA WriterStep == WriterInv /\ [Next]_vars => WriterInv'
  <1> SUFFICES ASSUME WriterInv, [Next]_vars PROVE WriterInv'
    OBVIOUS
  <1>1. CASE List
    BY <1>1 DEF List, WriterInv, clipVars, PartsAreLegal, BufferBounded
  <1>2. CASE Create
    <2>1. Len(<<>>) = 0 /\ Len(<<>>) < MIN_PART_BYTES
      BY AssemblyAssumption DEF AssemblyAssumption
    <2>2. /\ pc = "create" /\ UNCHANGED <<clipVars, writerVars>>
          /\ pc' \in {"read", "transient"}
      BY <1>2 DEF Create
    <2>3. buffer = <<>> /\ parts = <<>>
      BY <2>2 DEF WriterInv
    <2> QED
      BY <2>1, <2>2, <2>3 DEF WriterInv, clipVars, writerVars, PartsAreLegal, BufferBounded
  <1>3. CASE Read
    BY <1>3, ReadKept
  <1>4. CASE UploadPart
    BY <1>4, UploadPartKept
  <1>5. CASE Written
    BY <1>5, AssemblyAssumption
       DEF Written, FullPart, WriterInv, clipVars, writerVars, PartsAreLegal, BufferBounded, AssemblyAssumption
  <1>6. CASE Flush
    BY <1>6, FlushKept
  <1>7. CASE ReadFails \/ CompleteFails
    BY <1>7, ElsewhereKept DEF ReadFails, CompleteFails, Leave
  <1>8. CASE Complete \/ Abort \/ AbortClosed \/ PutManifest \/ Finish
    <2>1. UNCHANGED <<clipVars, writerVars>> /\ pc' \in {"manifest", "abortClosed", "transient", "finish", "done"}
      BY <1>8 DEF Complete, Abort, AbortClosed, PutManifest, Finish
    <2> QED
      BY <2>1, ElsewhereKept
  <1>9. CASE Transient \/ PutManifestFails \/ TableFails \/ Crash
    <2>1. UNCHANGED clipVars
      BY <1>9 DEF Transient, PutManifestFails, TableFails, Crash
    <2>2. Raise \/ (UNCHANGED writerVars /\ pc' \in {"manifest", "finish"})
      BY <1>9 DEF Transient, PutManifestFails, TableFails, Crash
    <2> QED
      BY <2>1, <2>2, RaiseKept, ElsewhereKept
  <1>10. CASE UNCHANGED vars
    BY <1>10 DEF vars, WriterInv, clipVars, writerVars, PartsAreLegal, BufferBounded
  <1> QED
    BY <1>1, <1>2, <1>3, <1>4, <1>5, <1>6, <1>7, <1>8, <1>9, <1>10 DEF Next

\* However long the book, the writer holds less than one part and the frames
\* of one clip (s3_object_storage.py:34-37).
THEOREM MemoryBounded == Spec => []BufferBounded
  <1>1. WriterInv => BufferBounded
    BY DEF WriterInv
  <1> QED
    BY WriterInit, WriterStep, <1>1, PTL DEF Spec

\* Whatever the sizes of the clips, S3 is asked to join one part at least, of
\* which all but the last reach the floor (s3_object_storage.py:20-22, 96-109).
THEOREM PartsAccepted == Spec => []PartsAreLegal
  <1>1. WriterInv => PartsAreLegal
    BY DEF WriterInv
  <1> QED
    BY WriterInit, WriterStep, <1>1, PTL DEF Spec

-----------------------------------------------------------------------------
(* Plans, chunk by chunk *)

LEMMA RoundingOff ==
  ASSUME NEW n \in Nat, NEW d \in Nat \ {0}
  PROVE  /\ Round(n, d) \in Nat
         /\ -d <= 2 * (d * Round(n, d) - n) /\ 2 * (d * Round(n, d) - n) <= d
  <1> DEFINE down == n \div d
             rest == n % d
  <1>1. down \in Nat /\ rest \in Nat /\ rest < d /\ n = d * down + rest
    OBVIOUS
  <1> HIDE DEF down, rest
  <1>2. d * (down + 1) = d * down + d
    BY <1>1
  <1>3. \/ Round(n, d) = down /\ 2 * rest <= d
        \/ Round(n, d) = down + 1 /\ 2 * rest >= d
    BY <1>1 DEF Round, down, rest
  <1>4. d * down \in Nat
    BY <1>1
  <1>5. CASE Round(n, d) = down /\ 2 * rest <= d
    BY <1>1, <1>4, <1>5
  <1>6. CASE Round(n, d) = down + 1 /\ 2 * rest >= d
    BY <1>1, <1>2, <1>4, <1>6
  <1> QED
    BY <1>3, <1>5, <1>6

LEMMA NothingRounded == ASSUME NEW d \in Nat \ {0} PROVE Round(0, d) = 0
  BY DEF Round

Segments == [i : Nat, t : Int, d : Int, bytes : Seq(Nat)]
Layings  == [exact : Nat, time : Nat, cursor : Nat, segments : Seq(Segments)]
NothingLaid == [exact |-> 0, time |-> 0, cursor |-> 0, segments |-> <<>>]

\* One chunk more is laid.
Laid(laid, c, lengths, measured) ==
  LET time == NextMs(laid.exact, laid.time, lengths[c]) IN
  [exact |-> laid.exact + lengths[c],
   time |-> time,
   cursor |-> NextByte(laid.cursor, c),
   segments |-> Append(laid.segments,
     [i |-> c, t |-> laid.time, d |-> time - laid.time,
      bytes |-> IF measured THEN <<laid.cursor, NextByte(laid.cursor, c)>> ELSE <<>>])]

LEMMA LaidTyped ==
  ASSUME NEW T, T \subseteq Nat, NEW c \in T, NEW lengths \in [T -> Nat], size[c] \in Nat,
         NEW measured \in BOOLEAN, NEW laid \in Layings
  PROVE  Laid(laid, c, lengths, measured) \in Layings
  <1> DEFINE time == NextMs(laid.exact, laid.time, lengths[c])
             bytes == IF measured THEN <<laid.cursor, NextByte(laid.cursor, c)>> ELSE <<>>
             segment == [i |-> c, t |-> laid.time, d |-> time - laid.time, bytes |-> bytes]
  <1>1. /\ laid.exact \in Nat /\ laid.time \in Nat /\ laid.cursor \in Nat
        /\ laid.segments \in Seq(Segments) /\ lengths[c] \in Nat /\ c \in Nat
    BY DEF Layings
  <1>2. laid.exact + lengths[c] \in Nat /\ NextByte(laid.cursor, c) \in Nat
    BY <1>1 DEF NextByte
  <1>3. time \in Nat
    BY <1>2, AssemblyAssumption, RoundingOff DEF NextMs, AssemblyAssumption
  <1>4. bytes \in Seq(Nat)
    BY <1>1, <1>2
  <1> HIDE DEF time, bytes
  <1>5. segment \in Segments
    BY <1>1, <1>3, <1>4 DEF Segments
  <1> HIDE DEF segment
  <1>6. Append(laid.segments, segment) \in Seq(Segments)
    BY <1>1, <1>5
  <1> QED
    BY <1>1, <1>2, <1>3, <1>6 DEF Laid, Layings, time, bytes, segment

\* The plan of a list is reached chunk by chunk.
LEMMA PlanIsLaid ==
  ASSUME NEW T, T \subseteq Nat, NEW list \in Seq(T), NEW lengths \in [T -> Nat],
         \A c \in T : size[c] \in Nat, NEW measured \in BOOLEAN
  PROVE  \E run \in [0 .. Len(list) -> Layings] :
           /\ run[0] = NothingLaid
           /\ \A k \in 1 .. Len(list) : run[k] = Laid(run[k - 1], list[k], lengths, measured)
           /\ PlanSegments(list, lengths, measured) = run[Len(list)]
  <1> DEFINE n == Len(list)
             Step == [p \in (1 .. n) \X Layings |-> Laid(p[2], list[p[1]], lengths, measured)]
             Fold(iter) == iter = [s \in SUBSET (1 .. n) |->
                             IF s = {} THEN NothingLaid
                             ELSE Laid(iter[s \ {Max(s)}], list[Max(s)], lengths, measured)]
             total == CHOOSE iter : Fold(iter)
  <1>1. n \in Nat /\ DOMAIN list = 1 .. n /\ \A k \in 1 .. n : list[k] \in T
    OBVIOUS
  <1>2. Step \in [(1 .. n) \X Layings -> Layings]
    <2> SUFFICES ASSUME NEW p \in (1 .. n) \X Layings
                 PROVE  Laid(p[2], list[p[1]], lengths, measured) \in Layings
      OBVIOUS
    <2>1. p[2] \in Layings /\ list[p[1]] \in T /\ size[list[p[1]]] \in Nat
      BY <1>1
    <2> QED
      BY <2>1, LaidTyped
  <1>3. NothingLaid \in Layings
    BY DEF NothingLaid, Layings
  <1>4. \A k \in 1 .. n, laid \in Layings : Step[<<k, laid>>] = Laid(laid, list[k], lengths, measured)
    OBVIOUS
  <1>5. PlanSegments(list, lengths, measured) = total[1 .. n]
    BY <1>1 DEF PlanSegments, FoldLeft, MapThenFoldSet, Laid, NothingLaid
  <1>6. \A s \in SUBSET (1 .. n) : s # {} => Max(s) \in 1 .. n /\ s \ {Max(s)} \in SUBSET (1 .. n)
    BY <1>1, GreatestIsIn DEF Picks
  <1>7. n \in Nat
    BY <1>1
  <1> HIDE DEF n, Step
  <1>8. \E iter : Fold(iter)
    <2>1. PICK iter \in [SUBSET (1 .. n) -> Layings] : FoldsUp(iter, n, NothingLaid, Step)
      BY <1>2, <1>3, <1>7, FoldExists
    <2>2. \A s \in SUBSET (1 .. n) :
            iter[s] = IF s = {} THEN NothingLaid
                      ELSE Laid(iter[s \ {Max(s)}], list[Max(s)], lengths, measured)
      BY <1>4, <1>6, <2>1 DEF FoldsUp
    <2>3. Fold(iter)
      BY <2>2
    <2> QED
      BY <2>3
  <1>9. Fold(total)
    BY <1>8
  <1>10. Totals(total, n, Layings, NothingLaid, Step)
    <2> HIDE DEF total
    <2>1. \A s \in SUBSET (1 .. n) :
            total[s] = IF s = {} THEN NothingLaid
                       ELSE Laid(total[s \ {Max(s)}], list[Max(s)], lengths, measured)
      BY <1>9
    <2> QED
      BY <1>4, <1>6, <2>1 DEF Totals
  <1> HIDE DEF total, Fold
  <1>11. PICK run \in [0 .. n -> Layings] : RunsTo(run, n, NothingLaid, Step, total)
    BY <1>2, <1>3, <1>7, <1>10, FoldIsRun
  <1>12. /\ run[0] = NothingLaid
         /\ \A k \in 1 .. n : run[k] = Laid(run[k - 1], list[k], lengths, measured)
    <2>1. run[0] = NothingLaid
      BY <1>11 DEF Runs, RunsTo
    <2>2. ASSUME NEW k \in 1 .. n PROVE run[k] = Laid(run[k - 1], list[k], lengths, measured)
      <3>1. k - 1 \in 0 .. n /\ run[k - 1] \in Layings
        BY <1>7
      <3>2. run[k] = Step[<<k, run[k - 1]>>]
        BY <1>11 DEF Runs, RunsTo
      <3> QED
        BY <1>4, <3>1, <3>2
    <2> QED
      BY <2>1, <2>2
  <1> QED
    BY <1>5, <1>11, <1>12 DEF n, RunsTo

\* The totals after each chunk of a list.
LaidAlong(run, list, lengths, measured) ==
  /\ run[0] = NothingLaid
  /\ \A k \in 1 .. Len(list) : run[k] = Laid(run[k - 1], list[k], lengths, measured)

\* A segment of chunk k lies between the totals before and after that chunk.
PlacedBetween(s, k, list, run, measured) ==
  /\ s.i = list[k] /\ s.t = run[k - 1].time /\ s.d = run[k].time - run[k - 1].time
  /\ measured => s.bytes = <<run[k - 1].cursor, run[k].cursor>>

\* Where the k-th chunk of a plan stands: run is how far the plan had got before it.
LEMMA SegmentsOfPlan ==
  ASSUME NEW T, T \subseteq Nat, NEW list \in Seq(T), NEW lengths \in [T -> Nat],
         \A c \in T : size[c] \in Nat, NEW measured \in BOOLEAN,
         NEW run \in [0 .. Len(list) -> Layings], LaidAlong(run, list, lengths, measured)
  PROVE  \A m \in 0 .. Len(list) :
           /\ Len(run[m].segments) = m
           /\ \A k \in 1 .. m : PlacedBetween(run[m].segments[k], k, list, run, measured)
  <1> DEFINE Placed(s, k) == PlacedBetween(s, k, list, run, measured)
             Good == {m \in Nat : m <= Len(list) =>
                        Len(run[m].segments) = m /\ \A k \in 1 .. m : Placed(run[m].segments[k], k)}
  <1>1. 0 \in Good
    BY DEF NothingLaid, LaidAlong
  <1>2. ASSUME NEW m \in Nat, m \in Good PROVE m + 1 \in Good
    <2> SUFFICES ASSUME m + 1 <= Len(list)
                 PROVE  /\ Len(run[m + 1].segments) = m + 1
                        /\ \A k \in 1 .. m + 1 : Placed(run[m + 1].segments[k], k)
      OBVIOUS
    <2> DEFINE c == list[m + 1]
               laid == run[m]
               time == NextMs(laid.exact, laid.time, lengths[c])
               s == [i |-> c, t |-> laid.time, d |-> time - laid.time,
                     bytes |-> IF measured THEN <<laid.cursor, NextByte(laid.cursor, c)>> ELSE <<>>]
    <2>1. /\ Len(list) \in Nat /\ m + 1 \in 1 .. Len(list) /\ m \in 0 .. Len(list) /\ (m + 1) - 1 = m
          /\ laid \in Layings
      OBVIOUS
    <2>2. run[m + 1] = Laid(laid, c, lengths, measured)
      BY <2>1 DEF LaidAlong
    <2>3. /\ run[m + 1].segments = Append(laid.segments, s)
          /\ run[m + 1].time = time /\ run[m + 1].cursor = NextByte(laid.cursor, c)
      BY <2>2 DEF Laid
    <2>4. laid.segments \in Seq(Segments) /\ Len(laid.segments) = m
      BY <1>2, <2>1 DEF Layings
    <2>5. Placed(s, m + 1)
      BY <2>1, <2>3 DEF PlacedBetween
    <2>6. \A k \in 1 .. m : Placed(laid.segments[k], k)
      BY <1>2, <2>1
    <2> HIDE DEF Placed, laid, s
    <2>7. /\ Len(Append(laid.segments, s)) = m + 1
          /\ \A k \in 1 .. m : Append(laid.segments, s)[k] = laid.segments[k]
          /\ Append(laid.segments, s)[m + 1] = s
      BY <2>4
    <2>8. \A k \in 1 .. m + 1 : Placed(Append(laid.segments, s)[k], k)
      <3> SUFFICES ASSUME NEW k \in 1 .. m + 1 PROVE Placed(Append(laid.segments, s)[k], k)
        OBVIOUS
      <3>1. CASE k = m + 1
        BY <2>5, <2>7, <3>1
      <3>2. CASE k \in 1 .. m
        BY <2>6, <2>7, <3>2
      <3>3. k = m + 1 \/ k \in 1 .. m
        OBVIOUS
      <3> QED
        BY <3>1, <3>2, <3>3
    <2> QED
      BY <2>3, <2>7, <2>8
  <1> HIDE DEF Good
  <1>3. Nat \subseteq Good
    BY <1>1, <1>2, NatInductionIn
  <1> QED
    BY <1>3 DEF Good

-----------------------------------------------------------------------------
(* Sequences of sequences, joined *)

\* What is joined of the first k, for every k.
Joins(run, seqs) == run[0] = <<>> /\ \A k \in 1 .. Len(seqs) : run[k] = run[k - 1] \o seqs[k]

LEMMA JoinedStepwise ==
  ASSUME NEW E, NEW seqs \in Seq(Seq(E))
  PROVE  \E run \in [0 .. Len(seqs) -> Seq(E)] :
           Joins(run, seqs) /\ FlattenSeq(seqs) = run[Len(seqs)]
  <1> DEFINE n == Len(seqs)
             Step == [p \in (1 .. n) \X Seq(E) |-> p[2] \o seqs[p[1]]]
             Fold(f) == f = [i \in 1 .. n |-> IF i = 1 THEN seqs[i] ELSE f[i - 1] \o seqs[i]]
             flatten == CHOOSE f : Fold(f)
  <1>1. n \in Nat /\ \A k \in 1 .. n : seqs[k] \in Seq(E)
    OBVIOUS
  <1>2. Step \in [(1 .. n) \X Seq(E) -> Seq(E)]
    <2> SUFFICES ASSUME NEW p \in (1 .. n) \X Seq(E) PROVE p[2] \o seqs[p[1]] \in Seq(E)
      OBVIOUS
    <2>1. p[2] \in Seq(E) /\ seqs[p[1]] \in Seq(E)
      BY <1>1
    <2> QED
      BY <2>1, ConcatProperties
  <1>3. \A k \in 1 .. n, s \in Seq(E) : Step[<<k, s>>] = s \o seqs[k]
    OBVIOUS
  <1> HIDE DEF Step
  <1>4. PICK run \in [0 .. n -> Seq(E)] : Runs(run, n, <<>>, Step)
    <2>1. <<>> \in Seq(E)
      OBVIOUS
    <2> HIDE DEF n
    <2> QED
      BY <1>1, <1>2, <2>1, RunsExist
  <1>5. run[0] = <<>> /\ \A k \in 1 .. n : run[k] = run[k - 1] \o seqs[k]
    <2>1. ASSUME NEW k \in 1 .. n PROVE run[k] = run[k - 1] \o seqs[k]
      <3>1. run[k - 1] \in Seq(E)
        <4>1. k - 1 \in 0 .. n
          BY <1>1
        <4> QED
          BY <4>1
      <3>2. run[k] = Step[<<k, run[k - 1]>>]
        BY <1>4 DEF Runs
      <3> QED
        BY <1>3, <3>1, <3>2
    <2> QED
      BY <1>4, <2>1 DEF Runs
  <1> HIDE DEF n
  <1>6. CASE n = 0
    <2>1. FlattenSeq(seqs) = <<>>
      BY <1>6 DEF FlattenSeq, n
    <2> QED
      BY <1>5, <1>6, <2>1 DEF n, Joins
  <1>7. CASE n # 0
    <2>1. FlattenSeq(seqs) = flatten[n]
      BY <1>7 DEF FlattenSeq, n
    <2>2. Fold([k \in 1 .. n |-> run[k]])
      <3> DEFINE f == [k \in 1 .. n |-> run[k]]
      <3>1. ASSUME NEW k \in 1 .. n PROVE run[k] = IF k = 1 THEN seqs[k] ELSE f[k - 1] \o seqs[k]
        <4>1. CASE k = 1
          <5>1. seqs[k] \in Seq(E)
            BY <1>1
          <5>2. run[k] = run[k - 1] \o seqs[k]
            BY <1>5
          <5>3. k - 1 = 0
            BY <4>1
          <5>4. run[k] = <<>> \o seqs[k]
            BY <1>5, <5>2, <5>3
          <5>5. run[k] = seqs[k]
            BY <5>1, <5>4, ConcatEmptySeq
          <5> QED
            BY <4>1, <5>5
        <4>2. CASE k # 1
          <5>1. k - 1 \in 1 .. n
            BY <1>1, <4>2
          <5> QED
            BY <1>5, <4>2, <5>1
        <4> QED
          BY <4>1, <4>2
      <3> QED
        BY <3>1
    <2>3. Fold(flatten)
      <3>1. \E f : Fold(f)
        BY <2>2
      <3> HIDE DEF Fold
      <3> QED
        BY <3>1
    <2>4. \A i \in 1 .. n : flatten[i] = IF i = 1 THEN seqs[i] ELSE flatten[i - 1] \o seqs[i]
      <3> HIDE DEF flatten
      <3> QED
        BY <2>3
    <2> HIDE DEF flatten, Fold
    <2>5. flatten[n] = run[n]
      <3> DEFINE Good == {k \in Nat : 1 <= k /\ k <= n => flatten[k] = run[k]}
      <3>1. 0 \in Good
        OBVIOUS
      <3>2. ASSUME NEW k \in Nat, k \in Good PROVE k + 1 \in Good
        <4> SUFFICES ASSUME k + 1 <= n PROVE flatten[k + 1] = run[k + 1]
          OBVIOUS
        <4>1. k + 1 \in 1 .. n /\ (k + 1) - 1 = k
          BY <1>1
        <4>2. CASE k = 0
          <5>1. run[k + 1] = <<>> \o seqs[k + 1] /\ seqs[k + 1] \in Seq(E)
            BY <1>1, <1>5, <4>1, <4>2
          <5>2. flatten[k + 1] = seqs[k + 1]
            BY <2>4, <4>1, <4>2
          <5> QED
            BY <5>1, <5>2, ConcatEmptySeq
        <4>3. CASE k # 0
          <5>1. flatten[k] = run[k]
            BY <1>1, <3>2, <4>1, <4>3
          <5>2. k + 1 # 1
            BY <4>3
          <5>3. flatten[k + 1] = flatten[(k + 1) - 1] \o seqs[k + 1]
            BY <2>4, <4>1, <5>2
          <5>4. run[k + 1] = run[(k + 1) - 1] \o seqs[k + 1]
            BY <1>5, <4>1
          <5> QED
            BY <4>1, <5>1, <5>3, <5>4
        <4> QED
          BY <4>2, <4>3
      <3> HIDE DEF Good
      <3>3. Nat \subseteq Good
        BY <3>1, <3>2, NatInductionIn
      <3> QED
        BY <1>1, <1>7, <3>3 DEF Good
    <2> QED
      BY <1>5, <2>1, <2>5 DEF n, Joins
  <1> QED
    BY <1>6, <1>7

\* Running joins of the same sequences are the same.
LEMMA JoinsAgree ==
  ASSUME NEW E, NEW s \in Seq(Seq(E)), NEW t \in Seq(Seq(E)), NEW n \in Nat,
         n <= Len(s), n <= Len(t), \A k \in 1 .. n : s[k] = t[k],
         NEW a, NEW b, Joins(a, s), Joins(b, t)
  PROVE  a[n] = b[n]
  <1> DEFINE Good == {k \in Nat : k <= n => a[k] = b[k]}
  <1> USE DEF Joins
  <1>1. 0 \in Good
    OBVIOUS
  <1>2. ASSUME NEW k \in Nat, k \in Good PROVE k + 1 \in Good
    <2> SUFFICES ASSUME k + 1 <= n PROVE a[k + 1] = b[k + 1]
      OBVIOUS
    <2>1. /\ k + 1 \in 1 .. n /\ k + 1 \in 1 .. Len(s) /\ k + 1 \in 1 .. Len(t) /\ (k + 1) - 1 = k
          /\ a[k] = b[k]
      BY <1>2
    <2> QED
      BY <2>1
  <1> HIDE DEF Good
  <1>3. Nat \subseteq Good
    BY <1>1, <1>2, NatInductionIn
  <1> QED
    BY <1>3 DEF Good

LEMMA JoinedTyped ==
  ASSUME NEW E, NEW seqs \in Seq(Seq(E))
  PROVE  FlattenSeq(seqs) \in Seq(E)
  <1>1. PICK run \in [0 .. Len(seqs) -> Seq(E)] : FlattenSeq(seqs) = run[Len(seqs)]
    BY JoinedStepwise
  <1> QED
    BY <1>1

\* Joining one sequence more.
LEMMA JoinedOneMore ==
  ASSUME NEW E, NEW seqs \in Seq(Seq(E)), NEW s \in Seq(E)
  PROVE  FlattenSeq(Append(seqs, s)) = FlattenSeq(seqs) \o s
  <1> DEFINE n == Len(seqs)
             more == Append(seqs, s)
  <1>1. /\ n \in Nat /\ more \in Seq(Seq(E)) /\ Len(more) = n + 1
        /\ \A k \in 1 .. n : more[k] = seqs[k]
        /\ more[n + 1] = s
    OBVIOUS
  <1> HIDE DEF more
  <1>2. PICK a \in [0 .. n -> Seq(E)] :
          Joins(a, seqs) /\ FlattenSeq(seqs) = a[n]
    BY JoinedStepwise
  <1>3. PICK b \in [0 .. Len(more) -> Seq(E)] :
          Joins(b, more) /\ FlattenSeq(more) = b[Len(more)]
    BY <1>1, JoinedStepwise
  <1>4. a[n] = b[n]
    <2>1. n <= Len(seqs) /\ n <= Len(more) /\ \A k \in 1 .. n : seqs[k] = more[k]
      BY <1>1
    <2>2. Joins(a, seqs) /\ Joins(b, more) /\ n \in Nat /\ more \in Seq(Seq(E))
      BY <1>1, <1>2, <1>3
    <2> HIDE DEF n
    <2> QED
      BY <2>1, <2>2, JoinsAgree, SMTT(60)
  <1>5. b[n + 1] = b[n] \o s
    <2>1. n + 1 \in 1 .. Len(more) /\ (n + 1) - 1 = n
      BY <1>1
    <2> QED
      BY <1>1, <1>3, <2>1 DEF Joins
  <1> QED
    BY <1>1, <1>2, <1>3, <1>4, <1>5 DEF more

-----------------------------------------------------------------------------
(* Lists in order *)

Increasing(s) == \A j, k \in DOMAIN s : j < k => s[j] < s[k]

\* Only one list has given elements in order.
LEMMA OrderIsUnique ==
  ASSUME NEW S, S \subseteq Nat, NEW s \in Seq(S), NEW t \in Seq(S),
         Increasing(s), Increasing(t), ToSet(s) = ToSet(t)
  PROVE  s = t
  <1>1. /\ Len(s) \in Nat /\ Len(t) \in Nat /\ DOMAIN s = 1 .. Len(s) /\ DOMAIN t = 1 .. Len(t)
        /\ \A k \in DOMAIN s : s[k] \in Nat
        /\ \A k \in DOMAIN t : t[k] \in Nat
    <2>1. Len(s) \in Nat /\ Len(t) \in Nat /\ DOMAIN s = 1 .. Len(s) /\ DOMAIN t = 1 .. Len(t)
      OBVIOUS
    <2>2. /\ \A k \in 1 .. Len(s) : s[k] \in S
          /\ \A k \in 1 .. Len(t) : t[k] \in S
      BY ElementOfSeq
    <2> QED
      BY <2>1, <2>2
  <1>2. /\ \A k \in DOMAIN s : \E j \in DOMAIN t : s[k] = t[j]
        /\ \A k \in DOMAIN t : \E j \in DOMAIN s : t[k] = s[j]
    <2>1. /\ \A k \in DOMAIN s : s[k] \in ToSet(s)
          /\ \A k \in DOMAIN t : t[k] \in ToSet(t)
      BY DEF ToSet
    <2> QED
      BY <2>1 DEF ToSet
  <1>3. ASSUME NEW k \in Nat, k \in DOMAIN s, k \in DOMAIN t,
               \A j \in DOMAIN s \cap DOMAIN t : j < k => s[j] = t[j]
        PROVE  s[k] = t[k]
    <2>1. ASSUME s[k] < t[k] PROVE FALSE
      <3>1. PICK j \in DOMAIN t : s[k] = t[j]
        BY <1>2, <1>3
      <3>2. CASE j < k
        <4>1. j \in DOMAIN s
          BY <1>1, <1>3, <3>2
        <4>2. s[j] = t[j] /\ s[j] < s[k]
          BY <1>3, <3>2, <4>1 DEF Increasing
        <4> QED
          BY <1>1, <1>3, <3>1, <4>1, <4>2
      <3>3. CASE j = k
        BY <1>1, <1>3, <2>1, <3>1, <3>3
      <3>4. CASE j > k
        <4>1. t[k] < t[j]
          BY <1>1, <1>3, <3>4 DEF Increasing
        <4> QED
          BY <1>1, <1>3, <2>1, <3>1, <4>1
      <3> QED
        BY <1>1, <3>2, <3>3, <3>4
    <2>2. ASSUME t[k] < s[k] PROVE FALSE
      <3>1. PICK j \in DOMAIN s : t[k] = s[j]
        BY <1>2, <1>3
      <3>2. CASE j < k
        <4>1. j \in DOMAIN t
          BY <1>1, <1>3, <3>2
        <4>2. s[j] = t[j] /\ t[j] < t[k]
          BY <1>3, <3>2, <4>1 DEF Increasing
        <4> QED
          BY <1>1, <1>3, <3>1, <4>1, <4>2
      <3>3. CASE j = k
        BY <1>1, <1>3, <2>2, <3>1, <3>3
      <3>4. CASE j > k
        <4>1. s[k] < s[j]
          BY <1>1, <1>3, <3>4 DEF Increasing
        <4> QED
          BY <1>1, <1>3, <2>2, <3>1, <4>1
      <3> QED
        BY <1>1, <3>2, <3>3, <3>4
    <2> QED
      BY <1>1, <1>3, <2>1, <2>2
  <1>4. \A k \in DOMAIN s \cap DOMAIN t : s[k] = t[k]
    <2> DEFINE Bad == {k \in DOMAIN s \cap DOMAIN t : s[k] # t[k]}
    <2>1. ASSUME Bad # {} PROVE FALSE
      <3>1. Bad \subseteq Nat
        BY <1>1
      <3>2. PICK k \in Bad : \A j \in Bad : k <= j
        <4> HIDE DEF Bad
        <4> QED
          BY <2>1, <3>1, LeastNatural
      <3>3. \A j \in DOMAIN s \cap DOMAIN t : j < k => s[j] = t[j]
        BY <1>1, <3>2
      <3> QED
        BY <1>1, <1>3, <3>2, <3>3
    <2> QED
      BY <2>1
  <1>5. ~(Len(s) < Len(t))
    <2> SUFFICES ASSUME Len(s) < Len(t) PROVE FALSE
      OBVIOUS
    <2> DEFINE k == Len(s) + 1
    <2>1. k \in DOMAIN t
      BY <1>1
    <2>2. PICK j \in DOMAIN s : t[k] = s[j]
      BY <1>2, <2>1
    <2>3. j \in DOMAIN t /\ j < k
      BY <1>1
    <2>4. t[j] = s[j] /\ t[j] < t[k]
      BY <1>4, <2>1, <2>3 DEF Increasing
    <2> QED
      BY <1>1, <2>1, <2>2, <2>3, <2>4
  <1>6. ~(Len(t) < Len(s))
    <2> SUFFICES ASSUME Len(t) < Len(s) PROVE FALSE
      OBVIOUS
    <2> DEFINE k == Len(t) + 1
    <2>1. k \in DOMAIN s
      BY <1>1
    <2>2. PICK j \in DOMAIN t : s[k] = t[j]
      BY <1>2, <2>1
    <2>3. j \in DOMAIN s /\ j < k
      BY <1>1
    <2>4. t[j] = s[j] /\ s[j] < s[k]
      BY <1>4, <2>1, <2>3 DEF Increasing
    <2> QED
      BY <1>1, <2>1, <2>2, <2>3, <2>4
  <1>7. Len(s) = Len(t)
    <2>1. Len(s) \in Nat /\ Len(t) \in Nat
      BY <1>1
    <2> QED
      BY <1>5, <1>6, <2>1
  <1>8. \A k \in 1 .. Len(s) : s[k] = t[k]
    BY <1>1, <1>4, <1>7
  <1> QED
    BY <1>7, <1>8, SeqEqual

\* Finitely many rows can be listed in order.
LEMMA OrderExists ==
  ASSUME NEW S, S \subseteq Nat, IsFiniteSet(S)
  PROVE  \E s \in [1 .. Cardinality(S) -> S] : Increasing(s)
  <1> DEFINE Good == {T \in SUBSET S : \E s \in [1 .. Cardinality(T) -> T] : Increasing(s)}
  <1>1. {} \in Good
    <2>1. Cardinality({}) = 0
      BY FS_EmptySet
    <2>2. [k \in 1 .. 0 |-> k] \in [1 .. 0 -> {}] /\ Increasing([k \in 1 .. 0 |-> k])
      BY DEF Increasing
    <2> QED
      BY <2>1, <2>2
  <1>2. ASSUME NEW T \in SUBSET S, T # {}, \A x \in T : T \ {x} \in Good PROVE T \in Good
    <2>1. IsFiniteSet(T) /\ T \subseteq Nat
      BY FS_Subset
    <2>2. PICK g \in T : \A m \in T : m <= g
      BY <1>2, <2>1, GreatestNatural
    <2> DEFINE n == Cardinality(T \ {g})
    <2>3. n \in Nat /\ Cardinality(T) = n + 1
      <3>1. IsFiniteSet(T \ {g}) /\ n = Cardinality(T) - 1 /\ Cardinality(T) \in Nat
        BY <2>1, FS_RemoveElement, FS_CardinalityType
      <3> QED
        BY <3>1, FS_CardinalityType
    <2>4. PICK s \in [1 .. n -> T \ {g}] : Increasing(s)
      BY <1>2
    <2> HIDE DEF n
    <2> DEFINE t == [k \in 1 .. n + 1 |-> IF k = n + 1 THEN g ELSE s[k]]
    <2>5. t \in [1 .. n + 1 -> T]
      <3>1. ASSUME NEW k \in 1 .. n + 1, k # n + 1 PROVE s[k] \in T
        <4>1. k \in 1 .. n
          BY <2>3, <3>1
        <4> QED
          BY <4>1
      <3> QED
        BY <3>1
    <2>6. Increasing(t)
      <3> SUFFICES ASSUME NEW j \in 1 .. n + 1, NEW k \in 1 .. n + 1, j < k PROVE t[j] < t[k]
        BY DEF Increasing
      <3>1. j \in 1 .. n /\ t[j] = s[j] /\ s[j] \in T \ {g}
        <4>1. j \in 1 .. n /\ j # n + 1
          BY <2>3
        <4> QED
          BY <4>1
      <3>2. CASE k = n + 1
        <4>1. t[k] = g
          BY <3>2
        <4>2. s[j] \in Nat /\ g \in Nat /\ s[j] # g /\ s[j] <= g
          BY <2>1, <2>2, <3>1
        <4> HIDE DEF t
        <4> QED
          BY <3>1, <4>1, <4>2
      <3>3. CASE k # n + 1
        <4>1. k \in 1 .. n /\ t[k] = s[k]
          BY <2>3, <3>3
        <4> QED
          BY <2>4, <3>1, <4>1 DEF Increasing
      <3> QED
        BY <3>2, <3>3
    <2> QED
      BY <2>3, <2>5, <2>6
  <1>3. S \in Good
    <2> HIDE DEF Good
    <2>1. SUBSET S \subseteq Good
      BY <1>1, <1>2, SubsetInductionIn
    <2> QED
      BY <2>1
  <1> QED
    BY <1>3

\* The list of the rows is in order and has all of them.
LEMMA ListedInOrder ==
  ASSUME NEW S, S \subseteq Nat, IsFiniteSet(S)
  PROVE  InOrder(S) \in Seq(S) /\ Increasing(InOrder(S)) /\ ToSet(InOrder(S)) = S
  <1> DEFINE n == Cardinality(S)
             s == InOrder(S)
  <1>1. n \in Nat
    BY FS_CardinalityType
  <1>2. s \in [1 .. n -> S] /\ Increasing(s)
    <2>1. \E t \in [1 .. n -> S] : \A j, k \in DOMAIN t : j < k => t[j] < t[k]
      BY OrderExists DEF Increasing
    <2> QED
      BY <2>1 DEF InOrder, Increasing
  <1> HIDE DEF s
  <1>3. s \in Injection(1 .. n, S)
    <2>1. ASSUME NEW j \in 1 .. n, NEW k \in 1 .. n, s[j] = s[k] PROVE j = k
      <3>1. s[j] \in S /\ s[j] \in Nat /\ DOMAIN s = 1 .. n
        BY <1>2
      <3>2. ~(j < k)
        BY <1>2, <2>1, <3>1 DEF Increasing
      <3>3. ~(k < j)
        BY <1>2, <2>1, <3>1 DEF Increasing
      <3> QED
        BY <1>1, <3>2, <3>3
    <2> QED
      BY <1>2, <2>1 DEF Injection, IsInjective
  <1>4. Cardinality(1 .. n) = n /\ IsFiniteSet(1 .. n)
    BY <1>1, FS_Interval
  <1>5. s \in Surjection(1 .. n, S)
    BY <1>3, <1>4, FS_Injection
  <1>6. ToSet(s) = S
    BY <1>2, <1>5 DEF Surjection, ToSet
  <1>7. s \in Seq(S)
    BY <1>1, <1>2
  <1> QED
    BY <1>2, <1>6, <1>7 DEF s

\* What has given rows in order is the list of them.
LEMMA TheListInOrder ==
  ASSUME NEW S, S \subseteq Nat, IsFiniteSet(S), NEW s \in Seq(S), Increasing(s), ToSet(s) = S
  PROVE  s = InOrder(S)
  BY ListedInOrder, OrderIsUnique

-----------------------------------------------------------------------------
(* What is in book.mp3, and where *)

FramesOf(list) == [k \in DOMAIN list |-> Frames(list[k])]

LEMMA FramesOfTyped ==
  ASSUME WriterInv, NEW list \in Seq(done)
  PROVE  /\ FramesOf(list) \in Seq(Seq(Bytes)) /\ Len(FramesOf(list)) = Len(list)
         /\ \A k \in 1 .. Len(list) : FramesOf(list)[k] = Frames(list[k])
  <1>1. /\ Len(list) \in Nat /\ DOMAIN list = 1 .. Len(list)
        /\ \A k \in 1 .. Len(list) : Frames(list[k]) \in Seq(Bytes)
    <2>1. \A k \in 1 .. Len(list) : list[k] \in done
      BY ElementOfSeq
    <2> QED
      BY <2>1, FramesTyped, LenProperties
  <1> DEFINE n == Len(list)
  <1>2. FramesOf(list) = [k \in 1 .. n |-> Frames(list[k])]
    BY <1>1 DEF FramesOf
  <1>3. FramesOf(list) \in [1 .. n -> Seq(Bytes)]
    BY <1>1, <1>2
  <1>4. \A k \in 1 .. n : FramesOf(list)[k] = Frames(list[k])
    BY <1>2
  <1>5. FramesOf(list) \in Seq(Seq(Bytes))
    BY <1>1, <1>3
  <1>6. Len(FramesOf(list)) = n
    BY <1>1, <1>2
  <1> QED
    BY <1>4, <1>5, <1>6

LEMMA FramesOfOneMore ==
  ASSUME WriterInv, NEW list \in Seq(done), NEW c \in done
  PROVE  FlattenSeq(FramesOf(Append(list, c))) = FlattenSeq(FramesOf(list)) \o Frames(c)
  <1> DEFINE more == Append(list, c)
             f == Frames(c)
             fs == FramesOf(list)
  <1>1. /\ more \in Seq(done) /\ Len(more) = Len(list) + 1 /\ more[Len(list) + 1] = c
        /\ \A k \in 1 .. Len(list) : more[k] = list[k]
    BY AppendProperties
  <1> HIDE DEF more
  <1>2. /\ FramesOf(more) \in Seq(Seq(Bytes)) /\ Len(FramesOf(more)) = Len(list) + 1
        /\ \A k \in 1 .. Len(list) + 1 : FramesOf(more)[k] = Frames(more[k])
    BY <1>1, FramesOfTyped
  <1>3. /\ fs \in Seq(Seq(Bytes)) /\ Len(fs) = Len(list)
        /\ \A k \in 1 .. Len(list) : fs[k] = Frames(list[k])
    BY FramesOfTyped
  <1>4. f \in Seq(Bytes) /\ Len(list) \in Nat
    BY FramesTyped, LenProperties
  <1> HIDE DEF f, fs
  <1>5. FramesOf(more) = Append(fs, f)
    <2>1. /\ Append(fs, f) \in Seq(Seq(Bytes)) /\ Len(Append(fs, f)) = Len(list) + 1
          /\ Append(fs, f)[Len(list) + 1] = f
          /\ \A k \in 1 .. Len(list) : Append(fs, f)[k] = fs[k]
      BY <1>3, <1>4, AppendProperties
    <2>2. ASSUME NEW k \in 1 .. Len(list) + 1 PROVE FramesOf(more)[k] = Append(fs, f)[k]
      <3>1. CASE k = Len(list) + 1
        <4>1. FramesOf(more)[k] = Frames(more[k])
          BY <1>2
        <4>2. Frames(more[k]) = f
          BY <1>1, <3>1 DEF f
        <4> QED
          BY <2>1, <3>1, <4>1, <4>2
      <3>2. CASE k # Len(list) + 1
        <4>1. k \in 1 .. Len(list)
          BY <1>4, <3>2
        <4>2. FramesOf(more)[k] = Frames(list[k])
          BY <1>1, <1>2, <4>1
        <4> QED
          BY <1>3, <2>1, <4>1, <4>2
      <3> QED
        BY <3>1, <3>2
    <2> QED
      BY <1>2, <2>1, <2>2, SeqEqual
  <1>6. FlattenSeq(Append(fs, f)) = FlattenSeq(fs) \o f
    BY <1>3, <1>4, JoinedOneMore
  <1> QED
    BY <1>5, <1>6 DEF more, f, fs

LEMMA CutFromMiddle ==
  ASSUME NEW E, NEW a \in Seq(E), NEW f \in Seq(E), NEW rest \in Seq(E)
  PROVE  SubSeq((a \o f) \o rest, Len(a) + 1, Len(a) + Len(f)) = f
  <1>1. /\ Len(a) \in Nat /\ Len(f) \in Nat /\ Len(rest) \in Nat
    BY LenProperties
  <1>2. a \o f \in Seq(E) /\ Len(a \o f) = Len(a) + Len(f)
    BY ConcatProperties
  <1>3. CASE Len(f) = 0
    <2>1. f = <<>>
      BY <1>3, EmptySeq
    <2>2. Len(a) + 1 \in Int /\ Len(a) + Len(f) \in Int /\ Len(a) + Len(f) < Len(a) + 1
      BY <1>1, <1>3
    <2> QED
      BY <2>1, <2>2, SubSeqEmpty
  <1>4. CASE Len(f) # 0
    <2> DEFINE m == Len(a) + 1
               n == Len(a) + Len(f)
               b == a \o f
    <2>1. /\ m \in 1 .. n /\ n \in 1 .. n
          /\ m \in Len(a) + 1 .. Len(a) + Len(f) /\ n \in Len(a) + 1 .. Len(a) + Len(f)
          /\ m - Len(a) = 1 /\ n - Len(a) = Len(f)
      BY <1>1, <1>4
    <2>2. b \in Seq(E) /\ Len(b) = n
      BY <1>2
    <2> HIDE DEF m, n
    <2>3. SubSeq(b, m, n) = SubSeq(f, m - Len(a), n - Len(a))
      BY <2>1, SubSeqOfConcat2
    <2> HIDE DEF b
    <2>4. SubSeq(b \o rest, m, n) = SubSeq(b, m, n)
      BY <2>1, <2>2, SubSeqOfConcat1
    <2>5. SubSeq(f, 1, Len(f)) = f
      BY SubSeqFull
    <2> QED
      BY <2>1, <2>3, <2>4, <2>5 DEF b, m, n
  <1> QED
    BY <1>3, <1>4

LEMMA JoiningSequences ==
  ASSUME NEW E
  PROVE  /\ <<>> \in Seq(E) /\ \A s \in Seq(E) : s \o <<>> = s
         /\ \A s, t \in Seq(E) : s \o t \in Seq(E)
         /\ \A s, t, u \in Seq(E) : (s \o t) \o u = s \o (t \o u)
  <1>1. <<>> \in Seq(E)
    BY EmptySeq
  <1>2. \A s \in Seq(E) : s \o <<>> = s
    BY ConcatEmptySeq
  <1>3. \A s, t \in Seq(E) : s \o t \in Seq(E)
    BY ConcatProperties
  <1>4. ASSUME NEW s \in Seq(E), NEW t \in Seq(E), NEW u \in Seq(E)
        PROVE  (s \o t) \o u = s \o (t \o u)
    BY ConcatAssociative
  <1> QED
    BY <1>1, <1>2, <1>3, <1>4

\* What is joined of the first k stays at the front.
LEMMA FrontOfJoin ==
  ASSUME NEW E, NEW seqs \in Seq(Seq(E)), NEW run \in [0 .. Len(seqs) -> Seq(E)], Joins(run, seqs),
         NEW k \in 1 .. Len(seqs)
  PROVE  \E rest \in Seq(E) : run[Len(seqs)] = run[k] \o rest
  <1> DEFINE n == Len(seqs)
             F == Seq(E)
             Good == {m \in Nat : k <= m /\ m <= n => \E rest \in F : run[m] = run[k] \o rest}
  <1>1. n \in Nat /\ \A m \in 1 .. n : seqs[m] \in F
    <2>1. n \in Nat
      BY LenProperties
    <2> QED
      BY <2>1, ElementOfSeq
  <1>2. /\ k \in 1 .. n /\ run \in [0 .. n -> F]
        /\ \A m \in 1 .. n : run[m] = run[m - 1] \o seqs[m]
    <2>1. \A m \in 1 .. n : run[m] = run[m - 1] \o seqs[m]
      BY DEF Joins
    <2>2. k \in 1 .. n /\ run \in [0 .. n -> F]
      OBVIOUS
    <2> HIDE DEF n, F
    <2> QED
      BY <2>1, <2>2
  <1>3. /\ <<>> \in F /\ \A s \in F : s \o <<>> = s
        /\ \A s, t \in F : s \o t \in F
        /\ \A s, t, u \in F : (s \o t) \o u = s \o (t \o u)
    BY JoiningSequences DEF F
  <1> HIDE DEF n, F
  <1>4. 0 \in Good
    <2>1. ~(k <= 0)
      BY <1>1, <1>2
    <2> QED
      BY <2>1
  <1>5. ASSUME NEW m \in Nat, m \in Good PROVE m + 1 \in Good
    <2> SUFFICES k <= m + 1 /\ m + 1 <= n => \E rest \in F : run[m + 1] = run[k] \o rest
      OBVIOUS
    <2> HAVE k <= m + 1 /\ m + 1 <= n
    <2>1. run[k] \in F
      BY <1>1, <1>2
    <2>2. CASE k = m + 1
      <3>1. run[m + 1] = run[k] \o <<>>
        BY <1>3, <2>1, <2>2
      <3> QED
        BY <1>3, <3>1
    <2>3. CASE k # m + 1
      <3>1. k <= m /\ m <= n /\ m + 1 \in 1 .. n /\ (m + 1) - 1 = m
        BY <1>1, <1>2, <2>3
      <3>2. PICK rest \in F : run[m] = run[k] \o rest
        BY <1>5, <3>1
      <3>3. run[m + 1] = run[m] \o seqs[m + 1] /\ seqs[m + 1] \in F
        <4>1. run[m + 1] = run[(m + 1) - 1] \o seqs[m + 1]
          BY <1>2, <3>1
        <4> QED
          BY <1>1, <3>1, <4>1
      <3>4. (run[k] \o rest) \o seqs[m + 1] = run[k] \o (rest \o seqs[m + 1])
        BY <1>3, <2>1, <3>3
      <3>5. rest \o seqs[m + 1] \in F
        BY <1>3, <3>3
      <3>6. run[m + 1] = run[k] \o (rest \o seqs[m + 1])
        BY <3>2, <3>3, <3>4
      <3> QED
        BY <3>5, <3>6
    <2> QED
      BY <2>2, <2>3
  <1> HIDE DEF Good
  <1>6. n \in Good
    <2>1. Nat \subseteq Good
      BY <1>4, <1>5, NatInductionIn
    <2> QED
      BY <1>1, <2>1
  <1>7. k <= n /\ n <= n
    BY <1>1, <1>2
  <1>8. \E rest \in F : run[n] = run[k] \o rest
    BY <1>6, <1>7 DEF Good
  <1> QED
    BY <1>8 DEF n, F

\* The k-th of some sequences is in their join where the first k - 1 end.
LEMMA SliceOfJoin ==
  ASSUME NEW E, NEW seqs \in Seq(Seq(E)), NEW run \in [0 .. Len(seqs) -> Seq(E)], Joins(run, seqs),
         NEW k \in 1 .. Len(seqs)
  PROVE  /\ SubSeq(run[Len(seqs)], Len(run[k - 1]) + 1, Len(run[k])) = seqs[k]
         /\ Len(run[k]) = Len(run[k - 1]) + Len(seqs[k])
  <1> DEFINE a == run[k - 1]
             f == seqs[k]
  <1>1. a \in Seq(E)
    <2>1. k - 1 \in 0 .. Len(seqs)
      BY LenProperties
    <2> QED
      BY <2>1
  <1>2. f \in Seq(E) /\ run[k] = a \o f
    BY ElementOfSeq DEF Joins
  <1>3. PICK rest \in Seq(E) : run[Len(seqs)] = run[k] \o rest
    BY FrontOfJoin
  <1> HIDE DEF a, f
  <1>4. Len(run[k]) = Len(a) + Len(f)
    BY <1>1, <1>2, ConcatProperties
  <1>5. SubSeq((a \o f) \o rest, Len(a) + 1, Len(a) + Len(f)) = f
    BY <1>1, <1>2, CutFromMiddle
  <1> QED
    BY <1>2, <1>3, <1>4, <1>5 DEF a, f

\* A plan of measured clips says where each is in what is joined of them.
LEMMA SegmentsAddressFrames ==
  ASSUME WriterInv, NEW list \in Seq(done), duration \in [done -> Nat],
         NEW k \in DOMAIN PlanSegments(list, duration, TRUE).segments
  PROVE  LET s == PlanSegments(list, duration, TRUE).segments[k] IN
         SubSeq(FlattenSeq(FramesOf(list)), s.bytes[1] + 1, s.bytes[2]) = Frames(s.i)
  <1> DEFINE n == Len(list)
             seqs == FramesOf(list)
             laid == PlanSegments(list, duration, TRUE)
             s == laid.segments[k]
  <1>1. done \subseteq Nat /\ \A c \in done : size[c] \in Nat /\ Len(Frames(c)) = size[c]
    BY AssemblyAssumption, FramesTyped DEF WriterInv, AssemblyAssumption
  <1>2. n \in Nat /\ \A m \in 1 .. n : list[m] \in done
    BY LenProperties, ElementOfSeq
  <1>3. seqs \in Seq(Seq(Bytes)) /\ Len(seqs) = n /\ \A m \in 1 .. n : seqs[m] = Frames(list[m])
    BY FramesOfTyped
  <1>4. PICK run \in [0 .. n -> Layings] :
          /\ run[0] = NothingLaid
          /\ \A m \in 1 .. n : run[m] = Laid(run[m - 1], list[m], duration, TRUE)
          /\ laid = run[n]
    BY <1>1, PlanIsLaid
  <1>5. /\ Len(run[n].segments) = n
        /\ \A m \in 1 .. n :
             LET r == run[n].segments[m] IN
             r.i = list[m] /\ r.bytes = <<run[m - 1].cursor, run[m].cursor>>
    <2>1. n \in 0 .. n
      BY <1>2
    <2>2. /\ Len(run[n].segments) = n
          /\ \A m \in 1 .. n : PlacedBetween(run[n].segments[m], m, list, run, TRUE)
      <3>1. LaidAlong(run, list, duration, TRUE)
        BY <1>4 DEF LaidAlong
      <3> QED
        BY <1>1, <1>4, <2>1, <3>1, SegmentsOfPlan
    <2> QED
      BY <2>2 DEF PlacedBetween
  <1>6. k \in 1 .. n
    <2>1. run[n].segments \in Seq(Segments)
      <3>1. run[n] \in Layings
        BY <1>2, <1>4
      <3> QED
        BY <3>1 DEF Layings
    <2>2. DOMAIN run[n].segments = 1 .. n
      BY <1>5, <2>1, LenProperties
    <2> QED
      BY <1>4, <2>2
  <1> HIDE DEF seqs, laid
  <1>7. PICK join \in [0 .. n -> Seq(Bytes)] : Joins(join, seqs) /\ FlattenSeq(seqs) = join[n]
    BY <1>3, JoinedStepwise
  <1>8. \A m \in 1 .. n : /\ SubSeq(join[n], Len(join[m - 1]) + 1, Len(join[m])) = seqs[m]
                          /\ Len(join[m]) = Len(join[m - 1]) + Len(seqs[m])
    <2>1. join \in [0 .. Len(seqs) -> Seq(Bytes)] /\ n = Len(seqs)
      BY <1>3, <1>7
    <2>2. ASSUME NEW m \in 1 .. Len(seqs)
          PROVE  /\ SubSeq(join[Len(seqs)], Len(join[m - 1]) + 1, Len(join[m])) = seqs[m]
                 /\ Len(join[m]) = Len(join[m - 1]) + Len(seqs[m])
      BY <1>3, <1>7, <2>1, SliceOfJoin
    <2> HIDE DEF n
    <2> QED
      BY <2>1, <2>2
  <1> HIDE DEF n
  <1>9. \A m \in 0 .. n : run[m].cursor = Len(join[m])
    <2> DEFINE Good == {m \in Nat : m <= n => run[m].cursor = Len(join[m])}
    <2>1. 0 \in Good
      <3>1. run[0].cursor = 0 /\ join[0] = <<>>
        BY <1>4, <1>7 DEF NothingLaid, Joins
      <3> QED
        BY <3>1
    <2>2. ASSUME NEW m \in Nat, m \in Good PROVE m + 1 \in Good
      <3> SUFFICES ASSUME m + 1 <= n PROVE run[m + 1].cursor = Len(join[m + 1])
        OBVIOUS
      <3>1. m + 1 \in 1 .. n /\ (m + 1) - 1 = m /\ run[m].cursor = Len(join[m])
        BY <1>2, <2>2
      <3>2. run[m + 1] = Laid(run[m], list[m + 1], duration, TRUE)
        BY <1>4, <3>1
      <3>3. run[m + 1].cursor = run[m].cursor + size[list[m + 1]]
        BY <3>2 DEF Laid, NextByte
      <3>4. Len(join[m + 1]) = Len(join[m]) + Len(seqs[m + 1])
        BY <1>8, <3>1
      <3>5. Len(seqs[m + 1]) = size[list[m + 1]]
        BY <1>1, <1>2, <1>3, <3>1
      <3> QED
        BY <3>1, <3>3, <3>4, <3>5
    <2> HIDE DEF Good
    <2>3. Nat \subseteq Good
      BY <2>1, <2>2, NatInductionIn
    <2> QED
      BY <1>2, <2>3 DEF Good
  <1>10. s.i = list[k] /\ s.bytes = <<run[k - 1].cursor, run[k].cursor>>
    BY <1>4, <1>5, <1>6
  <1>11. k \in 0 .. n /\ k - 1 \in 0 .. n
    BY <1>2, <1>6
  <1>12. s.bytes[1] = Len(join[k - 1]) /\ s.bytes[2] = Len(join[k])
    BY <1>9, <1>10, <1>11
  <1>13. seqs[k] = Frames(s.i)
    BY <1>3, <1>6, <1>10
  <1>14. SubSeq(FlattenSeq(seqs), s.bytes[1] + 1, s.bytes[2]) = Frames(s.i)
    BY <1>6, <1>7, <1>8, <1>12, <1>13
  <1> QED
    BY <1>14 DEF seqs, laid

\* A plan whose durations are those of the rows, or are not compared with them.
Timely(segments, total, exactly) ==
  /\ \A k \in DOMAIN segments :
       LET s == segments[k] IN
       /\ s.t = IF k = 1 THEN 0 ELSE segments[k - 1].t + segments[k - 1].d
       /\ k > 1 => segments[k - 1].i < s.i
       /\ exactly =>
            LET off == 2 * (Resolution * (s.t + s.d) - ExactEnd(segments, k))
            IN -Resolution <= off /\ off <= Resolution
  /\ total = IF segments = <<>> THEN 0 ELSE Last(segments).t + Last(segments).d

\* The sum of the exact lengths up to the k-th segment.
LEMMA EndIsSum ==
  ASSUME NEW segments, NEW k \in Nat, NEW exact \in [0 .. k -> Nat], exact[0] = 0,
         \A j \in 1 .. k : duration[segments[j].i] \in Nat,
         \A j \in 1 .. k : exact[j] = exact[j - 1] + duration[segments[j].i]
  PROVE  ExactEnd(segments, k) = exact[k]
  <1> DEFINE cut == SubSeq(segments, 1, k)
             Step == [p \in (1 .. k) \X Nat |-> p[2] + duration[segments[p[1]].i]]
             Fold(iter) == iter = [s \in SUBSET (1 .. k) |->
                             IF s = {} THEN 0
                             ELSE iter[s \ {Max(s)}] + duration[cut[Max(s)].i]]
             total == CHOOSE iter : Fold(iter)
  <1>1. DOMAIN cut = 1 .. k /\ \A j \in 1 .. k : cut[j] = segments[j]
    OBVIOUS
  <1>2. Step \in [(1 .. k) \X Nat -> Nat]
    OBVIOUS
  <1>3. \A j \in 1 .. k, sum \in Nat : Step[<<j, sum>>] = sum + duration[segments[j].i]
    OBVIOUS
  <1>4. ExactEnd(segments, k) = total[1 .. k]
    BY <1>1 DEF ExactEnd, FoldLeft, MapThenFoldSet
  <1>5. \A s \in SUBSET (1 .. k) : s # {} => Max(s) \in 1 .. k /\ s \ {Max(s)} \in SUBSET (1 .. k)
    BY GreatestIsIn DEF Picks
  <1> HIDE DEF Step, cut
  <1>7. \E iter : Fold(iter)
    <2>1. PICK iter \in [SUBSET (1 .. k) -> Nat] : FoldsUp(iter, k, 0, Step)
      BY <1>2, FoldExists, 0 \in Nat
    <2>2. \A s \in SUBSET (1 .. k) :
            iter[s] = IF s = {} THEN 0 ELSE iter[s \ {Max(s)}] + duration[cut[Max(s)].i]
      BY <1>1, <1>3, <1>5, <2>1 DEF FoldsUp
    <2>3. Fold(iter)
      BY <2>2
    <2> QED
      BY <2>3
  <1>8. \A s \in SUBSET (1 .. k) :
          total[s] = IF s = {} THEN 0 ELSE total[s \ {Max(s)}] + duration[cut[Max(s)].i]
    <2>1. Fold(total)
      BY <1>7
    <2> HIDE DEF total
    <2> QED
      BY <2>1
  <1> HIDE DEF total, Fold
  <1> DEFINE Good == {j \in Nat : j <= k => total[1 .. j] = exact[j]}
  <1>9. 0 \in Good
    <2>1. 1 .. 0 = {} /\ {} \in SUBSET (1 .. k)
      OBVIOUS
    <2> QED
      BY <1>8, <2>1
  <1>10. ASSUME NEW j \in Nat, j \in Good PROVE j + 1 \in Good
    <2> SUFFICES ASSUME j + 1 <= k PROVE total[1 .. (j + 1)] = exact[j + 1]
      OBVIOUS
    <2>1. total[1 .. j] = exact[j] /\ j + 1 \in 1 .. k /\ (j + 1) - 1 = j
      BY <1>10
    <2>2. 1 .. (j + 1) \in SUBSET (1 .. k) /\ 1 .. (j + 1) # {}
      <3>1. 1 \in 1 .. (j + 1) /\ \A i \in 1 .. (j + 1) : i \in 1 .. k
        OBVIOUS
      <3> QED
        BY <3>1
    <2>3. total[1 .. (j + 1)] = total[1 .. j] + duration[segments[j + 1].i]
      <3> DEFINE s == 1 .. (j + 1)
      <3>1. Max(s) = j + 1 /\ s \ {j + 1} = 1 .. j
        BY GreatestOfInterval
      <3>2. s \in SUBSET (1 .. k) /\ s # {}
        BY <2>2
      <3> HIDE DEF s
      <3>3. total[s] = total[s \ {Max(s)}] + duration[cut[Max(s)].i]
        BY <1>8, <3>2
      <3>4. cut[Max(s)] = segments[j + 1]
        BY <1>1, <2>1, <3>1
      <3> QED
        BY <3>1, <3>3, <3>4 DEF s
    <2> QED
      BY <2>1, <2>3
  <1> HIDE DEF Good
  <1>11. Nat \subseteq Good
    BY <1>9, <1>10, NatInductionIn
  <1> QED
    BY <1>4, <1>11 DEF Good

\* A plan of a list in order is a timeline; with the lengths of the rows, an exact one.
LEMMA PlanIsTimely ==
  ASSUME WriterInv, duration \in [done -> Nat], NEW list \in Seq(done), Increasing(list),
         NEW lengths \in [done -> Nat], NEW measured \in BOOLEAN
  PROVE  LET laid == PlanSegments(list, lengths, measured) IN
         Timely(laid.segments, laid.time, lengths = duration)
  <1> DEFINE n == Len(list)
             laid == PlanSegments(list, lengths, measured)
             segments == laid.segments
  <1>1. done \subseteq Nat /\ \A c \in done : size[c] \in Nat
    BY AssemblyAssumption, FramesTyped DEF WriterInv, AssemblyAssumption
  <1>2. n \in Nat /\ DOMAIN list = 1 .. n /\ \A m \in 1 .. n : list[m] \in done
    BY LenProperties, ElementOfSeq
  <1>3. PICK run \in [0 .. n -> Layings] :
          /\ run[0] = NothingLaid
          /\ \A m \in 1 .. n : run[m] = Laid(run[m - 1], list[m], lengths, measured)
          /\ laid = run[n]
    BY <1>1, PlanIsLaid
  <1>4. /\ Len(run[n].segments) = n
        /\ \A m \in 1 .. n :
             LET r == run[n].segments[m] IN
             r.i = list[m] /\ r.t = run[m - 1].time /\ r.d = run[m].time - run[m - 1].time
    <2>1. n \in 0 .. n
      BY <1>2
    <2>2. /\ Len(run[n].segments) = n
          /\ \A m \in 1 .. n : PlacedBetween(run[n].segments[m], m, list, run, measured)
      <3>1. LaidAlong(run, list, lengths, measured)
        BY <1>3 DEF LaidAlong
      <3>2. run \in [0 .. Len(list) -> Layings] /\ done \subseteq Nat /\ \A c \in done : size[c] \in Nat
        BY <1>1, <1>3
      <3>3. \A m \in 0 .. Len(list) :
              /\ Len(run[m].segments) = m
              /\ \A k \in 1 .. m : PlacedBetween(run[m].segments[k], k, list, run, measured)
        BY <3>1, <3>2, SegmentsOfPlan
      <3> QED
        BY <2>1, <3>3
    <2> QED
      BY <2>2 DEF PlacedBetween
  <1>5. segments \in Seq(Segments)
    <2>1. run[n] \in Layings
      BY <1>2, <1>3
    <2> QED
      BY <1>3, <2>1 DEF Layings
  <1>6. Len(segments) = n /\ DOMAIN segments = 1 .. n
    BY <1>3, <1>4, <1>5, LenProperties
  <1>7. \A m \in 0 .. n : run[m].time \in Nat /\ run[m].exact \in Nat
    <2>1. \A m \in 0 .. n : run[m] \in Layings
      BY <1>3
    <2> QED
      BY <2>1 DEF Layings
  <1>8. run[0].time = 0 /\ run[0].exact = 0
    BY <1>3 DEF NothingLaid
  <1>9. \A m \in 1 .. n :
          LET s == segments[m] IN
          s.i = list[m] /\ s.t = run[m - 1].time /\ s.d = run[m].time - run[m - 1].time
    BY <1>3, <1>4
  <1>10. laid.time = run[n].time
    BY <1>3
  <1>11. \A m \in 1 .. n : /\ run[m].exact = run[m - 1].exact + lengths[list[m]]
                           /\ run[m].time = Round(run[m].exact, Resolution)
    <2> SUFFICES ASSUME NEW m \in 1 .. n
                 PROVE  /\ run[m].exact = run[m - 1].exact + lengths[list[m]]
                        /\ run[m].time = Round(run[m].exact, Resolution)
      OBVIOUS
    <2>1. run[m] = Laid(run[m - 1], list[m], lengths, measured)
      BY <1>3
    <2> QED
      BY <2>1 DEF Laid, NextMs
  <1> HIDE DEF n, laid
  <1>12. ASSUME NEW k \in 1 .. n
         PROVE  LET s == segments[k] IN
                /\ s.t + s.d = run[k].time
                /\ s.t = IF k = 1 THEN 0 ELSE segments[k - 1].t + segments[k - 1].d
                /\ k > 1 => segments[k - 1].i < s.i
    <2>1. k \in 0 .. n /\ k - 1 \in 0 .. n
      BY <1>2
    <2>2. segments[k].t + segments[k].d = run[k].time
      BY <1>7, <1>9, <2>1
    <2>3. CASE k = 1
      <3>1. segments[k].t = run[k - 1].time /\ k - 1 = 0
        BY <1>9, <2>3
      <3> QED
        BY <1>8, <2>2, <2>3, <3>1
    <2>4. CASE k # 1
      <3>1. k - 1 \in 1 .. n /\ k - 1 < k /\ (k - 1) - 1 \in 0 .. n
        BY <1>2, <2>4
      <3>2. segments[k - 1].t + segments[k - 1].d = run[k - 1].time
        BY <1>7, <1>9, <2>1, <3>1
      <3>3. segments[k - 1].i < segments[k].i
        BY <1>2, <1>9, <3>1 DEF Increasing
      <3> QED
        BY <1>9, <2>2, <2>4, <3>2, <3>3
    <2> QED
      BY <2>3, <2>4
  <1>13. ASSUME NEW k \in 1 .. n, lengths = duration
         PROVE  LET off == 2 * (Resolution * (segments[k].t + segments[k].d) - ExactEnd(segments, k))
                IN -Resolution <= off /\ off <= Resolution
    <2> DEFINE exact == [m \in 0 .. k |-> run[m].exact]
    <2>1. k \in Nat /\ \A m \in 0 .. k : m \in 0 .. n
      BY <1>2
    <2>2. exact \in [0 .. k -> Nat] /\ exact[0] = 0
      BY <1>7, <1>8, <2>1
    <2>3. \A j \in 1 .. k : duration[segments[j].i] \in Nat
      BY <1>2, <1>9, <2>1
    <2>4. ASSUME NEW j \in 1 .. k PROVE exact[j] = exact[j - 1] + duration[segments[j].i]
      <3>1. j \in 1 .. n /\ j \in 0 .. k /\ j - 1 \in 0 .. k
        BY <1>2
      <3> QED
        BY <1>9, <1>11, <1>13, <3>1
    <2> HIDE DEF exact
    <2>5. ExactEnd(segments, k) = exact[k]
      BY <2>1, <2>2, <2>3, <2>4, EndIsSum
    <2>6. ExactEnd(segments, k) = run[k].exact
      BY <2>1, <2>5 DEF exact
    <2>7. segments[k].t + segments[k].d = Round(run[k].exact, Resolution)
      BY <1>11, <1>12
    <2>8. run[k].exact \in Nat /\ Resolution \in Nat \ {0}
      BY <1>7, <2>1, AssemblyAssumption DEF AssemblyAssumption
    <2> QED
      BY <2>6, <2>7, <2>8, RoundingOff
  <1>14. laid.time = IF segments = <<>> THEN 0 ELSE Last(segments).t + Last(segments).d
    <2>1. CASE segments = <<>>
      <3>1. n = 0
        BY <1>6, <2>1
      <3> QED
        BY <1>8, <1>10, <2>1, <3>1
    <2>2. CASE segments # <<>>
      <3>1. n \in 1 .. n
        BY <1>2, <1>5, <1>6, <2>2, EmptySeq
      <3>2. Last(segments) = segments[n]
        BY <1>6 DEF Last
      <3> QED
        BY <1>10, <1>12, <2>2, <3>1, <3>2
    <2> QED
      BY <2>1, <2>2
  <1>15. Timely(segments, laid.time, lengths = duration)
    BY <1>6, <1>12, <1>13, <1>14 DEF Timely
  <1> QED
    BY <1>15 DEF laid

-----------------------------------------------------------------------------
(* What the stitcher leaves behind *)

\* The chunks that were heard, in order, are those behind the next one to read.
Taken ==
  /\ entries \in Seq(done) /\ Increasing(entries)
  /\ \A c \in done : c \in ToSet(entries) <=> c \notin todo /\ size[c] > 0
  /\ \A e \in ToSet(entries), c \in todo : e < c

\* Nothing they are made of is lost between the parts and the buffer.
Joined == FlattenSeq(parts) \o buffer = FlattenSeq(FramesOf(entries))

\* What may be published: the whole narration with its audio, or the last resort.
Worth(p) ==
  \/ p = Publishing(HeardInOrder) /\ (p.audio => bookMp3 = Narration)
  \/ p = Degraded

OutputInv ==
  /\ duration \in [done -> Durations]
  /\ pc \in {"list", "create"} => entries = <<>>
  /\ pc = "create" => todo = done
  /\ pc \in {"read", "write", "complete"} => Taken /\ Joined
  /\ pc = "complete" => buffer = <<>> /\ todo = {}
  /\ pc = "manifest" => Worth(plan)
  /\ WholeOrNothing
  /\ manifest = NoPlan \/ Worth(manifest)

\* What is to be published depends on the clips alone.
LEMMA ClipsDecide ==
  ASSUME UNCHANGED clipVars
  PROVE  /\ HeardInOrder' = HeardInOrder /\ Narration' = Narration /\ Degraded' = Degraded
         /\ Publishing(HeardInOrder)' = Publishing(HeardInOrder)
  <1>1. Narration' = Narration
    BY DEF clipVars, Narration, HeardInOrder, InOrder, Frames, FlattenSeq
  <1>2. HeardInOrder' = HeardInOrder
    BY DEF clipVars, HeardInOrder, InOrder
  <1>3. Degraded' = Degraded
    BY DEF clipVars, Degraded, DoneInOrder, InOrder, PlanSegments, NextByte, FoldLeft, MapThenFoldSet
  <1>4. Publishing(HeardInOrder)' = Publishing(HeardInOrder)
    <2> DEFINE list == HeardInOrder
    <2>1. list' = list
      BY <1>2
    <2> HIDE DEF list
    <2>2. Publishing(list)' = Publishing(list)
      BY <2>1 DEF clipVars, Publishing, PlanSegments, NextByte, FoldLeft, MapThenFoldSet
    <2> QED
      BY <2>2 DEF list
  <1> QED
    BY <1>1, <1>2, <1>3, <1>4

LEMMA RowsFinite == ASSUME WriterInv, NEW S \in SUBSET done PROVE S \subseteq Nat /\ IsFiniteSet(S)
  <1>1. S \subseteq Chunks
    BY DEF WriterInv
  <1> QED
    BY <1>1, AssemblyAssumption, FS_Subset DEF AssemblyAssumption

LEMMA HeardTyped ==
  ASSUME WriterInv
  PROVE  /\ HeardInOrder \in Seq(done) /\ Increasing(HeardInOrder)
         /\ DoneInOrder \in Seq(done) /\ Increasing(DoneInOrder)
  <1> DEFINE S == {c \in done : size[c] > 0}
  <1>1. S \subseteq Nat /\ IsFiniteSet(S) /\ done \subseteq Nat /\ IsFiniteSet(done) /\ S \subseteq done
    BY RowsFinite
  <1> HIDE DEF S
  <1>2. InOrder(S) \in Seq(S) /\ Increasing(InOrder(S))
    BY <1>1, ListedInOrder
  <1>3. InOrder(S) \in Seq(done)
    BY <1>1, <1>2, SeqMonotonic
  <1>4. InOrder(done) \in Seq(done) /\ Increasing(InOrder(done))
    BY <1>1, ListedInOrder
  <1> QED
    BY <1>2, <1>3, <1>4 DEF HeardInOrder, DoneInOrder, S

\* When no clip is left, the chunks taken are those that are heard.
LEMMA AllTaken == ASSUME WriterInv, Taken, todo = {} PROVE entries = HeardInOrder
  <1> DEFINE S == {c \in done : size[c] > 0}
  <1>1. S \subseteq Nat /\ IsFiniteSet(S)
    BY RowsFinite
  <1>2. ToSet(entries) \subseteq done
    <2>1. DOMAIN entries = 1 .. Len(entries) /\ \A k \in 1 .. Len(entries) : entries[k] \in done
      BY LenProperties, ElementOfSeq DEF Taken
    <2> QED
      BY <2>1 DEF ToSet
  <1>3. ToSet(entries) = S
    BY <1>2 DEF Taken
  <1>4. entries \in Seq(S)
    <2>1. entries \in Seq(done)
      BY DEF Taken
    <2>2. Len(entries) \in Nat /\ DOMAIN entries = 1 .. Len(entries) /\ entries \in [1 .. Len(entries) -> done]
      BY <2>1, LenProperties
    <2>3. \A k \in 1 .. Len(entries) : entries[k] \in ToSet(entries)
      BY <2>2 DEF ToSet
    <2>4. entries \in [1 .. Len(entries) -> S]
      <3> HIDE DEF S
      <3> QED
        BY <1>3, <2>2, <2>3
    <2> HIDE DEF S
    <2> QED
      BY <2>2, <2>4
  <1> HIDE DEF S
  <1>5. entries = InOrder(S)
    BY <1>1, <1>3, <1>4, TheListInOrder DEF Taken
  <1> QED
    BY <1>5 DEF HeardInOrder, S

LEMMA NothingJoined == FlattenSeq(<<>>) = <<>> /\ FramesOf(<<>>) = <<>>
  BY DEF FlattenSeq, FramesOf

LEMMA OutputInit == Init => OutputInv
  BY DEF Init, OutputInv, WholeOrNothing

\* What is published, and what lies in the bucket, is worth as much as before.
LEMMA PublishedKept ==
  ASSUME OutputInv, UNCHANGED clipVars, bookMp3' \in {bookMp3, Narration},
         manifest' \in {manifest, plan}, manifest' # manifest => pc = "manifest"
  PROVE  /\ WholeOrNothing' /\ duration' \in [done' -> Durations]
         /\ manifest' = NoPlan \/ Worth(manifest)'
         /\ pc = "manifest" /\ plan' = plan => Worth(plan)'
  <1>1. WholeOrNothing'
    BY ClipsDecide DEF OutputInv, WholeOrNothing
  <1>2. duration' \in [done' -> Durations]
    BY DEF OutputInv, clipVars
  <1>3. manifest' = NoPlan \/ Worth(manifest)'
    <2>1. \/ manifest' = NoPlan \/ manifest' = Degraded
          \/ manifest' = Publishing(HeardInOrder) /\ (manifest'.audio => bookMp3 = Narration)
      <3>1. CASE manifest' = manifest
        BY <3>1 DEF OutputInv, Worth
      <3>2. CASE manifest' # manifest
        <4>1. manifest' = plan /\ Worth(plan)
          BY <3>2 DEF OutputInv
        <4> QED
          BY <4>1 DEF Worth
      <3> QED
        BY <3>1, <3>2
    <2> QED
      BY <2>1, ClipsDecide DEF Worth
  <1>4. pc = "manifest" /\ plan' = plan => Worth(plan)'
    BY ClipsDecide DEF OutputInv, Worth
  <1> QED
    BY <1>1, <1>2, <1>3, <1>4

\* The steps after the writer, and those that give up.
LEMMA OutputElsewhere ==
  ASSUME OutputInv, UNCHANGED <<clipVars, bookMp3>>,
         manifest' \in {manifest, plan}, manifest' # manifest => pc = "manifest",
         \/ pc' \in {"abort", "abortClosed", "transient", "finish", "done", "dead"}
         \/ pc' = "list" /\ entries' = <<>>
  PROVE  OutputInv'
  BY PublishedKept DEF OutputInv

LEMMA ReadTakes == ASSUME WriterInv, OutputInv, Read PROVE OutputInv'
  <1>1. pc = "read" /\ Taken /\ Joined /\ UNCHANGED <<clipVars, parts, plan, bookMp3, manifest>>
    BY DEF Read, OutputInv
  <1>2. PICK c \in todo : /\ \A d \in todo : c <= d
                          /\ todo' = todo \ {c}
                          /\ IF size[c] = 0 THEN UNCHANGED <<pc, buffer, entries>>
                             ELSE pc' = "write" /\ buffer' = buffer \o Frames(c) /\ entries' = Append(entries, c)
    BY DEF Read
  <1>3. pc' \in {"read", "write"}
    BY <1>1, <1>2
  <1>4. todo \subseteq done /\ done \subseteq Nat /\ c \in done /\ size[c] \in Nat
    BY AssemblyAssumption, FramesTyped DEF WriterInv, AssemblyAssumption
  <1>5. done' = done /\ size' = size /\ parts' = parts
    BY <1>1 DEF clipVars
  <1>6. Taken' /\ Joined'
    <2>1. CASE size[c] = 0
      <3>1. buffer' = buffer /\ entries' = entries
        BY <1>2, <2>1
      <3>2. Taken'
        <4>1. \A d \in done : d \in ToSet(entries) <=> d \notin todo' /\ size[d] > 0
          BY <1>1, <1>2, <2>1 DEF Taken
        <4>2. \A e \in ToSet(entries), d \in todo' : e < d
          BY <1>1, <1>2 DEF Taken
        <4> QED
          BY <1>1, <1>5, <3>1, <4>1, <4>2 DEF Taken, Increasing, ToSet
      <3>3. Joined'
        BY <1>1, <1>5, <3>1 DEF Joined, FramesOf, Frames
      <3> QED
        BY <3>2, <3>3
    <2>2. CASE size[c] # 0
      <3>1. buffer' = buffer \o Frames(c) /\ entries' = Append(entries, c)
        BY <1>2, <2>2
      <3>2. entries \in Seq(done)
        BY <1>1 DEF Taken
      <3> DEFINE n == Len(entries)
                 more == Append(entries, c)
      <3>3. /\ n \in Nat /\ more \in Seq(done) /\ Len(more) = n + 1 /\ more[n + 1] = c
            /\ \A k \in 1 .. n : more[k] = entries[k]
        BY <1>4, <3>2, AppendProperties, LenProperties
      <3>4. DOMAIN entries = 1 .. n /\ DOMAIN more = 1 .. n + 1
        BY <3>2, <3>3, LenProperties
      <3> HIDE DEF more, n
      <3>5. \A d : d \in ToSet(more) <=> d = c \/ d \in ToSet(entries)
        <4>1. ASSUME NEW k \in 1 .. n + 1 PROVE more[k] = c \/ more[k] \in ToSet(entries)
          <5>1. CASE k = n + 1
            BY <3>3, <5>1
          <5>2. CASE k # n + 1
            <6>1. k \in 1 .. n
              BY <3>3, <5>2
            <6> QED
              BY <3>3, <3>4, <6>1 DEF ToSet
          <5> QED
            BY <5>1, <5>2
        <4>2. c \in ToSet(more)
          <5>1. n + 1 \in 1 .. n + 1
            BY <3>3
          <5> QED
            BY <3>3, <3>4, <5>1 DEF ToSet
        <4>3. ASSUME NEW k \in 1 .. n PROVE entries[k] \in ToSet(more)
          <5>1. k \in 1 .. n + 1 /\ more[k] = entries[k]
            BY <3>3
          <5> QED
            BY <3>4, <5>1 DEF ToSet
        <4> QED
          BY <3>4, <4>1, <4>2, <4>3 DEF ToSet
      <3>6. \A k \in 1 .. n : entries[k] \in ToSet(entries) /\ entries[k] < c /\ entries[k] \in Nat
        <4>1. \A k \in 1 .. n : entries[k] \in ToSet(entries)
          BY <3>4 DEF ToSet
        <4>2. \A k \in 1 .. n : entries[k] \in done
          BY <3>2, ElementOfSeq DEF n
        <4> QED
          BY <1>1, <1>4, <4>1, <4>2 DEF Taken
      <3>7. Increasing(more)
        <4> SUFFICES ASSUME NEW j \in 1 .. n + 1, NEW k \in 1 .. n + 1, j < k PROVE more[j] < more[k]
          BY <3>4 DEF Increasing
        <4>1. j \in 1 .. n
          BY <3>3
        <4>2. CASE k = n + 1
          BY <3>3, <3>6, <4>1, <4>2
        <4>3. CASE k # n + 1
          <5>1. k \in 1 .. n
            BY <3>3, <4>3
          <5>2. entries[j] < entries[k]
            BY <1>1, <3>4, <4>1, <5>1 DEF Taken, Increasing
          <5> QED
            BY <3>3, <4>1, <5>1, <5>2
        <4> QED
          BY <4>2, <4>3
      <3>8. \A d \in done : d \in ToSet(more) <=> d \notin todo' /\ size[d] > 0
        BY <1>1, <1>2, <1>4, <2>2, <3>5 DEF Taken
      <3>9. \A e \in ToSet(more), d \in todo' : e < d
        <4>1. ASSUME NEW d \in todo' PROVE c < d
          <5>1. c <= d /\ c # d /\ c \in Nat /\ d \in Nat
            BY <1>2, <1>4
          <5> QED
            BY <5>1
        <4>2. \A e \in ToSet(entries), d \in todo' : e < d
          BY <1>1, <1>2 DEF Taken
        <4> QED
          BY <3>5, <4>1, <4>2
      <3>10. Taken'
        <4>1. entries' = more
          BY <3>1 DEF more
        <4> QED
          BY <1>5, <3>3, <3>7, <3>8, <3>9, <4>1 DEF Taken, Increasing, ToSet
      <3>11. Joined'
        <4> DEFINE f == Frames(c)
                   j == FlattenSeq(FramesOf(entries))
                   p == FlattenSeq(parts)
        <4>1. f \in Seq(Bytes) /\ buffer \in Seq(Bytes) /\ p \in Seq(Bytes)
          BY <1>4, FramesTyped, JoinedTyped DEF WriterInv
        <4>2. FlattenSeq(FramesOf(more)) = j \o f
          BY <1>4, <3>2, FramesOfOneMore DEF more
        <4>3. p \o buffer = j
          BY <1>1 DEF Joined
        <4>4. p \o (buffer \o f) = (p \o buffer) \o f
          <5> HIDE DEF p, f
          <5> QED
            BY <4>1, JoiningSequences
        <4>5. FlattenSeq(parts) \o buffer' = FlattenSeq(FramesOf(more))
          BY <3>1, <4>2, <4>3, <4>4
        <4>6. FramesOf(entries)' = FramesOf(more)
          BY <1>5, <3>1 DEF FramesOf, Frames, more
        <4> QED
          BY <1>5, <4>5, <4>6 DEF Joined
      <3> QED
        BY <3>10, <3>11
    <2> QED
      BY <2>1, <2>2
  <1> QED
    BY <1>1, <1>3, <1>6, PublishedKept DEF OutputInv

LEMMA UploadJoins == ASSUME WriterInv, OutputInv, UploadPart PROVE OutputInv'
  <1>1. pc = "write" /\ Len(buffer) >= MIN_PART_BYTES /\ UNCHANGED <<clipVars, plan, bookMp3, manifest>>
    BY DEF UploadPart, FullPart
  <1>2. CASE Leave
    BY <1>1, <1>2, OutputElsewhere DEF Leave
  <1>3. CASE ~Leave
    <2> DEFINE n == Min({MIN_PART_BYTES, Len(buffer)})
               front == SubSeq(buffer, 1, n)
               rest == SubSeq(buffer, n + 1, Len(buffer))
    <2>1. parts' = Append(parts, front) /\ buffer' = rest /\ UNCHANGED <<pc, todo, entries>>
      BY <1>3 DEF UploadPart
    <2>2. MIN_PART_BYTES \in Nat \ {0} /\ Len(buffer) \in Nat /\ buffer \in Seq(Bytes) /\ parts \in Seq(Seq(Bytes))
      BY AssemblyAssumption DEF AssemblyAssumption, WriterInv
    <2>3. n = MIN_PART_BYTES
      BY <1>1, <2>2, LesserOfTwo
    <2>4. n \in 1 .. Len(buffer)
      BY <1>1, <2>2, <2>3
    <2> HIDE DEF n
    <2>5. front \in Seq(Bytes) /\ rest \in Seq(Bytes)
      BY <2>2, <2>4
    <2>6. front \o rest = buffer
      <3>1. 1 \in 1 .. Len(buffer) + 1 /\ n \in 1 - 1 .. Len(buffer) /\ Len(buffer) \in n .. Len(buffer)
        BY <2>2, <2>4
      <3>2. front \o rest = SubSeq(buffer, 1, Len(buffer))
        BY <2>2, <3>1, ConcatAdjacentSubSeq
      <3> QED
        BY <2>2, <3>2, SubSeqFull
    <2> HIDE DEF front, rest
    <2>7. FlattenSeq(Append(parts, front)) = FlattenSeq(parts) \o front
      BY <2>2, <2>5, JoinedOneMore
    <2>8. FlattenSeq(parts) \in Seq(Bytes)
      BY <2>2, JoinedTyped
    <2>9. FlattenSeq(parts') \o buffer' = FlattenSeq(parts) \o buffer
      <3> DEFINE p == FlattenSeq(parts)
      <3>1. (p \o front) \o rest = p \o (front \o rest)
        <4> HIDE DEF p
        <4> QED
          BY <2>5, <2>8, JoiningSequences DEF p
      <3> QED
        BY <2>1, <2>6, <2>7, <3>1
    <2>10. Taken' /\ Joined'
      <3>1. Taken /\ Joined /\ UNCHANGED <<done, size, todo, entries>>
        BY <1>1, <2>1 DEF OutputInv, clipVars
      <3>2. FramesOf(entries)' = FramesOf(entries)
        BY <3>1 DEF FramesOf, Frames
      <3> QED
        BY <2>9, <3>1, <3>2 DEF Taken, Joined, Increasing, ToSet
    <2> QED
      BY <1>1, <2>1, <2>10, PublishedKept DEF OutputInv
  <1> QED
    BY <1>2, <1>3

LEMMA FlushJoins == ASSUME WriterInv, OutputInv, Flush PROVE OutputInv'
  <1>1. pc = "read" /\ todo = {} /\ UNCHANGED <<clipVars, plan, bookMp3, manifest>>
    BY DEF Flush
  <1>2. CASE Leave
    BY <1>1, <1>2, OutputElsewhere DEF Leave
  <1>3. CASE ~Leave
    <2>1. /\ parts' = IF TailToUpload THEN Append(parts, buffer) ELSE parts
          /\ buffer' = <<>> /\ pc' = "complete" /\ UNCHANGED <<todo, entries>>
      BY <1>3 DEF Flush
    <2>2. buffer \in Seq(Bytes) /\ parts \in Seq(Seq(Bytes))
      BY DEF WriterInv
    <2>3. FlattenSeq(parts) \in Seq(Bytes)
      BY <2>2, JoinedTyped
    <2>4. FlattenSeq(parts') = FlattenSeq(parts) \o buffer
      <3>1. CASE TailToUpload
        BY <2>1, <2>2, <3>1, JoinedOneMore
      <3>2. CASE ~TailToUpload
        BY <2>1, <2>3, <3>2, ConcatEmptySeq DEF TailToUpload
      <3> QED
        BY <3>1, <3>2
    <2>5. FlattenSeq(parts') \o buffer' = FlattenSeq(parts) \o buffer
      <3> DEFINE p == FlattenSeq(parts')
      <3>1. p \in Seq(Bytes)
        BY <2>2, <2>3, <2>4, ConcatProperties
      <3>2. p \o <<>> = p
        <4> HIDE DEF p
        <4> QED
          BY <3>1, ConcatEmptySeq DEF p
      <3> QED
        BY <2>1, <2>4, <3>2
    <2>6. Taken' /\ Joined'
      <3>1. Taken /\ Joined /\ UNCHANGED <<done, size, todo, entries>>
        BY <1>1, <2>1 DEF OutputInv, clipVars
      <3>2. FramesOf(entries)' = FramesOf(entries)
        BY <3>1 DEF FramesOf, Frames
      <3> QED
        BY <2>5, <3>1, <3>2 DEF Taken, Joined, Increasing, ToSet
    <2> QED
      BY <1>1, <2>1, <2>6, PublishedKept DEF OutputInv
  <1> QED
    BY <1>2, <1>3

\* When the upload is completed its parts are the whole narration.
LEMMA WholeJoined ==
  ASSUME WriterInv, OutputInv, pc = "complete"
  PROVE  entries = HeardInOrder /\ FlattenSeq(parts) = Narration
  <1>1. Taken /\ Joined /\ buffer = <<>> /\ todo = {}
    BY DEF OutputInv
  <1>2. entries = HeardInOrder
    BY <1>1, AllTaken
  <1>3. FlattenSeq(parts) \in Seq(Bytes)
    BY JoinedTyped DEF WriterInv
  <1>4. FlattenSeq(parts) \o <<>> = FlattenSeq(parts)
    <2> DEFINE p == FlattenSeq(parts)
    <2> HIDE DEF p
    <2>1. p \o <<>> = p
      BY <1>3, ConcatEmptySeq DEF p
    <2> QED
      BY <2>1 DEF p
  <1> QED
    BY <1>1, <1>2, <1>4 DEF Joined, Narration, FramesOf

LEMMA CompleteWhole == ASSUME WriterInv, OutputInv, Complete PROVE OutputInv'
  <1>1. /\ pc = "complete" /\ bookMp3' = FlattenSeq(parts) /\ UNCHANGED <<clipVars, manifest>>
        /\ pc' \in {"manifest", "abortClosed"}
        /\ pc' = "manifest" => plan' = Publishing(entries)
    BY DEF Complete
  <1>2. entries = HeardInOrder /\ bookMp3' = Narration
    BY <1>1, WholeJoined
  <1>3. pc' = "manifest" => Worth(plan)'
    BY <1>1, <1>2, ClipsDecide DEF Worth
  <1>4. WholeOrNothing' /\ duration' \in [done' -> Durations] /\ (manifest' = NoPlan \/ Worth(manifest)')
    <2>1. UNCHANGED clipVars /\ bookMp3' \in {bookMp3, Narration} /\ manifest' = manifest
      BY <1>1, <1>2
    <2> QED
      BY <2>1, PublishedKept
  <1>5. CASE pc' = "manifest"
    BY <1>3, <1>4, <1>5 DEF OutputInv
  <1>6. CASE pc' = "abortClosed"
    BY <1>4, <1>6 DEF OutputInv
  <1> QED
    BY <1>1, <1>5, <1>6

LEMMA ListTakesNothing == ASSUME WriterInv, OutputInv, List PROVE OutputInv'
  <1>1. /\ pc = "list" /\ todo' = done /\ UNCHANGED <<clipVars, entries, bookMp3, manifest>>
        /\ IF done = {} THEN plan' = Publishing(<<>>) /\ pc' = "manifest" ELSE pc' = "create"
    BY DEF List
  <1>2. CASE done = {}
    <2>1. HeardInOrder = <<>>
      <3>1. HeardInOrder \in Seq({})
        BY <1>2, HeardTyped
      <3> QED
        BY <3>1
    <2>2. ~Publishing(<<>>).audio
      BY DEF Publishing
    <2>3. plan' = Publishing(HeardInOrder) /\ ~plan'.audio
      BY <1>1, <1>2, <2>1, <2>2
    <2>4. Worth(plan)'
      BY <1>1, <2>3, ClipsDecide DEF Worth
    <2> QED
      BY <1>1, <1>2, <2>4, PublishedKept DEF OutputInv
  <1>3. CASE done # {}
    BY <1>1, <1>3, PublishedKept DEF OutputInv, clipVars
  <1> QED
    BY <1>2, <1>3

LEMMA CreateTakesNothing == ASSUME WriterInv, OutputInv, Create PROVE OutputInv'
  <1>1. /\ pc = "create" /\ UNCHANGED <<clipVars, writerVars, bookMp3, manifest>>
        /\ pc' \in {"read", "transient"}
    BY DEF Create
  <1>2. entries = <<>> /\ todo = done /\ parts = <<>> /\ buffer = <<>>
    BY <1>1 DEF OutputInv, WriterInv
  <1>3. Taken
    <2>1. <<>> \in Seq(done) /\ ToSet(<<>>) = {} /\ Increasing(<<>>)
      BY DEF ToSet, Increasing
    <2> QED
      BY <1>2, <2>1 DEF Taken
  <1>4. Joined
    <2>1. <<>> \o <<>> = <<>>
      BY EmptySeq, ConcatEmptySeq
    <2> QED
      BY <1>2, <2>1, NothingJoined DEF Joined
  <1>5. UNCHANGED <<done, size, todo, entries, parts, buffer>>
    BY <1>1 DEF clipVars, writerVars
  <1>6. Taken' /\ Joined'
    <2>1. FramesOf(entries)' = FramesOf(entries)
      BY <1>5 DEF FramesOf, Frames
    <2> QED
      BY <1>3, <1>4, <1>5, <2>1 DEF Taken, Joined, Increasing, ToSet
  <1> QED
    BY <1>1, <1>6, PublishedKept DEF OutputInv

LEMMA OutputStep == WriterInv /\ OutputInv /\ [Next]_vars => OutputInv'
  <1> SUFFICES ASSUME WriterInv, OutputInv, [Next]_vars PROVE OutputInv'
    OBVIOUS
  <1>1. CASE List
    BY <1>1, ListTakesNothing
  <1>2. CASE Create
    BY <1>2, CreateTakesNothing
  <1>3. CASE Read
    BY <1>3, ReadTakes
  <1>4. CASE UploadPart
    BY <1>4, UploadJoins
  <1>5. CASE Written
    <2>1. pc = "write" /\ pc' = "read" /\ UNCHANGED <<clipVars, writerVars, plan, bookMp3, manifest>>
      BY <1>5 DEF Written
    <2>2. Taken /\ Joined /\ UNCHANGED <<done, size, todo, entries, parts, buffer>>
      BY <2>1 DEF OutputInv, clipVars, writerVars
    <2>3. FramesOf(entries)' = FramesOf(entries)
      BY <2>2 DEF FramesOf, Frames
    <2>4. Taken' /\ Joined'
      BY <2>2, <2>3 DEF Taken, Joined, Increasing, ToSet
    <2> QED
      BY <2>1, <2>4, PublishedKept DEF OutputInv
  <1>6. CASE Flush
    BY <1>6, FlushJoins
  <1>7. CASE Complete
    BY <1>7, CompleteWhole
  <1>8. CASE ReadFails \/ CompleteFails \/ Abort \/ AbortClosed \/ Finish
    <2>1. UNCHANGED <<clipVars, bookMp3, manifest>> /\ pc' \in {"abort", "transient", "done"}
      BY <1>8 DEF ReadFails, CompleteFails, Abort, AbortClosed, Finish, Leave
    <2> QED
      BY <2>1, OutputElsewhere
  <1>9. CASE Transient
    <2>1. UNCHANGED <<clipVars, bookMp3, manifest>> /\ pc = "transient"
      BY <1>9 DEF Transient
    <2>2. CASE RetriesLeft
      <3>1. Raise
        BY <1>9, <2>2 DEF Transient
      <3> QED
        BY <2>1, <3>1, OutputElsewhere DEF Raise, Reset
    <2>3. CASE ~RetriesLeft
      <3>1. plan' = Degraded /\ pc' = "manifest"
        BY <1>9, <2>3 DEF Transient
      <3>2. Worth(plan)'
        BY <2>1, <3>1, ClipsDecide DEF Worth
      <3> QED
        BY <2>1, <3>1, <3>2, PublishedKept DEF OutputInv
    <2> QED
      BY <2>2, <2>3
  <1>10. CASE PutManifest
    BY <1>10, OutputElsewhere DEF PutManifest
  <1>11. CASE PutManifestFails
    <2>1. UNCHANGED <<clipVars, bookMp3>> /\ pc = "manifest" /\ manifest' \in {manifest, plan}
      BY <1>11 DEF PutManifestFails
    <2>2. pc' = "finish" \/ Raise
      BY <1>11 DEF PutManifestFails
    <2> QED
      BY <2>1, <2>2, OutputElsewhere DEF Raise, Reset
  <1>12. CASE TableFails \/ Crash
    BY <1>12, OutputElsewhere DEF TableFails, Crash, Raise, Reset
  <1>13. CASE UNCHANGED vars
    <2>1. UNCHANGED <<clipVars, pc, plan, bookMp3, manifest, done, size, todo, entries, parts, buffer>>
      BY <1>13 DEF vars, clipVars, writerVars
    <2>2. FramesOf(entries)' = FramesOf(entries)
      BY <2>1 DEF FramesOf, Frames
    <2>3. (Taken => Taken') /\ (Joined => Joined')
      BY <2>1, <2>2 DEF Taken, Joined, Increasing, ToSet
    <2> QED
      BY <2>1, <2>3, PublishedKept DEF OutputInv
  <1> QED
    BY <1>1, <1>2, <1>3, <1>4, <1>5, <1>6, <1>7, <1>8, <1>9, <1>10, <1>11, <1>12, <1>13 DEF Next

\* Whatever call fails and however often the Lambda dies, the object at the
\* key of the audio is the whole narration or is not there
\* (s3_object_storage.py:96-113, stitching.py:222-262).
THEOREM WholeBookOrNone == Spec => []WholeOrNothing
  <1>1. OutputInv => WholeOrNothing
    BY DEF OutputInv
  <1> QED
    BY WriterInit, WriterStep, OutputInit, OutputStep, <1>1, PTL DEF Spec

\* Each byte range of a manifest with audio holds the frames of its chunk
\* (domain/stitching.py:95-101).
THEOREM RangesHoldFrames == Spec => []ByteRangesAddressFrames
  <1>1. WriterInv /\ OutputInv => ByteRangesAddressFrames
    <2> SUFFICES ASSUME WriterInv, OutputInv, manifest.audio, NEW k \in DOMAIN manifest.segments
                 PROVE  LET s == manifest.segments[k] IN
                        SubSeq(bookMp3, s.bytes[1] + 1, s.bytes[2]) = Frames(s.i)
      BY DEF ByteRangesAddressFrames
    <2> DEFINE list == HeardInOrder
    <2>1. manifest = Publishing(list) /\ bookMp3 = Narration
      <3>1. ~NoPlan.audio /\ ~Degraded.audio
        BY DEF NoPlan, Degraded
      <3> QED
        BY <3>1 DEF OutputInv, Worth
    <2>2. manifest.segments = PlanSegments(list, duration, TRUE).segments
      <3> HIDE DEF list
      <3> QED
        BY <2>1 DEF Publishing
    <2>3. bookMp3 = FlattenSeq(FramesOf(list))
      BY <2>1 DEF Narration, FramesOf
    <2>4. list \in Seq(done) /\ duration \in [done -> Nat]
      BY HeardTyped, AssemblyAssumption DEF OutputInv, AssemblyAssumption
    <2> HIDE DEF list
    <2> QED
      BY <2>2, <2>3, <2>4, SegmentsAddressFrames
  <1> QED
    BY WriterInit, WriterStep, OutputInit, OutputStep, <1>1, PTL DEF Spec

\* However long the book, the timeline of a plan is gapless, in order and never
\* half a millisecond off (domain/stitching.py:66-117).
THEOREM TimelineIsExact == Spec => []TimelineExact
  <1>1. WriterInv /\ OutputInv => TimelineExact
    <2> SUFFICES ASSUME WriterInv, OutputInv, pc = "manifest"
                 PROVE  Timely(plan.segments, plan.total, ~plan.degraded)
      BY DEF TimelineExact, Timely
    <2>1. duration \in [done -> Nat] /\ Resolution \in Nat \ {0}
      BY AssemblyAssumption DEF OutputInv, AssemblyAssumption
    <2>2. CASE plan = Publishing(HeardInOrder)
      <3> DEFINE list == HeardInOrder
                 laid == PlanSegments(list, duration, TRUE)
      <3>1. plan.segments = laid.segments /\ plan.total = laid.time
        <4> HIDE DEF list
        <4> QED
          BY <2>2 DEF Publishing, list
      <3>2. list \in Seq(done) /\ Increasing(list)
        BY HeardTyped
      <3> HIDE DEF list
      <3>3. Timely(laid.segments, laid.time, duration = duration)
        BY <2>1, <3>2, PlanIsTimely
      <3> QED
        BY <3>1, <3>3 DEF Timely
    <2>3. CASE plan = Degraded
      <3> DEFINE list == DoneInOrder
                 stored == [c \in done |-> Resolution * Round(duration[c], Resolution)]
                 laid == PlanSegments(list, stored, FALSE)
      <3>1. plan.segments = laid.segments /\ plan.total = laid.time /\ plan.degraded
        BY <2>3 DEF Degraded
      <3>2. list \in Seq(done) /\ Increasing(list)
        BY HeardTyped
      <3>3. stored \in [done -> Nat]
        <4> SUFFICES ASSUME NEW c \in done PROVE Resolution * Round(duration[c], Resolution) \in Nat
          OBVIOUS
        <4>1. Round(duration[c], Resolution) \in Nat
          BY <2>1, RoundingOff
        <4> QED
          BY <2>1, <4>1
      <3> HIDE DEF list, stored
      <3>4. Timely(laid.segments, laid.time, stored = duration)
        BY <2>1, <3>2, <3>3, PlanIsTimely
      <3> QED
        BY <3>1, <3>4 DEF Timely
    <2> QED
      BY <2>2, <2>3 DEF OutputInv, Worth
  <1> QED
    BY WriterInit, WriterStep, OutputInit, OutputStep, <1>1, PTL DEF Spec

-----------------------------------------------------------------------------
(* The promise of Stitched *)

LEMMA BothAppear ==
  ASSUME NEW E, NEW s \in Seq(E), NEW t \in Seq(E)
  PROVE  ToSet(s \o t) = ToSet(s) \cup ToSet(t)
  <1> DEFINE u == s \o t
  <1>1. /\ Len(s) \in Nat /\ Len(t) \in Nat
        /\ DOMAIN s = 1 .. Len(s) /\ DOMAIN t = 1 .. Len(t)
    BY LenProperties
  <1>2. /\ u \in Seq(E) /\ Len(u) = Len(s) + Len(t) /\ DOMAIN u = 1 .. Len(s) + Len(t)
        /\ \A k \in 1 .. Len(s) : u[k] = s[k]
        /\ \A k \in 1 .. Len(t) : u[Len(s) + k] = t[k]
    OBVIOUS
  <1> HIDE DEF u
  <1>3. ASSUME NEW k \in DOMAIN u PROVE u[k] \in ToSet(s) \cup ToSet(t)
    <2>1. CASE k <= Len(s)
      <3>1. k \in DOMAIN s /\ u[k] = s[k]
        BY <1>1, <1>2, <2>1
      <3> QED
        BY <3>1 DEF ToSet
    <2>2. CASE k > Len(s)
      <3>1. k - Len(s) \in DOMAIN t /\ k = Len(s) + (k - Len(s))
        BY <1>1, <1>2, <2>2
      <3>2. u[k] = t[k - Len(s)]
        BY <1>1, <1>2, <3>1
      <3> QED
        BY <3>1, <3>2 DEF ToSet
    <2> QED
      BY <1>1, <1>2, <2>1, <2>2
  <1>4. ASSUME NEW k \in DOMAIN s PROVE s[k] \in ToSet(u)
    <2>1. k \in DOMAIN u /\ u[k] = s[k]
      BY <1>1, <1>2
    <2> QED
      BY <2>1 DEF ToSet
  <1>5. ASSUME NEW k \in DOMAIN t PROVE t[k] \in ToSet(u)
    <2>1. Len(s) + k \in DOMAIN u /\ u[Len(s) + k] = t[k]
      BY <1>1, <1>2
    <2> QED
      BY <2>1 DEF ToSet
  <1>6. ToSet(u) = ToSet(s) \cup ToSet(t)
    BY <1>3, <1>4, <1>5 DEF ToSet
  <1> QED
    BY <1>6 DEF u

\* Each byte of a join is a byte of one of what was joined.
LEMMA BytesOfJoin ==
  ASSUME NEW E, NEW seqs \in Seq(Seq(E))
  PROVE  ToSet(FlattenSeq(seqs)) = UNION {ToSet(seqs[k]) : k \in 1 .. Len(seqs)}
  <1> DEFINE n == Len(seqs)
             Of(m) == UNION {ToSet(seqs[k]) : k \in 1 .. m}
  <1>1. PICK run \in [0 .. n -> Seq(E)] : Joins(run, seqs) /\ FlattenSeq(seqs) = run[n]
    BY JoinedStepwise
  <1>2. n \in Nat /\ \A k \in 1 .. n : seqs[k] \in Seq(E)
    BY LenProperties, ElementOfSeq
  <1> DEFINE Good == {m \in Nat : m <= n => ToSet(run[m]) = Of(m)}
  <1>3. 0 \in Good
    <2>1. run[0] = <<>> /\ ToSet(<<>>) = {}
      BY <1>1 DEF Joins, ToSet
    <2>2. Of(0) = {}
      OBVIOUS
    <2> QED
      BY <2>1, <2>2
  <1>4. ASSUME NEW m \in Nat, m \in Good PROVE m + 1 \in Good
    <2> SUFFICES ASSUME m + 1 <= n PROVE ToSet(run[m + 1]) = Of(m + 1)
      OBVIOUS
    <2>1. m + 1 \in 1 .. n /\ (m + 1) - 1 = m /\ m \in 0 .. n
      BY <1>2
    <2>2. run[m + 1] = run[m] \o seqs[m + 1]
      BY <1>1, <2>1 DEF Joins
    <2>3. run[m] \in Seq(E) /\ seqs[m + 1] \in Seq(E)
      BY <1>2, <2>1
    <2>4. ToSet(run[m] \o seqs[m + 1]) = ToSet(run[m]) \cup ToSet(seqs[m + 1])
      BY <2>3, BothAppear
    <2>5. ToSet(run[m]) = Of(m)
      BY <1>2, <1>4, <2>1
    <2>6. 1 .. m + 1 = (1 .. m) \cup {m + 1}
      OBVIOUS
    <2>7. Of(m + 1) = Of(m) \cup ToSet(seqs[m + 1])
      BY <2>6
    <2> HIDE DEF Of
    <2> QED
      BY <2>2, <2>4, <2>5, <2>7
  <1> HIDE DEF Good
  <1>5. n \in Good
    BY <1>2, <1>3, <1>4, NatInductionIn
  <1> QED
    BY <1>1, <1>2, <1>5 DEF Good

\* The segments of a plan are those of its list.
LEMMA ListOfPlan ==
  ASSUME NEW T, T \subseteq Nat, NEW list \in Seq(T), NEW lengths \in [T -> Nat],
         \A c \in T : size[c] \in Nat, NEW measured \in BOOLEAN
  PROVE  {PlanSegments(list, lengths, measured).segments[k].i :
            k \in DOMAIN PlanSegments(list, lengths, measured).segments} = ToSet(list)
  <1> DEFINE n == Len(list)
             segments == PlanSegments(list, lengths, measured).segments
  <1>1. PICK run \in [0 .. n -> Layings] :
          LaidAlong(run, list, lengths, measured) /\ PlanSegments(list, lengths, measured) = run[n]
    BY PlanIsLaid DEF LaidAlong
  <1>2. n \in Nat /\ DOMAIN list = 1 .. n
    BY LenProperties
  <1>3. segments = run[n].segments /\ run[n] \in Layings
    BY <1>1, <1>2
  <1>4. Len(segments) = n /\ \A k \in 1 .. n : segments[k].i = list[k]
    BY <1>1, <1>2, <1>3, SegmentsOfPlan DEF PlacedBetween
  <1>5. DOMAIN segments = 1 .. n
    BY <1>3, <1>4, LenProperties DEF Layings
  <1> HIDE DEF segments
  <1>6. {segments[k].i : k \in DOMAIN segments} = ToSet(list)
    BY <1>2, <1>4, <1>5 DEF ToSet
  <1> QED
    BY <1>6 DEF segments

\* The two plans there are offer all that is heard, or give up on all that is done.
LEMMA OffersMade ==
  ASSUME WriterInv, OutputInv
  PROVE  /\ OfferOf(Publishing(HeardInOrder)) = Promise!Offered(done \ Mute, FALSE)
         /\ OfferOf(Degraded) = Promise!Offered(done, TRUE)
  <1> DEFINE S == {c \in done : size[c] > 0}
             heard == HeardInOrder
             all == DoneInOrder
             stored == [c \in done |-> Resolution * Round(duration[c], Resolution)]
  <1>1. done \subseteq Nat /\ IsFiniteSet(done) /\ S \subseteq Nat /\ IsFiniteSet(S)
    BY RowsFinite
  <1>2. /\ duration \in [done -> Nat] /\ Resolution \in Nat \ {0}
        /\ \A c \in done : size[c] \in Nat
    BY AssemblyAssumption, FramesTyped DEF OutputInv, AssemblyAssumption
  <1>3. heard \in Seq(done) /\ all \in Seq(done)
    BY HeardTyped
  <1>4. ToSet(heard) = S /\ ToSet(all) = done
    BY <1>1, ListedInOrder DEF HeardInOrder, DoneInOrder
  <1>5. S = done \ Mute
    BY <1>2 DEF Mute
  <1>6. stored \in [done -> Nat]
    <2> SUFFICES ASSUME NEW c \in done PROVE Resolution * Round(duration[c], Resolution) \in Nat
      OBVIOUS
    <2>1. Round(duration[c], Resolution) \in Nat
      BY <1>2, RoundingOff
    <2> QED
      BY <1>2, <2>1
  <1> HIDE DEF S
  <1>7. heard # <<>> <=> S # {}
    <2>1. heard = <<>> <=> DOMAIN heard = {}
      <3>1. DOMAIN heard = 1 .. Len(heard) /\ Len(heard) \in Nat
        BY <1>3, LenProperties
      <3>2. heard = <<>> <=> Len(heard) = 0
        BY <1>3, EmptySeq
      <3> QED
        BY <3>1, <3>2
    <2> QED
      BY <1>4, <2>1 DEF ToSet
  <1>8. OfferOf(Publishing(heard)) = Promise!Offered(S, FALSE)
    <2> HIDE DEF heard
    <2> DEFINE segments == PlanSegments(heard, duration, TRUE).segments
               p == Publishing(heard)
    <2>1. {segments[k].i : k \in DOMAIN segments} = S
      BY <1>1, <1>2, <1>3, <1>4, ListOfPlan
    <2>2. /\ p.segments = segments /\ p.missing = Chunks \ S
          /\ p.audio = (heard # <<>>) /\ p.degraded = FALSE
      BY <1>4 DEF Publishing
    <2> HIDE DEF segments, p
    <2>3. OfferOf(p) = [segments |-> S, missing |-> Chunks \ S, audio |-> S # {}, degraded |-> FALSE]
      BY <1>7, <2>1, <2>2 DEF OfferOf
    <2> QED
      BY <2>3 DEF Promise!Offered, p
  <1>9. OfferOf(Degraded) = Promise!Offered(done, TRUE)
    <2> DEFINE segments == PlanSegments(all, stored, FALSE).segments
               p == Degraded
    <2>2. /\ p.segments = segments /\ p.missing = Chunks \ done
          /\ p.audio = FALSE /\ p.degraded = TRUE
      BY DEF Degraded
    <2> HIDE DEF all, stored
    <2>1. {segments[k].i : k \in DOMAIN segments} = ToSet(all)
      <3>1. FALSE \in BOOLEAN /\ done \subseteq Nat
        BY <1>1
      <3> QED
        BY <1>2, <1>3, <1>6, <3>1, ListOfPlan
    <2> HIDE DEF segments, p
    <2>3. OfferOf(p) = [segments |-> done, missing |-> Chunks \ done, audio |-> FALSE, degraded |-> TRUE]
      BY <1>4, <2>1, <2>2 DEF OfferOf
    <2> QED
      BY <2>3 DEF Promise!Offered, p
  <1> QED
    BY <1>5, <1>8, <1>9 DEF heard

\* The narration is what is heard, and is not taken for no object.
LEMMA NarrationIsHeard ==
  ASSUME WriterInv
  PROVE  Narration # NoObject /\ {Narration[k][1] : k \in DOMAIN Narration} = done \ Mute
  <1> DEFINE list == HeardInOrder
             n == Len(list)
             S == {c \in done : size[c] > 0}
  <1>1. S \subseteq Nat /\ IsFiniteSet(S) /\ list \in Seq(done)
    BY RowsFinite, HeardTyped
  <1>2. ToSet(list) = S
    BY <1>1, ListedInOrder DEF HeardInOrder
  <1>3. \A c \in done : size[c] \in Nat /\ Frames(c) \in Seq(Bytes)
    BY FramesTyped
  <1>4. S = done \ Mute
    BY <1>3 DEF Mute
  <1> HIDE DEF list
  <1>5. /\ FramesOf(list) \in Seq(Seq(Bytes)) /\ Len(FramesOf(list)) = n
        /\ \A k \in 1 .. n : FramesOf(list)[k] = Frames(list[k])
    BY <1>1, FramesOfTyped
  <1>6. n \in Nat /\ DOMAIN list = 1 .. n
    BY <1>1, LenProperties
  <1>7. Narration = FlattenSeq(FramesOf(list)) /\ Narration \in Seq(Bytes)
    <2>1. Narration = FlattenSeq(FramesOf(list))
      BY DEF Narration, FramesOf, list
    <2> QED
      BY <1>5, <2>1, JoinedTyped
  <1>8. Narration # NoObject
    <2>1. ASSUME Narration = NoObject PROVE FALSE
      <3>1. <<<<-1, 0>>>> \in Seq(Bytes)
        BY <1>7, <2>1 DEF NoObject
      <3>2. Len(<<<<-1, 0>>>>) = 1 /\ <<<<-1, 0>>>>[1] = <<-1, 0>>
        OBVIOUS
      <3>3. <<-1, 0>> \in Bytes
        BY <3>1, <3>2, ElementOfSeq
      <3> QED
        BY <3>3, AssemblyAssumption DEF Bytes, AssemblyAssumption
    <2> QED
      BY <2>1
  <1>9. ToSet(Narration) = UNION {ToSet(Frames(list[k])) : k \in 1 .. n}
    BY <1>5, <1>7, BytesOfJoin
  <1>10. ToSet(Narration) = UNION {ToSet(Frames(c)) : c \in S}
    <2>1. S = {list[k] : k \in 1 .. n}
      BY <1>2, <1>6 DEF ToSet
    <2> HIDE DEF S
    <2> QED
      BY <1>9, <2>1
  <1>11. \A c \in S : {b[1] : b \in ToSet(Frames(c))} = {c}
    <2> SUFFICES ASSUME NEW c \in S PROVE {b[1] : b \in ToSet(Frames(c))} = {c}
      OBVIOUS
    <2>1. /\ DOMAIN Frames(c) = 1 .. size[c] /\ 1 \in 1 .. size[c]
          /\ \A k \in 1 .. size[c] : Frames(c)[k][1] = c
      <3>1. c \in done /\ size[c] \in Nat /\ size[c] > 0
        BY <1>3
      <3>2. DOMAIN Frames(c) = 1 .. size[c]
        BY DEF Frames
      <3>3. \A k \in 1 .. size[c] : Frames(c)[k] = <<c, k>>
        BY DEF Frames
      <3> QED
        BY <3>1, <3>2, <3>3
    <2> DEFINE f == Frames(c)
    <2> HIDE DEF f
    <2>2. \A k \in DOMAIN f : f[k][1] = c
      BY <2>1 DEF f
    <2>3. 1 \in DOMAIN f
      BY <2>1 DEF f
    <2>4. {b[1] : b \in ToSet(f)} = {c}
      BY <2>2, <2>3 DEF ToSet
    <2> QED
      BY <2>4 DEF f
  <1>12. {b[1] : b \in ToSet(Narration)} = S
    <2> HIDE DEF S
    <2> QED
      BY <1>10, <1>11
  <1>13. {Narration[k][1] : k \in DOMAIN Narration} = {b[1] : b \in ToSet(Narration)}
    BY DEF ToSet
  <1> QED
    BY <1>4, <1>8, <1>12, <1>13

\* A clip is read, and book.mp3 completed, only if there is a chunk to join.
SomeDone == pc \in {"create", "read", "write", "complete", "abort", "abortClosed", "transient"} => done # {}

LEMMA SomeDoneStep == SomeDone /\ [Next]_vars => SomeDone'
  <1> SUFFICES ASSUME SomeDone, [Next]_vars, done # {} \/ done = {} PROVE SomeDone'
    OBVIOUS
  <1>1. UNCHANGED done
    BY DEF Next, vars, clipVars, List, Create, Read, ReadFails, UploadPart, Written, Flush, Complete,
           CompleteFails, Abort, AbortClosed, Transient, PutManifest, PutManifestFails, Finish, TableFails, Crash
  <1>2. CASE done # {}
    BY <1>1, <1>2 DEF SomeDone
  <1>3. CASE done = {}
    <2>1. pc \in {"create", "read", "write", "complete", "abort", "abortClosed", "transient"} => FALSE
      BY <1>3 DEF SomeDone
    <2>2. pc' \notin {"create", "read", "write", "complete", "abort", "abortClosed", "transient"}
      BY <1>3, <2>1 DEF Next, vars, List, Create, Read, ReadFails, UploadPart, Written, Flush, Complete,
             CompleteFails, Abort, AbortClosed, Transient, PutManifest, PutManifestFails, Finish, TableFails, Crash, Raise
    <2> QED
      BY <2>2 DEF SomeDone
  <1> QED
    BY <1>2, <1>3

\* A step of the promise, or one that it does not notice.
Kept == [Promise!Next]_(Promise!vars)

LEMMA NothingOffered ==
  OfferOf(NoPlan) = Promise!NoOffer /\ DocumentOf(NoPlan) = Promise!NoDocument
  <1>1. /\ NoPlan.segments = <<>> /\ NoPlan.missing = {}
        /\ NoPlan.audio = FALSE /\ NoPlan.degraded = FALSE
    BY DEF NoPlan
  <1>2. DOMAIN NoPlan.segments = {}
    BY <1>1
  <1>3. {NoPlan.segments[k].i : k \in DOMAIN NoPlan.segments} = {}
    BY <1>2
  <1> QED
    BY <1>1, <1>3 DEF OfferOf, DocumentOf, Promise!NoOffer, Promise!NoDocument

LEMMA PromiseInit == Init => Promise!Init
  <1> SUFFICES ASSUME Init PROVE Promise!Init
    OBVIOUS
  <1>1. Stage = "joining" /\ Offer = Promise!NoOffer
    BY NothingOffered DEF Init, Stage, Offer, GivingUp
  <1>2. Mp3 = Promise!NoMp3
    BY DEF Init, Mp3, Promise!NoMp3
  <1>3. Document = Promise!NoDocument
    BY NothingOffered DEF Init, Document
  <1>4. done \subseteq Chunks /\ Mute \subseteq Chunks
    BY DEF Init, Mute
  <1> QED
    BY <1>1, <1>2, <1>3, <1>4 DEF Promise!Init

\* Where the stitcher is decides what it offers.
Places ==
  /\ pc \in {"list", "create", "read", "write", "complete", "done", "dead"} =>
       Stage = "joining" /\ Offer = Promise!NoOffer
  /\ pc \in {"abort", "abortClosed", "transient"} /\ RetriesLeft =>
       Stage = "joining" /\ Offer = Promise!NoOffer
  /\ pc \in {"abort", "abortClosed", "transient"} /\ ~RetriesLeft =>
       Stage = "describing" /\ Offer = Promise!Offered(done, TRUE)
  /\ pc = "manifest" => Stage = "describing" /\ Offer = OfferOf(plan)
  /\ pc = "finish" => Stage = "finishing" /\ Offer = OfferOf(plan)
LEMMA PlacesAlways == Places
  <1>1. OfferOf(NoPlan) = Promise!NoOffer
    BY NothingOffered
  <1>2. Promise!Offered(done, TRUE) =
          [segments |-> done, missing |-> Chunks \ done, audio |-> FALSE, degraded |-> TRUE]
    BY DEF Promise!Offered
  <1>3. pc \in {"list", "create", "read", "write", "complete", "done", "dead"} =>
          Stage = "joining" /\ Offer = Promise!NoOffer
    BY <1>1 DEF Stage, Offer, GivingUp
  <1>4. pc \in {"abort", "abortClosed", "transient"} /\ RetriesLeft =>
          Stage = "joining" /\ Offer = Promise!NoOffer
    BY <1>1 DEF Stage, Offer, GivingUp
  <1>5. pc \in {"abort", "abortClosed", "transient"} /\ ~RetriesLeft =>
          Stage = "describing" /\ Offer = Promise!Offered(done, TRUE)
    BY <1>2 DEF Stage, Offer, GivingUp
  <1>6. /\ pc = "manifest" => Stage = "describing" /\ Offer = OfferOf(plan)
        /\ pc = "finish" => Stage = "finishing" /\ Offer = OfferOf(plan)
    BY DEF Stage, Offer, GivingUp
  <1> QED
    BY <1>3, <1>4, <1>5, <1>6 DEF Places

LEMMA PlacesNext == Places /\ Places'
  BY PlacesAlways, PTL

\* What the clips and the two objects do not change is not noticed.
LEMMA Unnoticed ==
  ASSUME UNCHANGED <<clipVars, bookMp3, manifest>>
  PROVE  UNCHANGED <<done, Mute, Mp3, Document>>
  <1>1. UNCHANGED <<done, size>>
    BY DEF clipVars
  <1> QED
    BY <1>1 DEF Mute, Mp3, Document, DocumentOf

\* A failure of the writer: begun again unnoticed, or given up.
LEMMA FailureKept ==
  ASSUME SomeDone, UNCHANGED <<clipVars, attempt, manifest>>,
         pc \in {"create", "read", "write", "complete"}, pc' \in {"abort", "abortClosed", "transient"},
         Mp3' \in {Mp3, Promise!Joined(done)}
  PROVE  Kept
  <1>1. Stage = "joining" /\ Offer = Promise!NoOffer
    BY PlacesNext DEF Places
  <1>2. UNCHANGED <<done, Mute, Document>>
    BY DEF clipVars, Mute, Document, DocumentOf
  <1>3. \/ Stage' = "joining" /\ Offer' = Promise!NoOffer
        \/ Stage' = "describing" /\ Offer' = Promise!Offered(done, TRUE)
    <2>1. UNCHANGED <<done, attempt>> /\ RetriesLeft' = RetriesLeft
      BY <1>2 DEF RetriesLeft
    <2>2. /\ RetriesLeft' => Stage' = "joining" /\ Offer' = Promise!NoOffer
          /\ ~RetriesLeft' => Stage' = "describing" /\ Offer' = Promise!Offered(done', TRUE)
      BY PlacesNext DEF Places
    <2> QED
      BY <2>1, <2>2
  <1>4. done \in (SUBSET done) \ {{}}
    BY DEF SomeDone
  <1>5. Promise!JoinFails
    <2>1. Promise!Again \/ (Stage' = "describing" /\ Offer' = Promise!Offered(done, TRUE))
      BY <1>3 DEF Promise!Again
    <2>2. \E list \in (SUBSET done) \ {{}} :
            /\ Mp3' \in {Mp3, Promise!Joined(list)}
            /\ Promise!Again \/ (Stage' = "describing" /\ Offer' = Promise!Offered(list, TRUE))
      BY <1>4, <2>1
    <2> QED
      BY <1>1, <1>2, <2>2 DEF Promise!JoinFails
  <1> QED
    BY <1>5 DEF Kept, Promise!Next

\* Reading and writing are not noticed.
LEMMA WorkKept ==
  ASSUME UNCHANGED <<clipVars, bookMp3, manifest>>,
         pc \in {"list", "create", "read", "write"}, pc' \in {"create", "read", "write", "complete"}
  PROVE  Kept
  <1>1. UNCHANGED <<Stage, Offer>>
    BY PlacesNext DEF Places, Promise!NoOffer
  <1>2. UNCHANGED <<done, Mute, Mp3, Document>>
    BY Unnoticed
  <1> QED
    BY <1>1, <1>2 DEF Kept, Promise!vars

\* The frames of all that was taken are joined, or nothing is.
LEMMA JoinKept ==
  ASSUME UNCHANGED <<clipVars, manifest>>, pc \in {"list", "complete"}, pc' = "manifest",
         OfferOf(plan)' = Promise!Offered(done \ Mute, FALSE),
         Mp3' = IF done = {} THEN Mp3 ELSE Promise!Joined(done)
  PROVE  Kept
  <1>1. /\ Stage = "joining" /\ Stage' = "describing"
        /\ Offer' = Promise!Offered(done \ Mute, FALSE)
    BY PlacesNext DEF Places
  <1>2. UNCHANGED <<done, Mute, Document>>
    BY DEF clipVars, Mute, Document, DocumentOf
  <1>3. \E list \in SUBSET done :
          /\ Mp3' = IF list = {} THEN Mp3 ELSE Promise!Joined(list)
          /\ Offer' = Promise!Offered(list \ Mute, FALSE)
    BY <1>1
  <1>4. Promise!Join
    BY <1>1, <1>2, <1>3 DEF Promise!Join
  <1> QED
    BY <1>4 DEF Kept, Promise!Next

\* The terminal update and a death forget what was offered.
LEMMA LeaveKept ==
  ASSUME UNCHANGED <<clipVars, bookMp3, manifest>>, pc' \in {"list", "done", "dead"}
  PROVE  Kept
  <1>1. Promise!Again
    BY PlacesNext DEF Places, Promise!Again, Promise!NoOffer
  <1>2. Promise!Leave
    BY <1>1, Unnoticed DEF Promise!Leave
  <1> QED
    BY <1>2 DEF Kept, Promise!Next

LEMMA CompleteKept == ASSUME WriterInv, OutputInv, OutputInv', SomeDone, Complete PROVE Kept
  <1>1. /\ pc = "complete" /\ bookMp3' = FlattenSeq(parts) /\ UNCHANGED <<clipVars, attempt, manifest>>
        /\ \/ pc' = "manifest" /\ plan' = Publishing(entries)
           \/ pc' = "abortClosed"
    BY DEF Complete
  <1>2. entries = HeardInOrder /\ bookMp3' = Narration /\ done # {}
    BY <1>1, WholeJoined DEF SomeDone
  <1>3. Mp3' = Promise!Joined(done)
    <2>1. Mp3' = [exists |-> bookMp3' # NoObject,
                  parts  |-> IF bookMp3' = NoObject THEN {} ELSE {bookMp3'[k][1] : k \in DOMAIN bookMp3'}]
      BY DEF Mp3, NoObject
    <2>2. Mp3' = [exists |-> TRUE, parts |-> done \ Mute]
      BY <1>2, <2>1, NarrationIsHeard
    <2> QED
      BY <2>2 DEF Promise!Joined
  <1>4. CASE pc' = "manifest" /\ plan' = Publishing(entries)
    <2>1. OfferOf(plan)' = OfferOf(Publishing(HeardInOrder))
      BY <1>2, <1>4 DEF OfferOf
    <2> QED
      BY <1>1, <1>2, <1>3, <1>4, <2>1, OffersMade, JoinKept
  <1>5. CASE pc' = "abortClosed"
    BY <1>1, <1>3, <1>5, FailureKept
  <1> QED
    BY <1>1, <1>4, <1>5

LEMMA PromiseStep == ASSUME WriterInv, OutputInv, OutputInv', SomeDone, [Next]_vars PROVE Kept
  <1>1. CASE List
    <2>1. pc = "list" /\ UNCHANGED <<clipVars, bookMp3, manifest>>
      BY <1>1 DEF List
    <2>2. CASE done = {}
      <3>1. pc' = "manifest" /\ plan' = Publishing(<<>>)
        BY <1>1, <2>2 DEF List
      <3>2. HeardInOrder = <<>>
        <4>1. HeardInOrder \in Seq({})
          BY <2>2, HeardTyped
        <4> QED
          BY <4>1
      <3>3. OfferOf(plan)' = OfferOf(Publishing(HeardInOrder))
        BY <3>1, <3>2 DEF OfferOf
      <3> QED
        BY <2>1, <2>2, <3>1, <3>3, OffersMade, Unnoticed, JoinKept
    <2>3. CASE done # {}
      <3>1. pc' = "create"
        BY <1>1, <2>3 DEF List
      <3> QED
        BY <2>1, <3>1, WorkKept
    <2> QED
      BY <2>2, <2>3
  <1>2. CASE Create \/ ReadFails \/ CompleteFails
    <2>1. /\ pc \in {"create", "read", "complete"} /\ pc' \in {"read", "abort", "transient"}
          /\ pc' = "read" => pc = "create"
          /\ UNCHANGED <<clipVars, attempt, bookMp3, manifest>>
      BY <1>2 DEF Create, ReadFails, CompleteFails, Leave
    <2>2. CASE pc' = "read"
      BY <2>1, <2>2, WorkKept
    <2>3. CASE pc' # "read"
      BY <2>1, <2>3, Unnoticed, FailureKept
    <2> QED
      BY <2>2, <2>3
  <1>3. CASE Read \/ Written
    <2>1. /\ pc \in {"read", "write"} /\ pc' \in {"read", "write"}
          /\ UNCHANGED <<clipVars, bookMp3, manifest>>
      BY <1>3 DEF Read, Written
    <2> QED
      BY <2>1, WorkKept
  <1>4. CASE UploadPart \/ Flush
    <2>1. /\ pc \in {"read", "write"} /\ pc' \in {"write", "complete", "abort"}
          /\ UNCHANGED <<clipVars, attempt, bookMp3, manifest>>
      BY <1>4 DEF UploadPart, Flush, Leave
    <2>2. CASE pc' = "abort"
      BY <2>1, <2>2, Unnoticed, FailureKept
    <2>3. CASE pc' # "abort"
      BY <2>1, <2>3, WorkKept
    <2> QED
      BY <2>2, <2>3
  <1>5. CASE Complete
    BY <1>5, CompleteKept
  <1>6. CASE Abort \/ AbortClosed
    <2>1. /\ pc \in {"abort", "abortClosed"} /\ pc' = "transient"
          /\ UNCHANGED <<clipVars, attempt, bookMp3, manifest>>
      BY <1>6 DEF Abort, AbortClosed
    <2>2. UNCHANGED <<Stage, Offer>>
      <3>1. UNCHANGED <<done, RetriesLeft>>
        BY <2>1 DEF clipVars, RetriesLeft
      <3> QED
        BY <2>1, <3>1, PlacesNext DEF Places, Promise!NoOffer, Promise!Offered
    <2> QED
      BY <2>1, <2>2, Unnoticed DEF Kept, Promise!vars
  <1>7. CASE Transient
    <2>1. pc = "transient" /\ UNCHANGED <<clipVars, bookMp3, manifest>>
      BY <1>7 DEF Transient
    <2>2. CASE RetriesLeft
      <3>1. pc' \in {"list", "dead"}
        BY <1>7, <2>2 DEF Transient, Raise
      <3> QED
        BY <2>1, <3>1, LeaveKept
    <2>3. CASE ~RetriesLeft
      <3>1. plan' = Degraded /\ pc' = "manifest"
        BY <1>7, <2>3 DEF Transient
      <3>2. OfferOf(plan)' = Promise!Offered(done, TRUE)
        BY <3>1, OffersMade DEF OfferOf
      <3>3. UNCHANGED <<Stage, Offer>>
        BY <2>1, <2>3, <3>1, <3>2, PlacesNext DEF Places
      <3> QED
        BY <2>1, <3>3, Unnoticed DEF Kept, Promise!vars
    <2> QED
      BY <2>2, <2>3
  <1>8. CASE PutManifest
    <2>1. /\ pc = "manifest" /\ pc' = "finish" /\ manifest' = plan
          /\ UNCHANGED <<clipVars, plan, bookMp3>>
      BY <1>8 DEF PutManifest
    <2>2. /\ Stage = "describing" /\ Stage' = "finishing"
          /\ Offer = OfferOf(plan) /\ Offer' = OfferOf(plan)
      BY <2>1, PlacesNext DEF Places, OfferOf
    <2>3. Document' = Promise!Described(Offer)
      BY <2>1, <2>2 DEF Document, DocumentOf, OfferOf, Promise!Described
    <2>4. UNCHANGED <<done, Mute, Mp3>>
      BY <2>1 DEF clipVars, Mute, Mp3
    <2>5. Promise!Describe
      BY <2>2, <2>3, <2>4 DEF Promise!Describe
    <2> QED
      BY <2>5 DEF Kept, Promise!Next
  <1>9. CASE PutManifestFails
    <2>1. pc = "manifest" /\ manifest' \in {manifest, plan} /\ UNCHANGED <<clipVars, bookMp3>>
      BY <1>9 DEF PutManifestFails
    <2>2. Stage = "describing" /\ Offer = OfferOf(plan)
      BY <2>1, PlacesNext DEF Places
    <2>3. Document' \in {Document, Promise!Described(Offer)}
      BY <2>1, <2>2 DEF Document, DocumentOf, OfferOf, Promise!Described
    <2>4. UNCHANGED <<done, Mute, Mp3>>
      BY <2>1 DEF clipVars, Mute, Mp3
    <2>5. Promise!Again \/ (Offer.degraded /\ Stage' = "finishing" /\ UNCHANGED Offer)
      <3>1. CASE plan.degraded
        <4>1. pc' = "finish" /\ UNCHANGED plan
          BY <1>9, <3>1 DEF PutManifestFails
        <4>2. Stage' = "finishing" /\ Offer' = OfferOf(plan)
          BY <4>1, PlacesNext DEF Places, OfferOf
        <4> QED
          BY <2>2, <3>1, <4>2 DEF OfferOf
      <3>2. CASE ~plan.degraded
        <4>1. pc' \in {"list", "dead"}
          BY <1>9, <3>2 DEF PutManifestFails, Raise
        <4> QED
          BY <4>1, PlacesNext DEF Places, Promise!Again, Promise!NoOffer
      <3> QED
        BY <3>1, <3>2
    <2>6. Promise!DescribeFails
      BY <2>2, <2>3, <2>4, <2>5 DEF Promise!DescribeFails
    <2> QED
      BY <2>6 DEF Kept, Promise!Next
  <1>10. CASE Finish \/ TableFails \/ Crash
    <2>1. UNCHANGED <<clipVars, bookMp3, manifest>> /\ pc' \in {"list", "done", "dead"}
      BY <1>10 DEF Finish, TableFails, Crash, Raise
    <2> QED
      BY <2>1, LeaveKept
  <1>11. CASE UNCHANGED vars
    <2>1. UNCHANGED <<clipVars, pc, attempt, plan, bookMp3, manifest>>
      BY <1>11 DEF vars
    <2>2. UNCHANGED <<Stage, Offer>>
      BY <2>1 DEF Stage, Offer, GivingUp, RetriesLeft, OfferOf, clipVars
    <2> QED
      BY <2>1, <2>2, Unnoticed DEF Kept, Promise!vars
  <1> QED
    BY <1>1, <1>2, <1>3, <1>4, <1>5, <1>6, <1>7, <1>8, <1>9, <1>10, <1>11 DEF Next

\* Call by call, whatever fails and wherever the Lambda dies, the stitcher
\* implements Stitched, for any clips and any floor of a part: book.mp3 appears
\* whole or stays what it was, and only then the manifest, of the chunks whose
\* frames are in it or without audio (stitching.py:168-353).
THEOREM AssemblyKeepsPromise == Spec => AssemblesAsPromised
  <1>1. Init => SomeDone
    BY DEF Init, SomeDone
  <1>2. WriterInv /\ OutputInv /\ OutputInv' /\ SomeDone /\ [Next]_vars => [Promise!Next]_(Promise!vars)
    BY PromiseStep DEF Kept
  <1> QED
    BY WriterInit, WriterStep, OutputInit, OutputStep, SomeDoneStep, PromiseInit, <1>1, <1>2, PTL
       DEF Spec, AssemblesAsPromised, Promise!Spec
=============================================================================
