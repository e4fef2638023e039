------------------------------ MODULE Assembly ------------------------------
(***************************************************************************)
(* What one stitcher does between its claim and its terminal update, call  *)
(* by call: it reads the clips of a book in order, strips them to their    *)
(* frames, writes the frames to S3 as the parts of a multipart upload, and *)
(* writes the manifest that says where in book.mp3 and when each chunk is. *)
(* Any call may fail, with or without its effect, and the Lambda may die.  *)
(* (Stitching has all this in one step, and the other handlers around it.) *)
(***************************************************************************)
EXTENDS Integers, Sequences, SequencesExt, FiniteSets, FiniteSetsExt

CONSTANTS
  Chunks,              \* indexes of the chunk rows
  MIN_PART_BYTES,      \* the least size of a part that is not the last
  Sizes,               \* bytes of frames in a clip; 0: no decodable frame
  Durations,           \* durations of a clip, in units of 1 / Resolution ms
  Resolution,
  StitchMaxReceive,    \* receives of a stitch message before it is dead-lettered
  MaxFaults            \* bound: failing calls and crashes

ASSUME AssemblyAssumption ==
  /\ Chunks \subseteq Nat /\ IsFiniteSet(Chunks)
  /\ MIN_PART_BYTES \in Nat \ {0} /\ Resolution \in Nat \ {0}
  /\ Sizes \subseteq Nat /\ Durations \subseteq Nat
  /\ StitchMaxReceive \in Nat \ {0} /\ MaxFaults \in Nat

VARIABLES
  done, size, duration,  \* the chunks that are DONE, and their clips
  pc,          \* the call the stitcher makes next
  attempt,     \* receive count of the message
  todo,        \* the chunks whose clips it has still to read, least index first
  buffer,      \* bytes not yet uploaded
  parts,       \* parts uploaded, as sequences of bytes
  entries,     \* chunks whose frames were written
  plan,        \* what it is going to publish
  uploads,     \* multipart uploads open at S3
  bookMp3,     \* the object book.mp3, a sequence of bytes, or NoObject
  manifest,    \* the plan the manifest object was written from, or NoPlan
  faults,      \* faults so far
  orphans      \* history: uploads nobody can know of or close any more

clipVars == <<done, size, duration>>
writerVars == <<todo, buffer, parts, entries>>
vars == <<clipVars, writerVars, pc, attempt, plan, uploads, bookMp3, manifest, faults, orphans>>

StitcherPcs == {"list", "create", "read", "write", "complete", "abort", "abortClosed",
                "transient", "manifest", "finish", "done", "dead"}

\* No byte of any clip, and nothing to publish.
NoObject == <<<<-1, 0>>>>
NoPlan == [segments |-> <<>>, missing |-> {}, total |-> 0, audio |-> FALSE, degraded |-> FALSE]
Frames(c) == [k \in 1 .. size[c] |-> <<c, k>>]

-----------------------------------------------------------------------------
(* plan_segments *)

\* Python's round of n / d: to the nearest, a tie to the even neighbour.
Round(n, d) ==
  LET down == n \div d
      rest == 2 * (n % d)
  IN IF rest < d \/ (rest = d /\ down % 2 = 0) THEN down ELSE down + 1

\* Mutant: each duration is rounded on its own.
NextMsRoundedAlone(before, time, length) == time + Round(length, Resolution)

\* The end of a segment that starts at time and is length long, when the exact
\* sum of the lengths before it is before.
NextMs(before, time, length) == Round(before + length, Resolution)

\* Mutant: the last byte is taken for the end.
NextByteClosed(cursor, c) == cursor + size[c] - 1

\* Byte ranges are half-open.
NextByte(cursor, c) == cursor + size[c]

\* Lays the chunks of the list end to end; measured: their bytes are in book.mp3.
PlanSegments(list, lengths, measured) ==
  LET Lay(laid, c) ==
        LET time == NextMs(laid.exact, laid.time, lengths[c]) IN
        [exact |-> laid.exact + lengths[c],
         time |-> time,
         cursor |-> NextByte(laid.cursor, c),
         segments |-> Append(laid.segments,
           [i |-> c, t |-> laid.time, d |-> time - laid.time,
            bytes |-> IF measured THEN <<laid.cursor, NextByte(laid.cursor, c)>> ELSE <<>>])]
  IN FoldLeft(Lay, [exact |-> 0, time |-> 0, cursor |-> 0, segments |-> <<>>], list)

\* Rows are listed by index.
InOrder(rows) ==
  CHOOSE s \in [1 .. Cardinality(rows) -> rows] : \A j, k \in DOMAIN s : j < k => s[j] < s[k]

\* The rows that are DONE (for the plan that reads no clip).
DoneInOrder == InOrder(done)

\* What there is to publish once the frames of the list are in book.mp3.
Publishing(list) ==
  LET laid == PlanSegments(list, duration, TRUE)
  IN [segments |-> laid.segments, missing |-> Chunks \ ToSet(list),
      total |-> laid.time, audio |-> list # <<>>, degraded |-> FALSE]

\* The last resort: every DONE chunk, timed by the duration its row holds.
Degraded ==
  LET stored == [c \in done |-> Resolution * Round(duration[c], Resolution)]
      laid == PlanSegments(DoneInOrder, stored, FALSE)
  IN [segments |-> laid.segments, missing |-> Chunks \ done,
      total |-> laid.time, audio |-> FALSE, degraded |-> TRUE]

-----------------------------------------------------------------------------
(* Faults and the message *)

Fault == faults < MaxFaults /\ faults' = faults + 1

Reset ==
  /\ todo' = {} /\ buffer' = <<>> /\ parts' = <<>> /\ entries' = <<>>
  /\ plan' = NoPlan

\* The message comes back, or is dead-lettered.
Raise ==
  /\ Reset
  /\ IF attempt < StitchMaxReceive
     THEN attempt' = attempt + 1 /\ pc' = "list"
     ELSE UNCHANGED attempt /\ pc' = "dead"

\* The writer is left by an exception: the upload is given up.
Leave == pc' = "abort" /\ UNCHANGED writerVars

-----------------------------------------------------------------------------
(* _concatenate, and the writer it drives *)

List ==
  /\ pc = "list"
  /\ todo' = done
  /\ IF done = {} THEN plan' = Publishing(<<>>) /\ pc' = "manifest"
                  ELSE UNCHANGED plan /\ pc' = "create"
  /\ UNCHANGED <<clipVars, buffer, parts, entries, attempt, uploads, bookMp3, manifest, faults, orphans>>

Create ==
  /\ pc = "create"
  /\ \/ uploads' = uploads + 1 /\ pc' = "read" /\ UNCHANGED <<faults, orphans>>
     \/ Fault /\ pc' = "transient" /\ UNCHANGED <<uploads, orphans>>
     \/ Fault /\ pc' = "transient" /\ uploads' = uploads + 1 /\ orphans' = orphans + 1
  /\ UNCHANGED <<clipVars, writerVars, attempt, plan, bookMp3, manifest>>

\* Mutant: a clip that cannot be read is left out.
ReadFailsSkipping ==
  /\ pc = "read" /\ Fault
  /\ \E c \in todo : (\A d \in todo : c <= d) /\ todo' = todo \ {c}
  /\ UNCHANGED <<clipVars, pc, buffer, parts, entries, attempt, plan, uploads, bookMp3, manifest, orphans>>

ReadFails ==
  /\ pc = "read" /\ todo # {} /\ Fault /\ Leave
  /\ UNCHANGED <<clipVars, attempt, plan, uploads, bookMp3, manifest, orphans>>

\* The next clip by index.  One without frames is passed over; the frames of another are written.
Read ==
  /\ pc = "read"
  /\ \E c \in todo :
       /\ \A d \in todo : c <= d
       /\ todo' = todo \ {c}
       /\ IF size[c] = 0 THEN UNCHANGED <<pc, buffer, entries>>
          ELSE pc' = "write" /\ buffer' = buffer \o Frames(c) /\ entries' = Append(entries, c)
  /\ UNCHANGED <<clipVars, parts, attempt, plan, uploads, bookMp3, manifest, faults, orphans>>

\* Mutant: each write uploads what there is.
FullPartAnySize == buffer # <<>>

\* Mutant: at most one part is uploaded for each clip.
FullPartAtMostOnce == Len(buffer) >= MIN_PART_BYTES /\ Len(parts) < Len(entries)

\* There is a part to upload before the next clip is read.
FullPart == Len(buffer) >= MIN_PART_BYTES

UploadPart ==
  /\ pc = "write" /\ FullPart
  /\ \/ /\ LET n == Min({MIN_PART_BYTES, Len(buffer)}) IN
           /\ parts' = Append(parts, SubSeq(buffer, 1, n))
           /\ buffer' = SubSeq(buffer, n + 1, Len(buffer))
        /\ UNCHANGED <<pc, todo, entries, faults>>
     \/ Fault /\ Leave
  /\ UNCHANGED <<clipVars, attempt, plan, uploads, bookMp3, manifest, orphans>>

Written ==
  /\ pc = "write" /\ ~FullPart
  /\ pc' = "read"
  /\ UNCHANGED <<clipVars, writerVars, attempt, plan, uploads, bookMp3, manifest, faults, orphans>>

\* The list of parts must not be empty.
TailToUpload == buffer # <<>> \/ parts = <<>>

Flush ==
  /\ pc = "read" /\ todo = {}
  /\ \/ /\ parts' = IF TailToUpload THEN Append(parts, buffer) ELSE parts
        /\ buffer' = <<>> /\ pc' = "complete"
        /\ UNCHANGED <<todo, entries, faults>>
     \/ TailToUpload /\ Fault /\ Leave
  /\ UNCHANGED <<clipVars, attempt, plan, uploads, bookMp3, manifest, orphans>>

\* Mutant: a completion that failed is not followed by an abort.
CompleteFailsQuietly ==
  /\ pc = "complete" /\ Fault /\ pc' = "transient"
  /\ UNCHANGED <<clipVars, writerVars, attempt, plan, uploads, bookMp3, manifest, orphans>>

CompleteFails ==
  /\ pc = "complete" /\ Fault /\ Leave
  /\ UNCHANGED <<clipVars, attempt, plan, uploads, bookMp3, manifest, orphans>>

\* Mutant: the manifest names every DONE chunk, with or without frames.
CompleteNamingAll ==
  /\ pc = "complete"
  /\ bookMp3' = FlattenSeq(parts) /\ uploads' = uploads - 1
  /\ \/ plan' = Publishing(DoneInOrder) /\ pc' = "manifest" /\ UNCHANGED <<writerVars, faults>>
     \/ Fault /\ pc' = "abortClosed" /\ UNCHANGED <<writerVars, plan>>
  /\ UNCHANGED <<clipVars, attempt, manifest, orphans>>

\* S3 joins the parts; the stitcher may not get to know.
Complete ==
  /\ pc = "complete"
  /\ bookMp3' = FlattenSeq(parts) /\ uploads' = uploads - 1
  /\ \/ plan' = Publishing(entries) /\ pc' = "manifest" /\ UNCHANGED <<writerVars, faults>>
     \/ Fault /\ pc' = "abortClosed" /\ UNCHANGED <<writerVars, plan>>
  /\ UNCHANGED <<clipVars, attempt, manifest, orphans>>

\* An abort that fails leaves the upload open, without a trace of its id.
Abort ==
  /\ pc = "abort" /\ pc' = "transient"
  /\ \/ uploads' = uploads - 1 /\ UNCHANGED <<faults, orphans>>
     \/ Fault /\ orphans' = orphans + 1 /\ UNCHANGED uploads
  /\ UNCHANGED <<clipVars, writerVars, attempt, plan, bookMp3, manifest>>

\* S3 knows no such upload any more.
AbortClosed ==
  /\ pc = "abortClosed" /\ pc' = "transient"
  /\ UNCHANGED <<clipVars, writerVars, attempt, plan, uploads, bookMp3, manifest, faults, orphans>>

-----------------------------------------------------------------------------
(* _handle_transient and _finish *)

RetriesLeft == attempt < StitchMaxReceive

\* Retried while there are attempts left, then degraded.
Transient ==
  /\ pc = "transient"
  /\ IF RetriesLeft THEN Raise
     ELSE plan' = Degraded /\ pc' = "manifest" /\ UNCHANGED <<writerVars, attempt>>
  /\ UNCHANGED <<clipVars, uploads, bookMp3, manifest, faults, orphans>>

PutManifest ==
  /\ pc = "manifest"
  /\ manifest' = plan /\ pc' = "finish"
  /\ UNCHANGED <<clipVars, writerVars, attempt, plan, uploads, bookMp3, faults, orphans>>

\* The call raises, whether or not the object was written; a plan that is
\* degraded already is finished without it.
PutManifestFails ==
  /\ pc = "manifest" /\ Fault
  /\ manifest' \in {manifest, plan}
  /\ IF plan.degraded THEN pc' = "finish" /\ UNCHANGED <<writerVars, attempt, plan>> ELSE Raise
  /\ UNCHANGED <<clipVars, uploads, bookMp3, orphans>>

\* The terminal update of the row.
Finish ==
  /\ pc = "finish" /\ pc' = "done"
  /\ UNCHANGED <<clipVars, writerVars, attempt, plan, uploads, bookMp3, manifest, faults, orphans>>

\* list_for_book and the terminal update are calls of the table outside any
\* try: one that raises ends the attempt, the last one too.
TableFails ==
  /\ pc \in {"list", "finish"} /\ Fault /\ Raise
  /\ UNCHANGED <<clipVars, uploads, bookMp3, manifest, orphans>>

AtRest == pc \in {"done", "dead"}
HoldsUpload == pc \in {"read", "write", "complete", "abort"}

Crash ==
  /\ ~AtRest /\ Fault /\ Raise
  /\ orphans' = orphans + (IF HoldsUpload THEN 1 ELSE 0)
  /\ UNCHANGED <<clipVars, uploads, bookMp3, manifest>>

Init ==
  /\ done \in SUBSET Chunks
  /\ size \in [done -> Sizes]
  /\ duration \in [done -> Durations]
  /\ pc = "list" /\ attempt = 1
  /\ todo = {} /\ buffer = <<>> /\ parts = <<>> /\ entries = <<>>
  /\ plan = NoPlan
  /\ uploads = 0 /\ bookMp3 = NoObject /\ manifest = NoPlan
  /\ faults = 0 /\ orphans = 0

Next ==
  \/ List \/ Create \/ Read \/ ReadFails \/ UploadPart \/ Written \/ Flush
  \/ Complete \/ CompleteFails \/ Abort \/ AbortClosed
  \/ Transient \/ PutManifest \/ PutManifestFails \/ Finish
  \/ TableFails \/ Crash

Spec == Init /\ [][Next]_vars

-----------------------------------------------------------------------------
(* Properties *)

\* The frames that belong into book.mp3, and the chunks they are of.
HeardInOrder == InOrder({c \in done : size[c] > 0})
Narration == FlattenSeq([i \in DOMAIN HeardInOrder |-> Frames(HeardInOrder[i])])

TypeOK ==
  /\ pc \in StitcherPcs
  /\ attempt \in 1 .. StitchMaxReceive
  /\ uploads \in Nat /\ orphans \in Nat /\ faults \in 0 .. MaxFaults
  /\ todo \subseteq done /\ ToSet(entries) \subseteq done
  /\ plan.missing \subseteq Chunks

\* book.mp3 is the whole narration or there is no book.mp3: whatever fails, a
\* part of a book is never there under the key that a row may advertise.
WholeOrNothing == bookMp3 \in {NoObject, Narration}

\* A manifest with audio addresses the frames of each chunk in book.mp3 exactly.
ByteRangesAddressFrames ==
  manifest.audio =>
    \A k \in DOMAIN manifest.segments :
      LET s == manifest.segments[k] IN
      SubSeq(bookMp3, s.bytes[1] + 1, s.bytes[2]) = Frames(s.i)

\* S3 takes the parts: there is one, and only the last is below the floor.
PartsAreLegal ==
  pc = "complete" =>
    parts # <<>> /\ \A k \in 1 .. Len(parts) - 1 : Len(parts[k]) >= MIN_PART_BYTES

\* The memory of the stitcher does not grow with the book: less than one part
\* and the frames of one clip.
BufferBounded ==
  \E s \in Sizes \cup {0} : Len(buffer) < MIN_PART_BYTES + s

\* No upload stays open but those whose id was lost with a response, an abort
\* or the Lambda.
UploadsAccountedFor == uploads = orphans + (IF HoldsUpload THEN 1 ELSE 0)

\* The exact end of the k-th of some segments, in units of 1 / Resolution ms.
ExactEnd(segments, k) ==
  FoldLeft(LAMBDA sum, s : sum + duration[s.i], 0, SubSeq(segments, 1, k))

\* The timeline that is published has no gap and no overlap, passes the
\* asserts of build_book_manifest, and however long the book is no boundary
\* is more than half a millisecond off.
TimelineExact ==
  pc = "manifest" =>
    /\ \A k \in DOMAIN plan.segments :
         LET s == plan.segments[k] IN
         /\ s.t = IF k = 1 THEN 0 ELSE plan.segments[k - 1].t + plan.segments[k - 1].d
         /\ k > 1 => plan.segments[k - 1].i < s.i
         /\ ~plan.degraded =>
              LET off == 2 * (Resolution * (s.t + s.d) - ExactEnd(plan.segments, k))
              IN -Resolution <= off /\ off <= Resolution
    /\ plan.total = IF plan.segments = <<>> THEN 0
                    ELSE Last(plan.segments).t + Last(plan.segments).d

\* Reading has failed for the last time: what is left to publish is settled,
\* though the upload has still to be closed.
GivingUp == pc \in {"abort", "abortClosed", "transient"} /\ ~RetriesLeft

DocumentOf(p) ==
  [segments |-> {p.segments[k].i : k \in DOMAIN p.segments}, missing |-> p.missing, audio |-> p.audio]

OfferOf(p) ==
  [segments |-> {p.segments[k].i : k \in DOMAIN p.segments}, missing |-> p.missing,
   audio |-> p.audio, degraded |-> p.degraded]

\* The stitcher and its outputs, as Stitched sees them.
Mute == {c \in done : size[c] = 0}

Stage ==
  CASE pc = "manifest" \/ GivingUp -> "describing"
    [] pc = "finish"               -> "finishing"
    [] OTHER                       -> "joining"

Offer ==
  CASE GivingUp -> [segments |-> done, missing |-> Chunks \ done, audio |-> FALSE, degraded |-> TRUE]
    [] pc \in {"manifest", "finish"} -> OfferOf(plan)
    [] OTHER -> OfferOf(NoPlan)

Mp3 ==
  [exists |-> bookMp3 # NoObject,
   parts  |-> IF bookMp3 = NoObject THEN {} ELSE {bookMp3[k][1] : k \in DOMAIN bookMp3}]

Document == DocumentOf(manifest)

Promise == INSTANCE Stitched WITH
  Parts <- Chunks, told <- done, mute <- Mute,
  stage <- Stage, offer <- Offer, mp3 <- Mp3, document <- Document

\* Call by call, with every failure and death in between, a stitcher keeps the
\* promise of Stitched: book.mp3 appears whole or stays what it was, and the
\* manifest is written after it of the chunks whose frames are in it, or offers
\* no audio (stitching.py:168-353).
AssemblesAsPromised == Promise!Spec

\* Trouble with the audio never dead-letters the message: the last attempt
\* degrades, whichever call of storage failed while book.mp3 was made.  What
\* does is a dying Lambda, a manifest that cannot be written, and a call of the
\* table that raises.
DeadOnlyWithoutWayOut ==
  [][pc' = "dead" => \/ Crash \/ TableFails
                     \/ PutManifestFails /\ ~plan.degraded]_vars
=============================================================================
