-------------------------------- MODULE FanIn --------------------------------
(***************************************************************************)
(* The fan-in on its own: a book that has just been extracted, its chunk   *)
(* messages, and the synthesize invocations, up to the stitch message.     *)
(* Nobody reads the stitch queue here, so what is sent stays in it.        *)
(***************************************************************************)
EXTENDS Synthesis

vars == <<storeVars, synthVars>>

Init == StoreExtracted(MaxChunks) /\ SynthInit

Spec == Init /\ [][SynthNext]_vars

FairSpec == Spec /\ SynthFairness

TypeOK == StoreTypeOK /\ SynthTypeOK

-----------------------------------------------------------------------------
WithStatus(s) == {c \in Chunks : chunk[c] = s}
WorkersAt(pc) == {w \in SynthWorkers : synthPc[w] = pc}

StitchSent == \E r \in DOMAIN stitchQueue : stitchQueue[r] > 0

\* A chunk message that is still going to be worked on, or was dead-lettered.
MessageOutstanding ==
  \/ \E b \in SynthBodies : synthQueue[b] > 0
  \/ \E c \in Chunks : synthDlq[c] > 0
  \/ \E w \in SynthWorkers : synthPc[w] \notin {"idle", "ack"}

\* A row that says DONE carries the keys of two objects that both exist, in
\* every interleaving of duplicate invocations, failed puts and crashes
\* (synthesis.py:167-182: audio, then marks, then the row).
AdvertisedNarration == \A c \in WithStatus("DONE") : c \in clips /\ c \in markDocs

\* Once DONE, a chunk stays DONE: no late claim, release or failure of a
\* duplicate invocation takes it back (synthesis.py:134, 199, 233, 261).
DoneIsFinal == [][\A c \in Chunks : chunk[c] = "DONE" => chunk'[c] = "DONE"]_vars

\* Each DONE chunk is counted exactly once as a success: what is counted, what
\* an invocation is about to count and what died uncounted add up.
DoneCountedOnce ==
  Cardinality(WithStatus("DONE")) =
    (book.done - book.failed) + Cardinality(WorkersAt("countDone")) + lostCount.done

\* Each FAILED chunk is counted at least once as a failure; a chunk that is
\* FAILED may be claimed again, so it may be counted more often.
FailedCounted ==
  Cardinality(WithStatus("FAILED")) <=
    book.failed + Cardinality(WorkersAt("countFailed")) + lostCount.failed

\* The completion signal is never dropped: while the counter is complete, the
\* stitch message was sent, or some chunk message is left whose processing
\* sends it (synthesis.py:308-329 and the branch at 101-112).
StitchNeverDropped ==
  IsComplete(book.done, book.total) => StitchSent \/ MessageOutstanding

\* Every book gets its stitch message, however often sends fail and messages
\* are delivered twice, unless an invocation died between the DONE row and its
\* increment or a message was dead-lettered.  An increment lost after a FAILED
\* row is made good, because the redelivery claims the FAILED chunk again.
FanInFires == <>(StitchSent \/ lostCount.done > 0 \/ \E c \in Chunks : synthDlq[c] > 0)
=============================================================================
