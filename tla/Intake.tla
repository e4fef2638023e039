-------------------------------- MODULE Intake --------------------------------
(***************************************************************************)
(* From a new book to one whose narration is under way: the uploads of its *)
(* owner, the extract handler and the sweeper of the extract DLQ.  What    *)
(* comes after is one narrator that does in a step what Narration does in  *)
(* many, so that rows are narrated while late extractions go on.           *)
(***************************************************************************)
EXTENDS ExtractSweeping

vars == <<storeVars, uploadVars, extractVars, xsweepVars>>

\* The row of RequestBookUpload, and nothing else.
Init ==
  /\ book = NewBook
  /\ chunk = [c \in Chunks |-> Absent]
  /\ clips = {}
  /\ markDocs = {}
  /\ synthQueue = [b \in SynthBodies |-> 0]
  /\ synthDlq = [c \in Chunks |-> 0]
  /\ stitchQueue = [r \in 0 .. StitchMaxReceive - 1 |-> 0]
  /\ NoFaults
  /\ lostCount = [done |-> 0, failed |-> 0]
  /\ UploadInit /\ ExtractInit /\ XSweepInit

-----------------------------------------------------------------------------
(* The narrator *)

\* A chunk message: a row that is not DONE is narrated and counted, any other
\* message is consumed.
NarrateChunk ==
  \E b \in SynthBodies :
    LET c == b[1] IN
    /\ synthQueue[b] > 0
    /\ synthQueue' = [synthQueue EXCEPT ![b] = @ - 1]
    /\ IF chunk[c] \in NonTerminalChunkStatuses
       THEN /\ chunk' = [chunk EXCEPT ![c] = "DONE"]
            /\ book' = [book EXCEPT !.done = @ + 1]
            /\ clips' = clips \cup {c}
            /\ markDocs' = markDocs \cup {c}
       ELSE UNCHANGED <<tableVars, objectVars>>
    /\ UNCHANGED <<synthDlq, stitchQueue, envVars>>

StitchRows ==
  /\ book.status = "EXTRACTED"
  /\ IsComplete(book.done, book.total)
  /\ LET done == {c \in Rows : chunk[c] = "DONE"} IN
       book' = [book EXCEPT !.status = IF done # {} /\ done = Rows THEN "READY" ELSE "PARTIAL",
                            !.audioKey = done # {},
                            !.manifestKey = TRUE]
  /\ UNCHANGED <<chunk, objectVars, queueVars, envVars>>

Narrator == NarrateChunk \/ StitchRows

-----------------------------------------------------------------------------
Next ==
  \/ UploadNext  /\ UNCHANGED <<extractVars, xsweepVars>>
  \/ ExtractNext /\ UNCHANGED xsweepVars
  \/ XSweepNext  /\ UNCHANGED extractVars
  \/ Narrator    /\ UNCHANGED <<uploadVars, extractVars, xsweepVars>>

Spec == Init /\ [][Next]_vars

FairSpec == Spec /\ ExtractFairness /\ XSweepFairness /\ WF_storeVars(Narrator)

TypeOK == StoreTypeOK /\ UploadTypeOK /\ ExtractTypeOK /\ XSweepTypeOK

-----------------------------------------------------------------------------
\* Whoever sees EXTRACTED, or a status after it, finds exactly the rows that
\* chunks_total announces: no row is missing, and none of an earlier attempt
\* with more chunks is left (extraction.py:5-8, 183-191).  It holds as long as
\* the sweeper does not fail a book whose extraction is still going on.
ExtractedHasRows ==
  ~failedLive /\ book.status \in {"EXTRACTED", "READY", "PARTIAL"} => Rows = 0 .. book.total - 1

\* Work that was narrated is not wiped by a late or repeated extraction: a DONE
\* row stays DONE and a READY book READY (extraction.py:43-46, 119-122).
NarrationSurvives ==
  [][~failedLive =>
       /\ \A c \in Chunks : chunk[c] = "DONE" => chunk'[c] = "DONE"
       /\ book.status = "READY" => book'.status = "READY"]_vars

\* The claim admits one extraction at a time, over releases, failures, uploads
\* and redeliveries (extraction.py:108-123).
OneExtraction == ~failedLive => Cardinality(LiveExtractors) <= 1

\* Every upload comes to an end: the book is finished or FAILED, so that its
\* owner sees an outcome.  The exceptions are an invocation that died holding
\* the claim, a fan-out that used up its receives, and a book that was failed
\* under a live extraction.
EveryUploadSettles ==
  []<>(\/ events = 0 \/ book.status \in TerminalBookStatuses
       \/ diedClaiming \/ droppedFanOut \/ failedLive)
=============================================================================
