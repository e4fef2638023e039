------------------------------ MODULE Extraction ------------------------------
(***************************************************************************)
(* ExtractBook: the handler of one S3 event.  It claims the book, reads    *)
(* the PDF, replaces the chunk rows one by one, flips the book to          *)
(* EXTRACTED and then sends the chunk messages.  Only the claim is         *)
(* conditional on the status; the updates that end it are not.             *)
(***************************************************************************)
EXTENDS Uploads

CONSTANT ExtractWorkers   \* concurrent invocations of the extract handler

VARIABLES
  extractPc,       \* what each invocation does next
  extractAttempt,  \* receive count of the event it holds, 0 when idle
  extractSize,     \* how many chunks it has found, or read on the row
  extractTodo,     \* the rows it has still to delete or to put
  diedClaiming     \* history: an invocation died while it held the claim

heldVars == <<extractAttempt, extractSize, extractTodo, diedClaiming>>
extractVars == <<extractPc, heldVars>>

ExtractPcs == {"idle", "get", "claim", "read", "list", "wipe", "save", "flip",
               "enqueue", "fail", "release", "ack"}

\* Mutant: a claim whose holder may have died is taken over.
ImpatientClaimableStatuses == {"UPLOADED", "EXTRACTING", "FAILED"}

\* The first attempt, or one after a failure.
ClaimableStatuses == {"UPLOADED", "FAILED"}

ExtractTypeOK ==
  /\ extractPc \in [ExtractWorkers -> ExtractPcs]
  /\ extractAttempt \in [ExtractWorkers -> 0 .. ExtractMaxReceive]
  /\ \A w \in ExtractWorkers : extractPc[w] # "idle" => extractAttempt[w] > 0
  /\ extractSize \in [ExtractWorkers -> 0 .. MaxChunks]
  /\ extractTodo \in [ExtractWorkers -> SUBSET Chunks]
  /\ diedClaiming \in BOOLEAN

ExtractInit ==
  /\ extractPc = [w \in ExtractWorkers |-> "idle"]
  /\ extractAttempt = [w \in ExtractWorkers |-> 0]
  /\ extractSize = [w \in ExtractWorkers |-> 0]
  /\ extractTodo = [w \in ExtractWorkers |-> {}]
  /\ diedClaiming = FALSE

-----------------------------------------------------------------------------
ExtractAt(w, here) == extractPc[w] = here
ExtractGoto(w, next) == extractPc' = [extractPc EXCEPT ![w] = next]

\* Invocations that hold the claim, or held it and have not ended.
LiveExtractors ==
  {w \in ExtractWorkers : extractPc[w] \in
     {"read", "list", "wipe", "save", "flip", "fail", "release"}}

ExtractStop(w) ==
  /\ extractPc' = [extractPc EXCEPT ![w] = "idle"]
  /\ extractAttempt' = [extractAttempt EXCEPT ![w] = 0]
  /\ extractSize' = [extractSize EXCEPT ![w] = 0]
  /\ extractTodo' = [extractTodo EXCEPT ![w] = {}]

\* An exception leaves the handler: the event is not deleted.
ExtractRaise(w) == ExtractStop(w) /\ ReturnExtractMessage(extractAttempt[w])

\* The receive count includes this receive.
Received(r) == r + 1

-----------------------------------------------------------------------------
(* The handler *)

ExtractReceive(w) ==
  \E r \in 0 .. ExtractMaxReceive - 1 :
    /\ ExtractAt(w, "idle")
    /\ extractQueue[r] > 0
    /\ extractQueue' = [extractQueue EXCEPT ![r] = @ - 1]
    /\ extractAttempt' = [extractAttempt EXCEPT ![w] = Received(r)]
    /\ ExtractGoto(w, "get")
    /\ UNCHANGED <<storeVars, pdf, form, events, extractDlq, extractSize, extractTodo, diedClaiming>>

\* A book that is EXTRACTED already is not extracted again: only its chunk
\* messages are sent again.
ExtractGet(w) ==
  /\ ExtractAt(w, "get")
  /\ IF book.status = "EXTRACTED" /\ book.total > 0
     THEN /\ extractSize' = [extractSize EXCEPT ![w] = book.total]
          /\ ExtractGoto(w, "enqueue")
     ELSE /\ UNCHANGED extractSize
          /\ ExtractGoto(w, IF book.status = Absent THEN "ack" ELSE "claim")
  /\ UNCHANGED <<storeVars, uploadVars, extractAttempt, extractTodo, diedClaiming>>

ExtractClaim(w) ==
  /\ ExtractAt(w, "claim")
  /\ IF book.status \in ClaimableStatuses
     THEN book' = [book EXCEPT !.status = "EXTRACTING"] /\ ExtractGoto(w, "read")
     ELSE UNCHANGED book /\ ExtractGoto(w, "ack")
  /\ UNCHANGED <<chunk, objectVars, queueVars, envVars, uploadVars, heldVars>>

\* The PDF is read and cut into chunks, or refused for good.
ExtractRead(w) ==
  /\ ExtractAt(w, "read")
  /\ pdf # NoPdf
  /\ extractSize' = [extractSize EXCEPT ![w] = pdf]
  /\ ExtractGoto(w, IF pdf = 0 THEN "fail" ELSE "list")
  /\ UNCHANGED <<storeVars, uploadVars, extractAttempt, extractTodo, diedClaiming>>

\* Mutant: the rows of an earlier attempt are left.
ExtractListNothing(w) ==
  /\ ExtractAt(w, "list")
  /\ extractTodo' = [extractTodo EXCEPT ![w] = {}]
  /\ ExtractGoto(w, "wipe")
  /\ UNCHANGED <<storeVars, uploadVars, extractAttempt, extractSize, diedClaiming>>

\* delete_for_book queries the keys, then deletes row by row.  Its query is not a
\* consistent read, but the rows it is after are those of an earlier attempt, and
\* a redelivery comes when the visibility timeout is over: it shows them all.
ExtractList(w) ==
  /\ ExtractAt(w, "list")
  /\ extractTodo' = [extractTodo EXCEPT ![w] = Rows]
  /\ ExtractGoto(w, "wipe")
  /\ UNCHANGED <<storeVars, uploadVars, extractAttempt, extractSize, diedClaiming>>

ExtractWipeRow(w) ==
  \E c \in extractTodo[w] :
    /\ ExtractAt(w, "wipe")
    /\ chunk' = [chunk EXCEPT ![c] = Absent]
    /\ extractTodo' = [extractTodo EXCEPT ![w] = @ \ {c}]
    /\ UNCHANGED <<book, objectVars, queueVars, envVars, uploadVars, extractPc, extractAttempt, extractSize, diedClaiming>>

ExtractWiped(w) ==
  /\ ExtractAt(w, "wipe")
  /\ extractTodo[w] = {}
  /\ extractTodo' = [extractTodo EXCEPT ![w] = 0 .. extractSize[w] - 1]
  /\ ExtractGoto(w, "save")
  /\ UNCHANGED <<storeVars, uploadVars, extractAttempt, extractSize, diedClaiming>>

\* save_all puts row by row, whatever was there and whether the book still is.
ExtractSaveRow(w) ==
  \E c \in extractTodo[w] :
    /\ ExtractAt(w, "save")
    /\ chunk' = [chunk EXCEPT ![c] = "PENDING"]
    /\ extractTodo' = [extractTodo EXCEPT ![w] = @ \ {c}]
    /\ ExtractGoto(w, IF extractTodo[w] = {c} THEN "flip" ELSE "save")
    /\ UNCHANGED <<book, objectVars, queueVars, envVars, uploadVars, extractAttempt, extractSize, diedClaiming>>

\* The unconditional flip; an update of a book that is gone raises, out of the
\* handler's own error handling too.
ExtractFlip(w) ==
  /\ ExtractAt(w, "flip")
  /\ IF book.status # Absent
     THEN /\ book' = ExtractedBook(extractSize[w])
          /\ ExtractGoto(w, "enqueue")
          /\ UNCHANGED <<extractAttempt, extractSize, extractTodo, extractQueue, extractDlq>>
     ELSE UNCHANGED book /\ ExtractRaise(w)
  /\ UNCHANGED <<chunk, objectVars, queueVars, envVars, pdf, form, events, diedClaiming>>

ExtractEnqueue(w) ==
  /\ ExtractAt(w, "enqueue")
  /\ synthQueue' = WithChunkMessages(synthQueue, 0 .. extractSize[w] - 1)
  /\ ExtractGoto(w, "ack")
  /\ UNCHANGED <<tableVars, objectVars, synthDlq, stitchQueue, envVars, uploadVars, heldVars>>

\* Mutant: the message is taken for sent.
ExtractEnqueueSwallowed(w) ==
  /\ ExtractAt(w, "enqueue")
  /\ SpendSend
  /\ ExtractGoto(w, "ack")
  /\ UNCHANGED <<tableVars, objectVars, queueVars, lostCount, uploadVars, heldVars>>

\* Part of the batch may have been accepted.
ExtractEnqueueFails(w) ==
  /\ ExtractAt(w, "enqueue")
  /\ SpendSend
  /\ \E sent \in SUBSET (0 .. extractSize[w] - 1) :
       synthQueue' = WithChunkMessages(synthQueue, sent)
  /\ ExtractRaise(w)
  /\ UNCHANGED <<tableVars, objectVars, synthDlq, stitchQueue, lostCount, pdf, form, events, diedClaiming>>

\* The PDF is rejected: terminal, and unconditional too.
ExtractFail(w) ==
  /\ ExtractAt(w, "fail")
  /\ IF book.status # Absent
     THEN /\ book' = [book EXCEPT !.status = "FAILED", !.reason = "EXTRACTION"]
          /\ ExtractGoto(w, "ack")
          /\ UNCHANGED <<extractAttempt, extractSize, extractTodo, extractQueue, extractDlq>>
     ELSE UNCHANGED book /\ ExtractRaise(w)
  /\ UNCHANGED <<chunk, objectVars, queueVars, envVars, pdf, form, events, diedClaiming>>

\* Any other exception between the claim and the flip.
ExtractTransient(w) ==
  /\ extractPc[w] \in {"read", "list", "wipe", "save", "flip"}
  /\ ExtractGoto(w, "release")
  /\ UNCHANGED <<storeVars, uploadVars, heldVars>>

\* Mutant: the update that gives the claim back demands nothing.
ExtractReleaseAnyway(w) ==
  /\ ExtractAt(w, "release")
  /\ book' = [book EXCEPT !.status = "UPLOADED"]
  /\ ExtractRaise(w)
  /\ UNCHANGED <<chunk, objectVars, queueVars, envVars, pdf, form, events, diedClaiming>>

\* The claim is given back, and SQS redelivers.
ExtractRelease(w) ==
  /\ ExtractAt(w, "release")
  /\ book' = IF book.status = Absent THEN book ELSE [book EXCEPT !.status = "UPLOADED"]
  /\ ExtractRaise(w)
  /\ UNCHANGED <<chunk, objectVars, queueVars, envVars, pdf, form, events, diedClaiming>>

ExtractAck(w) ==
  /\ ExtractAt(w, "ack")
  /\ ExtractStop(w)
  /\ UNCHANGED <<storeVars, uploadVars, diedClaiming>>

-----------------------------------------------------------------------------
(* The environment of the handler *)

ExtractCrash(w) ==
  /\ ~ExtractAt(w, "idle")
  /\ Crash(FALSE, FALSE)
  /\ diedClaiming' = (diedClaiming \/ w \in LiveExtractors)
  /\ ExtractRaise(w)
  /\ UNCHANGED <<tableVars, objectVars, queueVars, pdf, form, events>>

-----------------------------------------------------------------------------
ExtractHandler(w) ==
  \/ ExtractReceive(w) \/ ExtractGet(w) \/ ExtractClaim(w) \/ ExtractRead(w)
  \/ ExtractList(w) \/ ExtractWipeRow(w) \/ ExtractWiped(w) \/ ExtractSaveRow(w)
  \/ ExtractFlip(w) \/ ExtractEnqueue(w) \/ ExtractEnqueueFails(w)
  \/ ExtractFail(w) \/ ExtractTransient(w) \/ ExtractRelease(w) \/ ExtractAck(w)

ExtractNext == \E w \in ExtractWorkers : ExtractHandler(w) \/ ExtractCrash(w)

ExtractFairness ==
  \A w \in ExtractWorkers : WF_<<storeVars, uploadVars, extractVars>>(ExtractHandler(w))
=============================================================================
