----------------------------- MODULE Resynthesis -----------------------------
(***************************************************************************)
(* ResynthesizeBook: POST /books/{id}/resynthesize on a PARTIAL book.  It  *)
(* puts the FAILED and PENDING chunks back to PENDING one by one, rewinds  *)
(* the counter of the book by as many, then sends their messages again.    *)
(* Nothing redelivers an API call: what dies half-way stays half-way.      *)
(***************************************************************************)
EXTENDS LibraryStore

CONSTANTS
  Retriers,       \* concurrent API calls (two tabs, a double click)
  MaxRetries      \* bound: how many calls are made in all

ASSUME RetryAssumption == MaxRetries \in Nat

VARIABLES
  retryPc,     \* what each call does next
  retryTodo,   \* the rows its list returned as FAILED or PENDING, not yet reset
  retryReset,  \* the chunks it has reset
  retryTotal,  \* chunks_total when it read the book
  retries      \* calls made so far

retryVars == <<retryPc, retryTodo, retryReset, retryTotal, retries>>

RetryPcs == {"idle", "list", "reset", "publish"}

RetryableChunkStatuses == {"FAILED", "PENDING"}

RetryTypeOK ==
  /\ retryPc \in [Retriers -> RetryPcs]
  /\ retryTodo \in [Retriers -> SUBSET Chunks]
  /\ retryReset \in [Retriers -> SUBSET Chunks]
  /\ retryTotal \in [Retriers -> 0 .. MaxChunks]
  /\ retries \in 0 .. MaxRetries

RetryInit ==
  /\ retryPc = [r \in Retriers |-> "idle"]
  /\ retryTodo = [r \in Retriers |-> {}]
  /\ retryReset = [r \in Retriers |-> {}]
  /\ retryTotal = [r \in Retriers |-> 0]
  /\ retries = 0

-----------------------------------------------------------------------------
RetryAt(r, here) == retryPc[r] = here
RetryGoto(r, next) == retryPc' = [retryPc EXCEPT ![r] = next]

\* The call answers, with a result or an error.
RetryStop(r) ==
  /\ retryPc' = [retryPc EXCEPT ![r] = "idle"]
  /\ retryTodo' = [retryTodo EXCEPT ![r] = {}]
  /\ retryReset' = [retryReset EXCEPT ![r] = {}]
  /\ retryTotal' = [retryTotal EXCEPT ![r] = 0]

\* Any other status answers 409 and changes nothing.
RetryStart(r) ==
  /\ RetryAt(r, "idle")
  /\ retries < MaxRetries
  /\ book.status = "PARTIAL"
  /\ retries' = retries + 1
  /\ retryTotal' = [retryTotal EXCEPT ![r] = book.total]
  /\ RetryGoto(r, "list")
  /\ UNCHANGED <<storeVars, retryTodo, retryReset>>

RetryList(r) ==
  /\ RetryAt(r, "list")
  /\ retryTodo' = [retryTodo EXCEPT ![r] = {c \in Rows : chunk[c] \in RetryableChunkStatuses}]
  /\ RetryGoto(r, "reset")
  /\ UNCHANGED <<storeVars, retryReset, retryTotal, retries>>

\* The next row of the list in index order; one that was claimed meanwhile is
\* left out, one that was deleted ends the call.
RetryResetChunk(r) ==
  \E c \in retryTodo[r] :
    /\ RetryAt(r, "reset")
    /\ \A d \in retryTodo[r] : c <= d
    /\ IF chunk[c] = Absent
       THEN RetryStop(r) /\ UNCHANGED chunk
       ELSE /\ retryTodo' = [retryTodo EXCEPT ![r] = @ \ {c}]
            /\ IF chunk[c] \in RetryableChunkStatuses
               THEN /\ chunk' = [chunk EXCEPT ![c] = "PENDING"]
                    /\ retryReset' = [retryReset EXCEPT ![r] = @ \cup {c}]
               ELSE UNCHANGED <<chunk, retryReset>>
            /\ UNCHANGED <<retryPc, retryTotal>>
    /\ UNCHANGED <<book, objectVars, queueVars, envVars, retries>>

\* The book row with as many chunks uncounted as were reset; the total is the
\* one of the first read.
Rewound(r) ==
  LET kept == retryTotal[r] - Cardinality(retryReset[r])
  IN [book EXCEPT !.status = "EXTRACTED",
                  !.done = IF kept < 0 THEN 0 ELSE kept,
                  !.failed = 0,
                  !.audioKey = FALSE,
                  !.manifestKey = FALSE,
                  !.reason = "none"]

\* The gate: only while the book is still PARTIAL.
RetryRewind(r) ==
  /\ RetryAt(r, "reset")
  /\ retryTodo[r] = {}
  /\ IF book.status = "PARTIAL"
     THEN /\ book' = Rewound(r)
          /\ RetryGoto(r, "publish")
          /\ UNCHANGED <<retryTodo, retryReset, retryTotal>>
     ELSE RetryStop(r) /\ UNCHANGED book
  /\ UNCHANGED <<chunk, objectVars, queueVars, envVars, retries>>

\* The chunk messages, or the stitch message when there was nothing to reset.
RetryPublish(r) ==
  /\ RetryAt(r, "publish")
  /\ RetryStop(r)
  /\ IF retryReset[r] # {}
     THEN synthQueue' = WithChunkMessages(synthQueue, retryReset[r]) /\ UNCHANGED stitchQueue
     ELSE SendStitch /\ UNCHANGED synthQueue
  /\ UNCHANGED <<tableVars, objectVars, synthDlq, envVars, retries>>

\* A batch may be accepted in part before the send raises.
RetryPublishFails(r) ==
  /\ RetryAt(r, "publish")
  /\ SpendSend
  /\ RetryStop(r)
  /\ \E sent \in SUBSET retryReset[r] :
       /\ sent = retryReset[r] => sent = {}
       /\ synthQueue' = WithChunkMessages(synthQueue, sent)
  /\ UNCHANGED <<tableVars, objectVars, synthDlq, stitchQueue, lostCount, retries>>

RetryCrash(r) ==
  /\ ~RetryAt(r, "idle")
  /\ Crash(FALSE, FALSE)
  /\ RetryStop(r)
  /\ UNCHANGED <<tableVars, objectVars, queueVars, retries>>

-----------------------------------------------------------------------------
\* The steps of a call once it has been made.
RetryStep(r) ==
  \/ RetryList(r) \/ RetryResetChunk(r) \/ RetryRewind(r)
  \/ RetryPublish(r) \/ RetryPublishFails(r)

RetryNext == \E r \in Retriers : RetryStart(r) \/ RetryStep(r) \/ RetryCrash(r)

RetryFairness == \A r \in Retriers : WF_<<storeVars, retryVars>>(RetryStep(r))
=============================================================================
