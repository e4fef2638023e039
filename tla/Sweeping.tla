------------------------------ MODULE Sweeping ------------------------------
(***************************************************************************)
(* SweepDlq.sweep_synthesize: the Lambda fed by the synthesize DLQ, one    *)
(* dead-lettered chunk message at a time.  It finalizes a chunk that was   *)
(* stranded before it was counted, or re-sends the stitch message of a     *)
(* complete book.  A message whose sweep raises stays in the DLQ.          *)
(***************************************************************************)
EXTENDS LibraryStore

CONSTANT Sweepers   \* concurrent invocations of the sweeper

VARIABLES
  sweepPc,     \* what each invocation does next
  sweepChunk   \* the chunk of the message it holds, 0 when idle

sweepVars == <<sweepPc, sweepChunk>>

SweepPcs == {"idle", "get", "finalize", "count", "recheck", "publish", "ack"}

\* PENDING or SYNTHESIZING: not yet counted, unlike FAILED.
UncountedChunkStatuses == {"PENDING", "SYNTHESIZING"}

SweepTypeOK ==
  /\ sweepPc \in [Sweepers -> SweepPcs]
  /\ sweepChunk \in [Sweepers -> Chunks]

SweepInit ==
  /\ sweepPc = [w \in Sweepers |-> "idle"]
  /\ sweepChunk = [w \in Sweepers |-> 0]

-----------------------------------------------------------------------------
SweepAt(w, here) == sweepPc[w] = here
SweepGoto(w, next) == sweepPc' = [sweepPc EXCEPT ![w] = next]

SweepStop(w) ==
  /\ sweepPc' = [sweepPc EXCEPT ![w] = "idle"]
  /\ sweepChunk' = [sweepChunk EXCEPT ![w] = 0]

SweepRaise(w) ==
  /\ SweepStop(w)
  /\ synthDlq' = [synthDlq EXCEPT ![sweepChunk[w]] = @ + 1]

SweepReceive(w) ==
  \E c \in Chunks :
    /\ SweepAt(w, "idle")
    /\ synthDlq[c] > 0
    /\ synthDlq' = [synthDlq EXCEPT ![c] = @ - 1]
    /\ sweepChunk' = [sweepChunk EXCEPT ![w] = c]
    /\ SweepGoto(w, "get")
    /\ UNCHANGED <<tableVars, objectVars, synthQueue, stitchQueue, envVars>>

SweepGet(w) ==
  /\ SweepAt(w, "get")
  /\ SweepGoto(w, CASE chunk[sweepChunk[w]] = Absent                    -> "ack"
                    [] chunk[sweepChunk[w]] \in UncountedChunkStatuses  -> "finalize"
                    [] OTHER                                            -> "recheck")
  /\ UNCHANGED <<storeVars, sweepChunk>>

\* The update accepts FAILED too, although the read did not.
SweepFinalize(w) ==
  /\ SweepAt(w, "finalize")
  /\ IF chunk[sweepChunk[w]] \in NonTerminalChunkStatuses
     THEN /\ chunk' = [chunk EXCEPT ![sweepChunk[w]] = "FAILED"]
          /\ SweepGoto(w, "count")
     ELSE /\ UNCHANGED chunk
          /\ SweepGoto(w, IF chunk[sweepChunk[w]] = Absent THEN "ack" ELSE "recheck")
  /\ UNCHANGED <<book, objectVars, queueVars, envVars, sweepChunk>>

SweepCount(w) ==
  /\ SweepAt(w, "count")
  /\ IF book.status # Absent
     THEN /\ book' = [book EXCEPT !.done = @ + 1, !.failed = @ + 1]
          /\ SweepGoto(w, IF IsComplete(book.done + 1, book.total) THEN "publish" ELSE "ack")
     ELSE UNCHANGED book /\ SweepGoto(w, "ack")
  /\ UNCHANGED <<chunk, objectVars, queueVars, envVars, sweepChunk>>

SweepRecheck(w) ==
  /\ SweepAt(w, "recheck")
  /\ SweepGoto(w, IF book.status = "EXTRACTED" /\ IsComplete(book.done, book.total)
                  THEN "publish" ELSE "ack")
  /\ UNCHANGED <<storeVars, sweepChunk>>

SweepPublish(w) ==
  /\ SweepAt(w, "publish")
  /\ SendStitch
  /\ SweepGoto(w, "ack")
  /\ UNCHANGED <<tableVars, objectVars, synthQueue, synthDlq, envVars, sweepChunk>>

SweepPublishFails(w) ==
  /\ SweepAt(w, "publish")
  /\ SpendSend
  /\ SweepRaise(w)
  /\ UNCHANGED <<tableVars, objectVars, synthQueue, stitchQueue, lostCount>>

SweepAck(w) ==
  /\ SweepAt(w, "ack")
  /\ SweepStop(w)
  /\ UNCHANGED storeVars

SweepCrash(w) ==
  /\ ~SweepAt(w, "idle")
  /\ Crash(FALSE, SweepAt(w, "count"))
  /\ SweepRaise(w)
  /\ UNCHANGED <<tableVars, objectVars, synthQueue, stitchQueue>>

-----------------------------------------------------------------------------
SweepHandler(w) ==
  \/ SweepReceive(w) \/ SweepGet(w) \/ SweepFinalize(w) \/ SweepCount(w)
  \/ SweepRecheck(w) \/ SweepPublish(w) \/ SweepPublishFails(w) \/ SweepAck(w)

SweepNext == \E w \in Sweepers : SweepHandler(w) \/ SweepCrash(w)

SweepFairness == \A w \in Sweepers : WF_<<storeVars, sweepVars>>(SweepHandler(w))
=============================================================================
