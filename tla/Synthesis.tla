------------------------------ MODULE Synthesis ------------------------------
(***************************************************************************)
(* SynthesizeChunk: the handler of one chunk message, run by a set of      *)
(* concurrent invocations.  Every DynamoDB, S3, engine and SQS call of the *)
(* handler is a step of its own, so that other invocations, a crash or a   *)
(* redelivery come between any two of them.                                *)
(*                                                                         *)
(* The fan-in is a counter on the book row: each invocation that wins the  *)
(* terminal transition of a chunk adds one, and whoever sees the counter   *)
(* reach the total sends the stitch message.                               *)
(***************************************************************************)
EXTENDS LibraryStore

CONSTANT SynthWorkers   \* concurrent invocations of the synthesize handler

ASSUME SynthWorkersAssumption == IsFiniteSet(SynthWorkers)

VARIABLES
  synthPc,     \* what each invocation does next
  synthMsg     \* the message it holds, NoSynthMsg when idle

synthVars == <<synthPc, synthMsg>>

SynthPcs == {"idle", "get", "recheck", "claim", "engine", "putAudio", "putMarks",
             "release", "finishDone", "finishFailed", "countDone", "countFailed",
             "publish", "ack"}

NoSynthMsg == [chunk |-> 0, attempt |-> 0]
SynthMsgs  == [chunk : Chunks, attempt : 1 .. SynthMaxReceive]

SynthTypeOK ==
  /\ synthPc \in [SynthWorkers -> SynthPcs]
  /\ synthMsg \in [SynthWorkers -> SynthMsgs \cup {NoSynthMsg}]
  /\ \A w \in SynthWorkers : synthPc[w] # "idle" => synthMsg[w] \in SynthMsgs

SynthInit ==
  /\ synthPc = [w \in SynthWorkers |-> "idle"]
  /\ synthMsg = [w \in SynthWorkers |-> NoSynthMsg]

-----------------------------------------------------------------------------
(* Helpers *)

ChunkOf(w)   == synthMsg[w].chunk
AttemptOf(w) == synthMsg[w].attempt

SynthAt(w, here) == synthPc[w] = here
SynthGoto(w, next) == synthPc' = [synthPc EXCEPT ![w] = next]

\* The invocation is over; its message is deleted or goes back by the caller.
SynthStop(w) ==
  /\ synthPc' = [synthPc EXCEPT ![w] = "idle"]
  /\ synthMsg' = [synthMsg EXCEPT ![w] = NoSynthMsg]

\* An exception leaves the handler: the message is not deleted.
SynthRaise(w) == SynthStop(w) /\ ReturnChunkMessage(ChunkOf(w), AttemptOf(w))

\* Mutant: a failed put or engine call is logged and passed over.
SwallowedFailure(w) == "finishDone"

\* A transient failure is retried by SQS, except on the last attempt.
AfterTransient(w) ==
  IF AttemptOf(w) < SynthMaxReceive THEN "release" ELSE "finishFailed"

\* Mutant: the receive count leaves this receive out.
DeliveredBefore(b) == [chunk |-> b[1], attempt |-> b[2]]

\* The command built from a message: its receive count includes this receive.
Delivered(b) == [chunk |-> b[1], attempt |-> b[2] + 1]

-----------------------------------------------------------------------------
(* The handler *)

SynthReceive(w) ==
  \E b \in SynthBodies :
    /\ SynthAt(w, "idle")
    /\ synthQueue[b] > 0
    /\ synthQueue' = [synthQueue EXCEPT ![b] = @ - 1]
    /\ synthMsg' = [synthMsg EXCEPT ![w] = Delivered(b)]
    /\ SynthGoto(w, "get")
    /\ UNCHANGED <<tableVars, objectVars, synthDlq, stitchQueue, envVars>>

\* Mutant: the redelivery of a DONE chunk does not look at the book.
SynthGetWithoutRepublish(w) ==
  /\ SynthAt(w, "get")
  /\ SynthGoto(w, IF chunk[ChunkOf(w)] \in {Absent, "DONE"} THEN "ack" ELSE "claim")
  /\ UNCHANGED <<storeVars, synthMsg>>

\* A chunk that is DONE is never synthesized again, only its stitch re-sent.
SynthGet(w) ==
  /\ SynthAt(w, "get")
  /\ SynthGoto(w, CASE chunk[ChunkOf(w)] = Absent -> "ack"
                    [] chunk[ChunkOf(w)] = "DONE" -> "recheck"
                    [] OTHER                      -> "claim")
  /\ UNCHANGED <<storeVars, synthMsg>>

\* republish_stitch_if_complete: one read of the book, then the send.
SynthRecheck(w) ==
  /\ SynthAt(w, "recheck")
  /\ SynthGoto(w, IF book.status = "EXTRACTED" /\ IsComplete(book.done, book.total)
                  THEN "publish" ELSE "ack")
  /\ UNCHANGED <<storeVars, synthMsg>>

SynthClaim(w) ==
  /\ SynthAt(w, "claim")
  /\ IF chunk[ChunkOf(w)] \in NonTerminalChunkStatuses
     THEN /\ chunk' = [chunk EXCEPT ![ChunkOf(w)] = "SYNTHESIZING"]
          /\ SynthGoto(w, "engine")
     ELSE /\ UNCHANGED chunk
          /\ SynthGoto(w, "ack")
  /\ UNCHANGED <<book, objectVars, queueVars, envVars, synthMsg>>

\* The text is rejected, the engine is off, it fails for now, or it speaks.
SynthEngine(w) ==
  /\ SynthAt(w, "engine")
  /\ \E next \in {"putAudio", "finishFailed", AfterTransient(w)} : SynthGoto(w, next)
  /\ UNCHANGED <<storeVars, synthMsg>>

SynthPutAudio(w) ==
  /\ SynthAt(w, "putAudio")
  /\ \/ clips' = clips \cup {ChunkOf(w)} /\ SynthGoto(w, "putMarks")
     \/ UNCHANGED clips /\ SynthGoto(w, AfterTransient(w))
  /\ UNCHANGED <<tableVars, markDocs, queueVars, envVars, synthMsg>>

SynthPutMarks(w) ==
  /\ SynthAt(w, "putMarks")
  /\ \/ markDocs' = markDocs \cup {ChunkOf(w)} /\ SynthGoto(w, "finishDone")
     \/ UNCHANGED markDocs /\ SynthGoto(w, AfterTransient(w))
  /\ UNCHANGED <<tableVars, clips, queueVars, envVars, synthMsg>>

\* Give the claim back and let SQS redeliver; somebody else's terminal
\* status is left alone and the message is consumed.
SynthRelease(w) ==
  /\ SynthAt(w, "release")
  /\ IF chunk[ChunkOf(w)] = "SYNTHESIZING"
     THEN chunk' = [chunk EXCEPT ![ChunkOf(w)] = "PENDING"] /\ SynthRaise(w)
     ELSE SynthGoto(w, "ack") /\ UNCHANGED <<chunk, synthQueue, synthDlq, synthMsg>>
  /\ UNCHANGED <<book, objectVars, stitchQueue, envVars>>

\* The terminal transitions: only the invocation that wins one counts it.
SynthFinish(w, here, status, next) ==
  /\ SynthAt(w, here)
  /\ IF chunk[ChunkOf(w)] \in NonTerminalChunkStatuses
     THEN /\ chunk' = [chunk EXCEPT ![ChunkOf(w)] = status]
          /\ SynthGoto(w, next)
     ELSE /\ UNCHANGED chunk
          /\ SynthGoto(w, "ack")
  /\ UNCHANGED <<book, objectVars, queueVars, envVars, synthMsg>>

SynthFinishDone(w)   == SynthFinish(w, "finishDone", "DONE", "countDone")
SynthFinishFailed(w) == SynthFinish(w, "finishFailed", "FAILED", "countFailed")

\* increment_chunks_done returns the new counters: no second read.
SynthCount(w, here, failures) ==
  /\ SynthAt(w, here)
  /\ IF book.status # Absent
     THEN /\ book' = [book EXCEPT !.done = @ + 1, !.failed = @ + failures]
          /\ SynthGoto(w, IF IsComplete(book.done + 1, book.total) THEN "publish" ELSE "ack")
     ELSE UNCHANGED book /\ SynthGoto(w, "ack")
  /\ UNCHANGED <<chunk, objectVars, queueVars, envVars, synthMsg>>

\* Mutants: the outcome is counted under the other name.
SynthCountDoneAsFailed(w) == SynthCount(w, "countDone", 1)
SynthCountFailedAsDone(w) == SynthCount(w, "countFailed", 0)

SynthCountDone(w)   == SynthCount(w, "countDone", 0)
SynthCountFailed(w) == SynthCount(w, "countFailed", 1)

SynthPublish(w) ==
  /\ SynthAt(w, "publish")
  /\ SendStitch
  /\ SynthGoto(w, "ack")
  /\ UNCHANGED <<tableVars, objectVars, synthQueue, synthDlq, envVars, synthMsg>>

\* Mutant: a send that fails is swallowed.
SynthPublishSwallowed(w) ==
  /\ SynthAt(w, "publish")
  /\ SpendSend
  /\ SynthGoto(w, "ack")
  /\ UNCHANGED <<tableVars, objectVars, queueVars, lostCount, synthMsg>>

\* A send that fails is not swallowed: the chunk message comes back.
SynthPublishFails(w) ==
  /\ SynthAt(w, "publish")
  /\ SpendSend
  /\ SynthRaise(w)
  /\ UNCHANGED <<tableVars, objectVars, stitchQueue, lostCount>>

SynthAck(w) ==
  /\ SynthAt(w, "ack")
  /\ SynthStop(w)
  /\ UNCHANGED storeVars

-----------------------------------------------------------------------------
(* The environment of the handler *)

\* The Lambda times out, is killed, or a DynamoDB call raises.
SynthCrash(w) ==
  /\ ~SynthAt(w, "idle")
  /\ Crash(SynthAt(w, "countDone"), SynthAt(w, "countFailed"))
  /\ SynthRaise(w)
  /\ UNCHANGED <<tableVars, objectVars, stitchQueue>>

\* SQS delivers a message again although an invocation still works on it.
SynthDuplicate(w) ==
  /\ ~SynthAt(w, "idle")
  /\ SpendDuplicate
  /\ ReturnChunkMessage(ChunkOf(w), AttemptOf(w))
  /\ UNCHANGED <<tableVars, objectVars, stitchQueue, lostCount, synthVars>>

-----------------------------------------------------------------------------
SynthHandler(w) ==
  \/ SynthReceive(w) \/ SynthGet(w) \/ SynthRecheck(w) \/ SynthClaim(w)
  \/ SynthEngine(w) \/ SynthPutAudio(w) \/ SynthPutMarks(w) \/ SynthRelease(w)
  \/ SynthFinishDone(w) \/ SynthFinishFailed(w)
  \/ SynthCountDone(w) \/ SynthCountFailed(w)
  \/ SynthPublish(w) \/ SynthPublishFails(w) \/ SynthAck(w)

SynthEnvironment(w) == SynthCrash(w) \/ SynthDuplicate(w)

SynthNext == \E w \in SynthWorkers : SynthHandler(w) \/ SynthEnvironment(w)

\* The poller runs again and again, and an invocation that does not die goes on.
SynthFairness == \A w \in SynthWorkers : WF_<<storeVars, synthVars>>(SynthHandler(w))
=============================================================================
