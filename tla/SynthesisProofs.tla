-------------------------- MODULE SynthesisProofs --------------------------
(***************************************************************************)
(* Proofs about the synthesis of a chunk.                                  *)
(*                                                                         *)
(* FanIn, for any number of chunks, of invocations and of faults: its      *)
(* state stays typed, a DONE row never runs ahead of its two objects, no   *)
(* step takes a DONE chunk back, and every DONE chunk is counted exactly   *)
(* once and every FAILED chunk at least once, by an increment made,        *)
(* pending or lost with a crash.                                           *)
(*                                                                         *)
(* Speaking, for any text, any report of an engine and any times: Google   *)
(* is asked only when edge-tts is used up, and an invocation that is cut   *)
(* off in a call began it with less time than all the attempts may take;   *)
(* and the marks of whichever engine spoke follow the text.                *)
(***************************************************************************)
EXTENDS FanIn, Speaking, Recursion, SequenceTheorems, FiniteSetTheorems, TLAPS

-----------------------------------------------------------------------------
(* Typing *)

\* Counting one more in a bag of naturals.
LEMMA BumpTyped ==
  ASSUME NEW S, NEW f \in [S -> Nat], NEW x \in S
  PROVE  [f EXCEPT ![x] = f[x] + 1] \in [S -> Nat]
  OBVIOUS

\* What SQS does with a message keeps the queue and its DLQ typed.
LEMMA ReturnTyped ==
  ASSUME NEW c \in Chunks, NEW receive \in Nat, StoreTypeOK, ReturnChunkMessage(c, receive)
  PROVE  /\ synthQueue' \in [SynthBodies -> Nat]
         /\ synthDlq' \in [Chunks -> Nat]
  <1>0. synthQueue \in [SynthBodies -> Nat] /\ synthDlq \in [Chunks -> Nat]
    BY DEF StoreTypeOK
  <1>1. CASE receive < SynthMaxReceive
    <2>1. <<c, receive>> \in SynthBodies
      BY <1>1, StoreAssumption DEF SynthBodies, StoreAssumption
    <2> QED
      BY <1>0, <1>1, <2>1, BumpTyped DEF ReturnChunkMessage
  <1>2. CASE ~(receive < SynthMaxReceive)
    BY <1>0, <1>2, BumpTyped DEF ReturnChunkMessage
  <1> QED
    BY <1>1, <1>2

\* Spending a fault stays within its bound.
LEMMA FaultsTyped ==
  ASSUME StoreTypeOK, SpendCrash \/ SpendDuplicate \/ SpendSend
  PROVE  faults' \in [crash : 0 .. MaxCrashes, dup : 0 .. MaxDuplicates, send : 0 .. MaxSendFailures]
  <1>1. /\ faults \in [crash : 0 .. MaxCrashes, dup : 0 .. MaxDuplicates, send : 0 .. MaxSendFailures]
        /\ MaxCrashes \in Nat /\ MaxDuplicates \in Nat /\ MaxSendFailures \in Nat
    BY StoreAssumption DEF StoreTypeOK, StoreAssumption
  <1>2. CASE SpendCrash
    BY <1>1, <1>2 DEF SpendCrash
  <1>3. CASE SpendDuplicate
    BY <1>1, <1>3 DEF SpendDuplicate
  <1>4. CASE SpendSend
    BY <1>1, <1>4 DEF SpendSend
  <1> QED
    BY <1>2, <1>3, <1>4

LEMMA LostTyped ==
  ASSUME StoreTypeOK, NEW d, NEW f, Crash(d, f)
  PROVE  lostCount' \in [done : Nat, failed : Nat]
  BY DEF StoreTypeOK, Crash

\* The invocation holding a message, and giving it up.
LEMMA HeldMessage ==
  ASSUME SynthTypeOK, NEW w \in SynthWorkers, synthPc[w] # "idle"
  PROVE  ChunkOf(w) \in Chunks /\ AttemptOf(w) \in 1 .. SynthMaxReceive
  BY DEF SynthTypeOK, SynthMsgs, ChunkOf, AttemptOf

LEMMA GotoTyped ==
  ASSUME SynthTypeOK, NEW w \in SynthWorkers, synthPc[w] # "idle",
         NEW next \in SynthPcs, SynthGoto(w, next), synthMsg' = synthMsg
  PROVE  SynthTypeOK'
  BY DEF SynthTypeOK, SynthGoto

LEMMA StopTyped ==
  ASSUME SynthTypeOK, NEW w \in SynthWorkers, SynthStop(w)
  PROVE  SynthTypeOK'
  BY DEF SynthTypeOK, SynthStop, SynthPcs

\* Every initial state is typed.
LEMMA InitTyped == Init => TypeOK
  <1> SUFFICES ASSUME Init PROVE TypeOK
    OBVIOUS
  <1>1. SynthTypeOK
    BY DEF Init, SynthInit, SynthTypeOK, SynthPcs
  <1>2. book \in BookRows
    <2>1. MaxChunks \in 0 .. MaxChunks
      BY StoreAssumption DEF StoreAssumption
    <2>2. book = [status |-> "EXTRACTED", total |-> MaxChunks, done |-> 0, failed |-> 0,
                  audioKey |-> FALSE, manifestKey |-> FALSE, reason |-> "none"]
      BY DEF Init, StoreExtracted, ExtractedBook, NewBook
    <2> QED
      BY <2>1, <2>2 DEF BookRows, BookStatus, FailureReasons
  <1>3. /\ chunk \in [Chunks -> ChunkStatus \cup {Absent}]
        /\ synthDlq \in [Chunks -> Nat]
        /\ stitchQueue \in [0 .. StitchMaxReceive - 1 -> Nat]
        /\ clips \subseteq Chunks /\ markDocs \subseteq Chunks
    BY DEF Init, StoreExtracted, ChunkStatus
  <1>4. synthQueue \in [SynthBodies -> Nat]
    BY DEF Init, StoreExtracted, WithChunkMessages
  <1>5. faults \in [crash : 0 .. MaxCrashes, dup : 0 .. MaxDuplicates, send : 0 .. MaxSendFailures]
    BY StoreAssumption DEF Init, StoreExtracted, NoFaults, StoreAssumption
  <1>6. lostCount \in [done : Nat, failed : Nat]
    BY DEF Init, StoreExtracted
  <1> QED
    BY <1>1, <1>2, <1>3, <1>4, <1>5, <1>6 DEF TypeOK, StoreTypeOK

\* A step that leaves the store alone leaves it typed.
LEMMA StoreKept == StoreTypeOK /\ UNCHANGED storeVars => StoreTypeOK'
  BY DEF StoreTypeOK, storeVars, tableVars, objectVars, queueVars, envVars

\* A step that changes nothing but the two rows.
LEMMA RowsTyped ==
  ASSUME StoreTypeOK, UNCHANGED <<objectVars, queueVars, envVars>>,
         book' \in BookRows, chunk' \in [Chunks -> ChunkStatus \cup {Absent}]
  PROVE  StoreTypeOK'
  BY DEF StoreTypeOK, objectVars, queueVars, envVars

\* A chunk row that takes a legal status stays typed.
LEMMA ChunkTyped ==
  ASSUME StoreTypeOK, NEW c \in Chunks, NEW s \in ChunkStatus
  PROVE  [chunk EXCEPT ![c] = s] \in [Chunks -> ChunkStatus \cup {Absent}]
  BY DEF StoreTypeOK

\* One more outcome on the book row.
LEMMA BookTyped ==
  ASSUME NEW row \in BookRows, NEW n \in Nat
  PROVE  [row EXCEPT !.done = row.done + 1, !.failed = row.failed + n] \in BookRows
  <1>1. row.done + 1 \in Nat /\ row.failed + n \in Nat
    BY DEF BookRows
  <1> QED
    BY <1>1 DEF BookRows

\* Every step of the handler and of its environment keeps the state typed.
LEMMA StepTyped == TypeOK /\ [SynthNext]_vars => TypeOK'
  <1> SUFFICES ASSUME TypeOK, [SynthNext]_vars PROVE TypeOK'
    OBVIOUS
  <1>0. StoreTypeOK /\ SynthTypeOK
    BY DEF TypeOK
  <1>1. ASSUME NEW w \in SynthWorkers, SynthReceive(w) PROVE TypeOK'
    <2>1. PICK b \in SynthBodies :
            /\ synthQueue[b] > 0
            /\ synthQueue' = [synthQueue EXCEPT ![b] = synthQueue[b] - 1]
            /\ synthMsg' = [synthMsg EXCEPT ![w] = Delivered(b)]
            /\ SynthGoto(w, "get")
            /\ UNCHANGED <<tableVars, objectVars, synthDlq, stitchQueue, envVars>>
      BY <1>1 DEF SynthReceive
    <2>2. synthQueue' \in [SynthBodies -> Nat]
      <3>1. synthQueue \in [SynthBodies -> Nat]
        BY <1>0 DEF StoreTypeOK
      <3>2. synthQueue[b] - 1 \in Nat
        BY <2>1, <3>1
      <3> QED
        BY <2>1, <3>1, <3>2
    <2>3. StoreTypeOK'
      BY <1>0, <2>1, <2>2 DEF StoreTypeOK, tableVars, objectVars, envVars
    <2>4. Delivered(b) \in SynthMsgs
      BY StoreAssumption DEF Delivered, SynthMsgs, SynthBodies, StoreAssumption
    <2>5. SynthTypeOK'
      BY <1>0, <2>1, <2>4 DEF SynthTypeOK, SynthGoto, SynthPcs
    <2> QED
      BY <2>3, <2>5 DEF TypeOK
  <1>2. ASSUME NEW w \in SynthWorkers, SynthGet(w) \/ SynthRecheck(w) \/ SynthEngine(w)
        PROVE  TypeOK'
    <2>1. StoreTypeOK'
      BY <1>0, <1>2, StoreKept DEF SynthGet, SynthRecheck, SynthEngine
    <2>2. SynthTypeOK'
      <3>1. PICK next \in SynthPcs : SynthGoto(w, next)
        BY <1>2 DEF SynthGet, SynthRecheck, SynthEngine, SynthPcs, AfterTransient
      <3> QED
        BY <1>0, <1>2, <3>1, GotoTyped DEF SynthGet, SynthRecheck, SynthEngine, SynthAt
    <2> QED
      BY <2>1, <2>2 DEF TypeOK
  <1>3. ASSUME NEW w \in SynthWorkers, SynthClaim(w) \/ SynthFinishDone(w) \/ SynthFinishFailed(w)
        PROVE  TypeOK'
    <2>1. /\ synthPc[w] # "idle"
          /\ synthMsg' = synthMsg
          /\ UNCHANGED <<book, objectVars, queueVars, envVars>>
      BY <1>3 DEF SynthClaim, SynthFinishDone, SynthFinishFailed, SynthFinish, SynthAt
    <2>2. \/ UNCHANGED chunk
          \/ \E s \in ChunkStatus : chunk' = [chunk EXCEPT ![ChunkOf(w)] = s]
      BY <1>3 DEF SynthClaim, SynthFinishDone, SynthFinishFailed, SynthFinish, ChunkStatus
    <2>3. StoreTypeOK'
      <3>1. chunk' \in [Chunks -> ChunkStatus \cup {Absent}]
        BY <1>0, <2>1, <2>2, HeldMessage, ChunkTyped DEF StoreTypeOK
      <3>2. book' \in BookRows
        BY <1>0, <2>1 DEF StoreTypeOK
      <3> QED
        BY <1>0, <2>1, <3>1, <3>2, RowsTyped
    <2>4. \E next \in SynthPcs : SynthGoto(w, next)
      BY <1>3 DEF SynthClaim, SynthFinishDone, SynthFinishFailed, SynthFinish, SynthPcs
    <2> QED
      BY <1>0, <2>1, <2>3, <2>4, GotoTyped DEF TypeOK
  <1>4. ASSUME NEW w \in SynthWorkers, SynthPutAudio(w) \/ SynthPutMarks(w) PROVE TypeOK'
    <2>1. /\ synthPc[w] # "idle"
          /\ UNCHANGED <<tableVars, queueVars, envVars, synthMsg>>
      BY <1>4 DEF SynthPutAudio, SynthPutMarks, SynthAt
    <2>2. clips' \in {clips, clips \cup {ChunkOf(w)}} /\ markDocs' \in {markDocs, markDocs \cup {ChunkOf(w)}}
      BY <1>4 DEF SynthPutAudio, SynthPutMarks
    <2>3. StoreTypeOK'
      BY <1>0, <2>1, <2>2, HeldMessage DEF StoreTypeOK, tableVars, queueVars, envVars
    <2>4. \E next \in SynthPcs : SynthGoto(w, next)
      BY <1>4 DEF SynthPutAudio, SynthPutMarks, SynthPcs, AfterTransient
    <2> QED
      BY <1>0, <2>1, <2>3, <2>4, GotoTyped DEF TypeOK
  <1>5. ASSUME NEW w \in SynthWorkers, SynthRelease(w) PROVE TypeOK'
    <2>1. /\ synthPc[w] # "idle"
          /\ UNCHANGED <<book, objectVars, stitchQueue, envVars>>
      BY <1>5 DEF SynthRelease, SynthAt
    <2>2. CASE chunk[ChunkOf(w)] = "SYNTHESIZING"
      <3>1. chunk' = [chunk EXCEPT ![ChunkOf(w)] = "PENDING"] /\ SynthRaise(w)
        BY <1>5, <2>2 DEF SynthRelease
      <3>2. chunk' \in [Chunks -> ChunkStatus \cup {Absent}]
        BY <1>0, <2>1, <3>1, HeldMessage, ChunkTyped DEF ChunkStatus
      <3>3. synthQueue' \in [SynthBodies -> Nat] /\ synthDlq' \in [Chunks -> Nat]
        BY <1>0, <2>1, <3>1, HeldMessage, ReturnTyped DEF SynthRaise
      <3>4. StoreTypeOK'
        BY <1>0, <2>1, <3>2, <3>3 DEF StoreTypeOK, objectVars, envVars
      <3> QED
        BY <1>0, <3>1, <3>4, StopTyped DEF SynthRaise, TypeOK
    <2>3. CASE chunk[ChunkOf(w)] # "SYNTHESIZING"
      <3>1. SynthGoto(w, "ack") /\ UNCHANGED <<chunk, synthQueue, synthDlq, synthMsg>>
        BY <1>5, <2>3 DEF SynthRelease
      <3>2. StoreTypeOK'
        BY <1>0, <2>1, <3>1, StoreKept DEF storeVars, tableVars, queueVars
      <3>3. "ack" \in SynthPcs
        BY DEF SynthPcs
      <3> QED
        BY <1>0, <2>1, <3>1, <3>2, <3>3, GotoTyped DEF TypeOK
    <2> QED
      BY <2>2, <2>3
  <1>6. ASSUME NEW w \in SynthWorkers, SynthCountDone(w) \/ SynthCountFailed(w) PROVE TypeOK'
    <2>1. PICK n \in {0, 1} : SynthCount(w, "countDone", n) \/ SynthCount(w, "countFailed", n)
      BY <1>6 DEF SynthCountDone, SynthCountFailed
    <2>2. /\ synthPc[w] # "idle"
          /\ UNCHANGED <<chunk, objectVars, queueVars, envVars, synthMsg>>
      BY <2>1 DEF SynthCount, SynthAt
    <2>3. \/ UNCHANGED book
          \/ book' = [book EXCEPT !.done = book.done + 1, !.failed = book.failed + n]
      BY <2>1 DEF SynthCount
    <2>4. book' \in BookRows
      <3>1. book \in BookRows /\ n \in Nat
        BY <1>0 DEF StoreTypeOK
      <3> QED
        BY <2>3, <3>1, BookTyped
    <2>5. StoreTypeOK'
      BY <1>0, <2>2, <2>4, RowsTyped DEF StoreTypeOK
    <2>6. \E next \in SynthPcs : SynthGoto(w, next)
      BY <2>1 DEF SynthCount, SynthPcs
    <2> QED
      BY <1>0, <2>2, <2>5, <2>6, GotoTyped DEF TypeOK
  <1>7. ASSUME NEW w \in SynthWorkers, SynthPublish(w) PROVE TypeOK'
    <2>1. 0 \in 0 .. StitchMaxReceive - 1
      BY StoreAssumption DEF StoreAssumption
    <2>2. stitchQueue' \in [0 .. StitchMaxReceive - 1 -> Nat]
      BY <1>0, <1>7, <2>1, BumpTyped DEF SynthPublish, SendStitch, StoreTypeOK
    <2>3. StoreTypeOK'
      BY <1>0, <1>7, <2>2 DEF SynthPublish, StoreTypeOK, tableVars, objectVars, envVars
    <2>4. "ack" \in SynthPcs
      BY DEF SynthPcs
    <2>5. SynthTypeOK'
      BY <1>0, <1>7, <2>4, GotoTyped DEF SynthPublish, SynthAt
    <2> QED
      BY <2>3, <2>5 DEF TypeOK
  <1>8. ASSUME NEW w \in SynthWorkers, SynthPublishFails(w) \/ SynthCrash(w) PROVE TypeOK'
    <2>1. /\ synthPc[w] # "idle"
          /\ SynthRaise(w)
          /\ SpendSend \/ SpendCrash
          /\ UNCHANGED <<tableVars, objectVars, stitchQueue>>
      BY <1>8 DEF SynthPublishFails, SynthCrash, SynthAt, Crash
    <2>2. synthQueue' \in [SynthBodies -> Nat] /\ synthDlq' \in [Chunks -> Nat]
      BY <1>0, <2>1, HeldMessage, ReturnTyped DEF SynthRaise
    <2>3. faults' \in [crash : 0 .. MaxCrashes, dup : 0 .. MaxDuplicates, send : 0 .. MaxSendFailures]
      BY <1>0, <2>1, FaultsTyped
    <2>4. lostCount' \in [done : Nat, failed : Nat]
      BY <1>0, <1>8, LostTyped DEF SynthPublishFails, SynthCrash, StoreTypeOK
    <2>5. StoreTypeOK'
      BY <1>0, <2>1, <2>2, <2>3, <2>4 DEF StoreTypeOK, tableVars, objectVars
    <2> QED
      BY <1>0, <2>1, <2>5, StopTyped DEF SynthRaise, TypeOK
  <1>9. ASSUME NEW w \in SynthWorkers, SynthAck(w) PROVE TypeOK'
    BY <1>0, <1>9, StoreKept, StopTyped DEF SynthAck, TypeOK
  <1>10. ASSUME NEW w \in SynthWorkers, SynthDuplicate(w) PROVE TypeOK'
    <2>1. synthQueue' \in [SynthBodies -> Nat] /\ synthDlq' \in [Chunks -> Nat]
      BY <1>0, <1>10, HeldMessage, ReturnTyped DEF SynthDuplicate, SynthAt
    <2>2. faults' \in [crash : 0 .. MaxCrashes, dup : 0 .. MaxDuplicates, send : 0 .. MaxSendFailures]
      BY <1>0, <1>10, FaultsTyped DEF SynthDuplicate
    <2>3. StoreTypeOK'
      BY <1>0, <1>10, <2>1, <2>2 DEF SynthDuplicate, StoreTypeOK, tableVars, objectVars
    <2>4. SynthTypeOK'
      BY <1>0, <1>10 DEF SynthDuplicate, SynthTypeOK, synthVars
    <2> QED
      BY <2>3, <2>4 DEF TypeOK
  <1>11. CASE UNCHANGED vars
    BY <1>0, <1>11, StoreKept DEF TypeOK, SynthTypeOK, vars, synthVars
  <1> QED
    BY <1>1, <1>2, <1>3, <1>4, <1>5, <1>6, <1>7, <1>8, <1>9, <1>10, <1>11
    DEF SynthNext, SynthHandler, SynthEnvironment

\* The fan-in stays typed: no counter, queue, row or message leaves its domain.
THEOREM Typing == Spec => []TypeOK
  BY InitTyped, StepTyped, PTL DEF Spec

-----------------------------------------------------------------------------
(* The invariants *)

\* An invocation reaches the DONE update only with both objects written.
Written ==
  \A w \in SynthWorkers :
    /\ synthPc[w] = "putMarks" => ChunkOf(w) \in clips
    /\ synthPc[w] = "finishDone" => ChunkOf(w) \in clips /\ ChunkOf(w) \in markDocs

NarrationInv == TypeOK /\ Written /\ AdvertisedNarration

\* Nothing is deleted while a book is narrated.
RowsPresent ==
  /\ book.status = "EXTRACTED"
  /\ \A c \in Chunks : chunk[c] # Absent

\* An invocation that sends the stitch message of a complete book, gives its
\* own message back, or is robbed of its chunk by another one that does.
Carrying(w) ==
  \/ synthPc[w] \in {"get", "recheck", "publish", "countDone", "countFailed"}
  \/ synthPc[w] = "claim" /\ chunk[ChunkOf(w)] # "DONE"
  \/ /\ synthPc[w] \in {"engine", "putAudio", "putMarks", "release", "finishDone", "finishFailed"}
     /\ chunk[ChunkOf(w)] = "SYNTHESIZING"

Waiting ==
  \/ \E b \in SynthBodies : synthQueue[b] > 0
  \/ \E c \in Chunks : synthDlq[c] > 0

CompletionCarried ==
  IsComplete(book.done, book.total) =>
    StitchSent \/ Waiting \/ \E w \in SynthWorkers : Carrying(w)

CompletionInv == TypeOK /\ RowsPresent /\ CompletionCarried

-----------------------------------------------------------------------------
(* A DONE row never runs ahead of its objects, and is never taken back *)

\* The only step that makes a row DONE is a DONE update that is accepted, and
\* no step changes a row that is DONE.
LEMMA RowStep ==
  ASSUME TypeOK, [SynthNext]_vars, NEW c \in Chunks
  PROVE  /\ chunk[c] = "DONE" => chunk'[c] = "DONE"
         /\ chunk[c] # "DONE" /\ chunk'[c] = "DONE" =>
              \E w \in SynthWorkers : SynthFinishDone(w) /\ ChunkOf(w) = c
  <1>0. chunk \in [Chunks -> ChunkStatus \cup {Absent}] /\ SynthTypeOK
    BY DEF TypeOK, StoreTypeOK
  <1>1. ASSUME NEW w \in SynthWorkers, SynthClaim(w)
        PROVE  \/ UNCHANGED chunk
               \/ /\ chunk[ChunkOf(w)] # "DONE"
                  /\ chunk' = [chunk EXCEPT ![ChunkOf(w)] = "SYNTHESIZING"]
    BY <1>1 DEF SynthClaim, NonTerminalChunkStatuses
  <1>2. ASSUME NEW w \in SynthWorkers, SynthRelease(w)
        PROVE  \/ UNCHANGED chunk
               \/ /\ chunk[ChunkOf(w)] # "DONE"
                  /\ chunk' = [chunk EXCEPT ![ChunkOf(w)] = "PENDING"]
    BY <1>2 DEF SynthRelease
  <1>3. ASSUME NEW w \in SynthWorkers, SynthFinishFailed(w)
        PROVE  \/ UNCHANGED chunk
               \/ /\ chunk[ChunkOf(w)] # "DONE"
                  /\ chunk' = [chunk EXCEPT ![ChunkOf(w)] = "FAILED"]
    BY <1>3 DEF SynthFinishFailed, SynthFinish, NonTerminalChunkStatuses
  <1>4. ASSUME NEW w \in SynthWorkers, SynthFinishDone(w)
        PROVE  \/ UNCHANGED chunk
               \/ chunk' = [chunk EXCEPT ![ChunkOf(w)] = "DONE"]
    BY <1>4 DEF SynthFinishDone, SynthFinish
  <1>5. \/ UNCHANGED chunk
        \/ \E w \in SynthWorkers :
             SynthClaim(w) \/ SynthRelease(w) \/ SynthFinishFailed(w) \/ SynthFinishDone(w)
    <2>1. ASSUME NEW w \in SynthWorkers,
                 \/ SynthReceive(w) \/ SynthGet(w) \/ SynthRecheck(w) \/ SynthEngine(w)
                 \/ SynthPutAudio(w) \/ SynthPutMarks(w) \/ SynthCountDone(w) \/ SynthCountFailed(w)
                 \/ SynthPublish(w) \/ SynthPublishFails(w) \/ SynthAck(w) \/ SynthEnvironment(w)
          PROVE  UNCHANGED chunk
      BY <2>1 DEF SynthReceive, SynthGet, SynthRecheck, SynthEngine, SynthPutAudio, SynthPutMarks,
                  SynthCountDone, SynthCountFailed, SynthCount, SynthPublish, SynthPublishFails,
                  SynthAck, SynthEnvironment, SynthCrash, SynthDuplicate, storeVars, tableVars
    <2> QED
      BY <2>1 DEF SynthNext, SynthHandler, vars, storeVars, tableVars
  <1> QED
    BY <1>0, <1>1, <1>2, <1>3, <1>4, <1>5

\* Objects are written, never deleted.
LEMMA ObjectStep ==
  [SynthNext]_vars => clips \subseteq clips' /\ markDocs \subseteq markDocs'
  <1> SUFFICES ASSUME [SynthNext]_vars PROVE clips \subseteq clips' /\ markDocs \subseteq markDocs'
    OBVIOUS
  <1>1. ASSUME NEW w \in SynthWorkers, SynthPutAudio(w) \/ SynthPutMarks(w)
        PROVE  clips \subseteq clips' /\ markDocs \subseteq markDocs'
    BY <1>1 DEF SynthPutAudio, SynthPutMarks
  <1>2. ASSUME NEW w \in SynthWorkers,
               \/ SynthReceive(w) \/ SynthGet(w) \/ SynthRecheck(w) \/ SynthClaim(w) \/ SynthEngine(w)
               \/ SynthRelease(w) \/ SynthFinishDone(w) \/ SynthFinishFailed(w)
               \/ SynthCountDone(w) \/ SynthCountFailed(w)
               \/ SynthPublish(w) \/ SynthPublishFails(w) \/ SynthAck(w) \/ SynthEnvironment(w)
        PROVE  UNCHANGED objectVars
    BY <1>2 DEF SynthReceive, SynthGet, SynthRecheck, SynthClaim, SynthEngine, SynthRelease,
                SynthFinishDone, SynthFinishFailed, SynthFinish, SynthCountDone, SynthCountFailed, SynthCount,
                SynthPublish, SynthPublishFails, SynthAck, SynthEnvironment, SynthCrash, SynthDuplicate, storeVars
  <1> QED
    BY <1>1, <1>2 DEF SynthNext, SynthHandler, vars, storeVars, objectVars

\* Who stands before a marks put or a DONE update has just written an object,
\* or stood there already.
LEMMA WrittenStep == TypeOK /\ Written /\ [SynthNext]_vars => Written'
  <1> SUFFICES ASSUME TypeOK, Written, [SynthNext]_vars PROVE Written'
    OBVIOUS
  <1>0. synthPc \in [SynthWorkers -> SynthPcs] /\ synthMsg \in [SynthWorkers -> SynthMsgs \cup {NoSynthMsg}]
    BY DEF TypeOK, SynthTypeOK
  <1>1. clips \subseteq clips' /\ markDocs \subseteq markDocs'
    BY ObjectStep
  <1>2. ASSUME NEW w \in SynthWorkers, NEW next,
               synthPc' = [synthPc EXCEPT ![w] = next], next \notin {"putMarks", "finishDone"},
               \A v \in SynthWorkers : v # w => synthMsg'[v] = synthMsg[v]
        PROVE  Written'
    BY <1>0, <1>1, <1>2 DEF Written, ChunkOf
  <1>3. ASSUME NEW w \in SynthWorkers, SynthPutAudio(w) PROVE Written'
    BY <1>0, <1>1, <1>3 DEF SynthPutAudio, Written, ChunkOf, SynthAt, SynthGoto, AfterTransient
  <1>4. ASSUME NEW w \in SynthWorkers, SynthPutMarks(w) PROVE Written'
    BY <1>0, <1>1, <1>4 DEF SynthPutMarks, Written, ChunkOf, SynthAt, SynthGoto, AfterTransient
  <1>5. ASSUME NEW w \in SynthWorkers,
               \/ SynthReceive(w) \/ SynthGet(w) \/ SynthRecheck(w) \/ SynthClaim(w)
        PROVE  Written'
    BY <1>0, <1>2, <1>5 DEF SynthReceive, SynthGet, SynthRecheck, SynthClaim, SynthGoto
  <1>6. ASSUME NEW w \in SynthWorkers, SynthEngine(w) PROVE Written'
    BY <1>0, <1>2, <1>6 DEF SynthEngine, SynthGoto, AfterTransient
  <1>7. ASSUME NEW w \in SynthWorkers,
               \/ SynthFinishDone(w) \/ SynthFinishFailed(w) \/ SynthCountDone(w) \/ SynthCountFailed(w)
               \/ SynthPublish(w)
        PROVE  Written'
    BY <1>0, <1>2, <1>7 DEF SynthFinishDone, SynthFinishFailed, SynthFinish,
                            SynthCountDone, SynthCountFailed, SynthCount, SynthPublish, SynthGoto
  <1>8. ASSUME NEW w \in SynthWorkers, SynthStop(w) PROVE Written'
    BY <1>0, <1>2, <1>8 DEF SynthStop
  <1>9. ASSUME NEW w \in SynthWorkers,
               SynthRelease(w) \/ SynthPublishFails(w) \/ SynthAck(w) \/ SynthCrash(w)
        PROVE  Written'
    <2>1. SynthStop(w) \/ (SynthGoto(w, "ack") /\ UNCHANGED synthMsg)
      BY <1>9 DEF SynthRelease, SynthPublishFails, SynthAck, SynthCrash, SynthRaise
    <2> QED
      BY <1>2, <1>8, <2>1 DEF SynthGoto
  <1>10. ASSUME UNCHANGED synthVars PROVE Written'
    BY <1>1, <1>10 DEF Written, ChunkOf, synthVars
  <1>11. ASSUME NEW w \in SynthWorkers, SynthDuplicate(w) PROVE Written'
    BY <1>10, <1>11 DEF SynthDuplicate
  <1> QED
    BY <1>3, <1>4, <1>5, <1>6, <1>7, <1>9, <1>10, <1>11
    DEF SynthNext, SynthHandler, SynthEnvironment, vars

LEMMA NarrationInit == Init => NarrationInv
  <1> SUFFICES ASSUME Init PROVE NarrationInv
    OBVIOUS
  <1>1. Written
    BY DEF Init, SynthInit, Written
  <1>2. AdvertisedNarration
    BY DEF Init, StoreExtracted, AdvertisedNarration, WithStatus, Absent
  <1> QED
    BY <1>1, <1>2, InitTyped DEF NarrationInv

LEMMA NarrationStep == NarrationInv /\ [SynthNext]_vars => NarrationInv'
  <1> SUFFICES ASSUME NarrationInv, [SynthNext]_vars PROVE NarrationInv'
    OBVIOUS
  <1>0. TypeOK /\ Written /\ AdvertisedNarration
    BY DEF NarrationInv
  <1>1. ASSUME NEW c \in Chunks, chunk'[c] = "DONE" PROVE c \in clips' /\ c \in markDocs'
    <2>1. CASE chunk[c] = "DONE"
      BY <1>0, <2>1, ObjectStep DEF AdvertisedNarration, WithStatus
    <2>2. CASE chunk[c] # "DONE"
      <3>1. PICK w \in SynthWorkers : SynthFinishDone(w) /\ ChunkOf(w) = c
        BY <1>0, <1>1, <2>2, RowStep
      <3> QED
        BY <1>0, <3>1, ObjectStep DEF SynthFinishDone, SynthFinish, SynthAt, Written
    <2> QED
      BY <2>1, <2>2
  <1>2. AdvertisedNarration'
    BY <1>1 DEF AdvertisedNarration, WithStatus
  <1> QED
    BY <1>0, <1>2, StepTyped, WrittenStep DEF NarrationInv

\* A row that says DONE carries the keys of two objects that both exist,
\* however invocations interleave, crash and are delivered twice.
THEOREM Narrated == Spec => []AdvertisedNarration
  <1>1. NarrationInv => AdvertisedNarration
    BY DEF NarrationInv
  <1> QED
    BY <1>1, NarrationInit, NarrationStep, PTL DEF Spec

\* No step of any invocation takes a DONE chunk back.
THEOREM DoneStays == Spec => DoneIsFinal
  <1>1. TypeOK /\ [SynthNext]_vars => [\A c \in Chunks : chunk[c] = "DONE" => chunk'[c] = "DONE"]_vars
    BY RowStep
  <1> QED
    BY <1>1, Typing, PTL DEF Spec, DoneIsFinal

-----------------------------------------------------------------------------
(* The completion signal is never dropped *)

\* A message that goes back is waiting, in the queue or in its DLQ.
LEMMA ReturnWaits ==
  ASSUME StoreTypeOK, NEW c \in Chunks, NEW receive \in 1 .. SynthMaxReceive,
         ReturnChunkMessage(c, receive)
  PROVE  Waiting'
  <1>0. synthQueue \in [SynthBodies -> Nat] /\ synthDlq \in [Chunks -> Nat]
    BY DEF StoreTypeOK
  <1>1. CASE receive < SynthMaxReceive
    <2>1. <<c, receive>> \in SynthBodies
      BY <1>1, StoreAssumption DEF SynthBodies, StoreAssumption
    <2>2. synthQueue'[<<c, receive>>] = synthQueue[<<c, receive>>] + 1
      BY <1>0, <1>1, <2>1 DEF ReturnChunkMessage
    <2>3. synthQueue[<<c, receive>>] \in Nat
      BY <1>0, <2>1
    <2>4. synthQueue'[<<c, receive>>] > 0
      BY <2>2, <2>3
    <2> QED
      BY <2>1, <2>4 DEF Waiting
  <1>2. CASE ~(receive < SynthMaxReceive)
    <2>1. synthDlq'[c] = synthDlq[c] + 1
      BY <1>0, <1>2 DEF ReturnChunkMessage
    <2>2. synthDlq[c] \in Nat
      BY <1>0
    <2> QED
      BY <2>1, <2>2 DEF Waiting
  <1> QED
    BY <1>1, <1>2

\* Nothing is deleted by any step.
LEMMA RowsStep == TypeOK /\ RowsPresent /\ [SynthNext]_vars => RowsPresent'
  <1> SUFFICES ASSUME TypeOK, RowsPresent, [SynthNext]_vars PROVE RowsPresent'
    OBVIOUS
  <1>0. chunk \in [Chunks -> ChunkStatus \cup {Absent}] /\ book \in BookRows
    BY DEF TypeOK, StoreTypeOK
  <1>1. ASSUME NEW w \in SynthWorkers,
               SynthClaim(w) \/ SynthRelease(w) \/ SynthFinishDone(w) \/ SynthFinishFailed(w)
        PROVE  RowsPresent'
    BY <1>0, <1>1
    DEF SynthClaim, SynthRelease, SynthFinishDone, SynthFinishFailed, SynthFinish, RowsPresent, Absent
  <1>2. ASSUME NEW w \in SynthWorkers, SynthCountDone(w) \/ SynthCountFailed(w) PROVE RowsPresent'
    BY <1>0, <1>2 DEF SynthCountDone, SynthCountFailed, SynthCount, RowsPresent, BookRows
  <1>3. ASSUME UNCHANGED tableVars PROVE RowsPresent'
    BY <1>3 DEF RowsPresent, tableVars
  <1>4. ASSUME NEW w \in SynthWorkers,
               \/ SynthReceive(w) \/ SynthGet(w) \/ SynthRecheck(w) \/ SynthEngine(w)
               \/ SynthPutAudio(w) \/ SynthPutMarks(w)
               \/ SynthPublish(w) \/ SynthPublishFails(w) \/ SynthAck(w) \/ SynthEnvironment(w)
        PROVE  RowsPresent'
    BY <1>3, <1>4 DEF SynthReceive, SynthGet, SynthRecheck, SynthEngine, SynthPutAudio, SynthPutMarks,
                  SynthPublish, SynthPublishFails, SynthAck, SynthEnvironment, SynthCrash, SynthDuplicate, storeVars
  <1> QED
    BY <1>1, <1>2, <1>3, <1>4 DEF SynthNext, SynthHandler, vars, storeVars

LEMMA CarriedStep == CompletionInv /\ [SynthNext]_vars => CompletionCarried'
  <1> SUFFICES ASSUME CompletionInv, [SynthNext]_vars PROVE CompletionCarried'
    OBVIOUS
  <1>0. /\ StoreTypeOK /\ SynthTypeOK /\ RowsPresent /\ CompletionCarried
        /\ synthPc \in [SynthWorkers -> SynthPcs]
        /\ synthMsg \in [SynthWorkers -> SynthMsgs \cup {NoSynthMsg}]
        /\ chunk \in [Chunks -> ChunkStatus \cup {Absent}]
    BY DEF CompletionInv, TypeOK, StoreTypeOK, SynthTypeOK
  \* Enough that somebody carries on, or that nothing was lost.
  <1>1. ASSUME NEW w \in SynthWorkers, Carrying(w)' PROVE CompletionCarried'
    BY <1>1 DEF CompletionCarried
  <1>2. ASSUME Waiting' PROVE CompletionCarried'
    BY <1>2 DEF CompletionCarried
  <1>3. ASSUME NEW w \in SynthWorkers, ~Carrying(w),
               UNCHANGED <<tableVars, queueVars>>,
               \A v \in SynthWorkers : v # w => synthPc'[v] = synthPc[v] /\ synthMsg'[v] = synthMsg[v]
        PROVE  CompletionCarried'
    <2>1. \A v \in SynthWorkers : Carrying(v) => Carrying(v)'
      BY <1>3 DEF Carrying, ChunkOf, tableVars
    <2> QED
      BY <1>0, <1>3, <2>1 DEF CompletionCarried, Waiting, StitchSent, tableVars, queueVars
  <1>4. ASSUME NEW w \in SynthWorkers, synthPc[w] # "idle", ReturnChunkMessage(ChunkOf(w), AttemptOf(w))
        PROVE  CompletionCarried'
    BY <1>0, <1>2, <1>4, HeldMessage, ReturnWaits
  <1>5. ASSUME NEW w \in SynthWorkers, SynthReceive(w) \/ SynthGet(w) PROVE CompletionCarried'
    <2>1. CASE SynthReceive(w)
      BY <1>0, <1>1, <2>1 DEF SynthReceive, SynthGoto, Carrying
    <2>2. CASE SynthGet(w)
      <3>1. chunk[ChunkOf(w)] # Absent
        BY <1>0, <2>2, HeldMessage DEF SynthGet, SynthAt, RowsPresent
      <3>2. Carrying(w)'
        BY <1>0, <2>2, <3>1
        DEF SynthGet, SynthGoto, SynthAt, Carrying, ChunkOf, storeVars, tableVars
      <3> QED
        BY <1>1, <3>2
    <2> QED
      BY <1>5, <2>1, <2>2
  <1>6. ASSUME NEW w \in SynthWorkers, SynthRecheck(w) PROVE CompletionCarried'
    <2>1. CASE IsComplete(book.done, book.total)
      BY <1>0, <1>1, <1>6, <2>1 DEF SynthRecheck, SynthGoto, RowsPresent, Carrying
    <2>2. CASE ~IsComplete(book.done, book.total)
      BY <1>6, <2>2 DEF SynthRecheck, CompletionCarried, IsComplete, storeVars, tableVars
    <2> QED
      BY <2>1, <2>2
  <1>7. ASSUME NEW w \in SynthWorkers, SynthClaim(w) PROVE CompletionCarried'
    <2>1. ChunkOf(w) \in Chunks /\ chunk[ChunkOf(w)] # Absent
      BY <1>0, <1>7, HeldMessage DEF SynthClaim, SynthAt, RowsPresent
    <2>2. CASE chunk[ChunkOf(w)] \in NonTerminalChunkStatuses
      <3>1. Carrying(w)'
        BY <1>0, <1>7, <2>1, <2>2 DEF SynthClaim, SynthGoto, Carrying, ChunkOf
      <3> QED
        BY <1>1, <3>1
    <2>3. CASE chunk[ChunkOf(w)] \notin NonTerminalChunkStatuses
      <3>1. ~Carrying(w)
        BY <1>0, <1>7, <2>1, <2>3
        DEF SynthClaim, SynthAt, Carrying, NonTerminalChunkStatuses, ChunkStatus
      <3>2. /\ UNCHANGED <<tableVars, queueVars, synthMsg>>
            /\ SynthGoto(w, "ack")
        BY <1>7, <2>3 DEF SynthClaim, tableVars
      <3> QED
        BY <1>0, <1>3, <3>1, <3>2 DEF SynthGoto
    <2> QED
      BY <2>2, <2>3
  <1>8. ASSUME NEW w \in SynthWorkers, SynthEngine(w) \/ SynthPutAudio(w) \/ SynthPutMarks(w)
        PROVE  CompletionCarried'
    <2>1. /\ UNCHANGED <<tableVars, queueVars, synthMsg>>
          /\ synthPc[w] \in {"engine", "putAudio", "putMarks"}
      BY <1>8 DEF SynthEngine, SynthPutAudio, SynthPutMarks, SynthAt, storeVars
    <2>2. PICK next \in {"putAudio", "putMarks", "release", "finishDone", "finishFailed"} :
            synthPc' = [synthPc EXCEPT ![w] = next]
      BY <1>8 DEF SynthEngine, SynthPutAudio, SynthPutMarks, SynthGoto, AfterTransient
    <2>3. CASE Carrying(w)
      <3>1. Carrying(w)'
        BY <1>0, <2>1, <2>2, <2>3 DEF Carrying, ChunkOf, tableVars
      <3> QED
        BY <1>1, <3>1
    <2>4. CASE ~Carrying(w)
      BY <1>0, <1>3, <2>1, <2>2, <2>4
    <2> QED
      BY <2>3, <2>4
  <1>9. ASSUME NEW w \in SynthWorkers, SynthRelease(w) PROVE CompletionCarried'
    <2>1. CASE chunk[ChunkOf(w)] = "SYNTHESIZING"
      BY <1>4, <1>9, <2>1 DEF SynthRelease, SynthRaise, SynthAt
    <2>2. CASE chunk[ChunkOf(w)] # "SYNTHESIZING"
      <3>1. ~Carrying(w)
        BY <1>9, <2>2 DEF SynthRelease, SynthAt, Carrying
      <3>2. UNCHANGED <<tableVars, queueVars, synthMsg>> /\ SynthGoto(w, "ack")
        BY <1>9, <2>2 DEF SynthRelease, tableVars, queueVars
      <3> QED
        BY <1>0, <1>3, <3>1, <3>2 DEF SynthGoto
    <2> QED
      BY <2>1, <2>2
  <1>10. ASSUME NEW w \in SynthWorkers, SynthFinishDone(w) \/ SynthFinishFailed(w)
         PROVE  CompletionCarried'
    <2>1. ChunkOf(w) \in Chunks /\ chunk[ChunkOf(w)] # Absent
      BY <1>0, <1>10, HeldMessage DEF SynthFinishDone, SynthFinishFailed, SynthFinish, SynthAt, RowsPresent
    <2>2. CASE chunk[ChunkOf(w)] \in NonTerminalChunkStatuses
      <3>1. Carrying(w)'
        BY <1>0, <1>10, <2>2 DEF SynthFinishDone, SynthFinishFailed, SynthFinish, SynthGoto, Carrying
      <3> QED
        BY <1>1, <3>1
    <2>3. CASE chunk[ChunkOf(w)] \notin NonTerminalChunkStatuses
      <3>1. ~Carrying(w)
        BY <1>0, <1>10, <2>1, <2>3
        DEF SynthFinishDone, SynthFinishFailed, SynthFinish, SynthAt, Carrying, NonTerminalChunkStatuses
      <3>2. UNCHANGED <<tableVars, queueVars, synthMsg>> /\ SynthGoto(w, "ack")
        BY <1>10, <2>3 DEF SynthFinishDone, SynthFinishFailed, SynthFinish, tableVars
      <3> QED
        BY <1>0, <1>3, <3>1, <3>2 DEF SynthGoto
    <2> QED
      BY <2>2, <2>3
  <1>11. ASSUME NEW w \in SynthWorkers, SynthCountDone(w) \/ SynthCountFailed(w)
         PROVE  CompletionCarried'
    <2>1. PICK n \in {0, 1} : SynthCount(w, "countDone", n) \/ SynthCount(w, "countFailed", n)
      BY <1>11 DEF SynthCountDone, SynthCountFailed
    <2>2. book.status # Absent /\ book \in BookRows
      BY <1>0 DEF RowsPresent, Absent, StoreTypeOK
    <2>3. /\ book'.done = book.done + 1 /\ book'.total = book.total
          /\ SynthGoto(w, IF IsComplete(book.done + 1, book.total) THEN "publish" ELSE "ack")
      BY <2>1, <2>2 DEF SynthCount, BookRows
    <2>4. CASE IsComplete(book.done + 1, book.total)
      BY <1>0, <1>1, <2>3, <2>4 DEF SynthGoto, Carrying
    <2>5. CASE ~IsComplete(book.done + 1, book.total)
      BY <2>3, <2>5 DEF CompletionCarried, IsComplete
    <2> QED
      BY <2>4, <2>5
  <1>12. ASSUME NEW w \in SynthWorkers, SynthPublish(w) PROVE CompletionCarried'
    <2>1. stitchQueue \in [0 .. StitchMaxReceive - 1 -> Nat] /\ 0 \in 0 .. StitchMaxReceive - 1
      BY <1>0, StoreAssumption DEF StoreTypeOK, StoreAssumption
    <2>2. 0 \in DOMAIN stitchQueue' /\ stitchQueue'[0] > 0
      BY <1>12, <2>1 DEF SynthPublish, SendStitch
    <2> QED
      BY <2>2 DEF CompletionCarried, StitchSent
  <1>13. ASSUME NEW w \in SynthWorkers, SynthPublishFails(w) \/ SynthCrash(w) \/ SynthDuplicate(w)
         PROVE  CompletionCarried'
    BY <1>4, <1>13 DEF SynthPublishFails, SynthCrash, SynthDuplicate, SynthRaise, SynthAt
  <1>14. ASSUME NEW w \in SynthWorkers, SynthAck(w) PROVE CompletionCarried'
    <2>1. ~Carrying(w)
      BY <1>14 DEF SynthAck, SynthAt, Carrying
    <2> QED
      BY <1>0, <1>3, <1>14, <2>1 DEF SynthAck, SynthStop, storeVars
  <1>15. CASE UNCHANGED vars
    BY <1>0, <1>15
    DEF vars, storeVars, tableVars, queueVars, synthVars,
        CompletionCarried, Carrying, ChunkOf, Waiting, StitchSent
  <1> QED
    BY <1>5, <1>6, <1>7, <1>8, <1>9, <1>10, <1>11, <1>12, <1>13, <1>14, <1>15
    DEF SynthNext, SynthHandler, SynthEnvironment

LEMMA CompletionInit == Init => CompletionInv
  <1> SUFFICES ASSUME Init PROVE CompletionInv
    OBVIOUS
  <1>1. RowsPresent
    <2>1. book.status = "EXTRACTED"
      BY DEF Init, StoreExtracted, ExtractedBook, NewBook
    <2>2. ASSUME NEW c \in Chunks PROVE chunk[c] = "PENDING"
      BY StoreAssumption DEF Init, StoreExtracted, Chunks, StoreAssumption
    <2> QED
      BY <2>1, <2>2 DEF RowsPresent, Absent
  <1>2. CompletionCarried
    BY StoreAssumption
    DEF Init, StoreExtracted, ExtractedBook, NewBook, CompletionCarried, IsComplete, StoreAssumption
  <1> QED
    BY <1>1, <1>2, InitTyped DEF CompletionInv

\* While the counter of a book is complete, its stitch message was sent, or a
\* chunk message is left whose processing sends it: no interleaving, crash,
\* duplicate or failed send drops the completion signal.
THEOREM SignalKept == Spec => []StitchNeverDropped
  <1>1. CompletionInv => StitchNeverDropped
    <2> SUFFICES ASSUME CompletionInv, NEW w \in SynthWorkers, Carrying(w)
                 PROVE  synthPc[w] \notin {"idle", "ack"}
      BY DEF CompletionInv, CompletionCarried, StitchNeverDropped, MessageOutstanding, Waiting
    <2> QED
      BY DEF Carrying
  <1>2. CompletionInv /\ [SynthNext]_vars => CompletionInv'
    BY StepTyped, RowsStep, CarriedStep DEF CompletionInv
  <1> QED
    BY <1>1, <1>2, CompletionInit, PTL DEF Spec

-----------------------------------------------------------------------------
(* Cardinalities of the two families of sets the invariants count *)

LEMMA SetsFinite ==
  ASSUME NEW s, NEW pc
  PROVE  /\ IsFiniteSet(WithStatus(s)) /\ Cardinality(WithStatus(s)) \in Nat
         /\ IsFiniteSet(WorkersAt(pc)) /\ Cardinality(WorkersAt(pc)) \in Nat
  <1>1. IsFiniteSet(Chunks)
    <2>1. 0 \in Int /\ MaxChunks - 1 \in Int
      BY StoreAssumption DEF StoreAssumption
    <2> QED
      BY <2>1, FS_Interval DEF Chunks
  <1>2. IsFiniteSet(WithStatus(s))
    BY <1>1, FS_Subset DEF WithStatus
  <1>3. IsFiniteSet(WorkersAt(pc))
    BY SynthWorkersAssumption, FS_Subset DEF WorkersAt, SynthWorkersAssumption
  <1> QED
    BY <1>2, <1>3, FS_CardinalityType

\* A step of invocation w, or of the row of chunk c, and of no other.
OnlyWorker(w) == \A v \in SynthWorkers : v # w => synthPc'[v] = synthPc[v]
OnlyRow(c)    == \A d \in Chunks : d # c => chunk'[d] = chunk[d]

\* What a step of one invocation does to the set of those that stand at pc.
LEMMA WorkersChange ==
  ASSUME NEW w \in SynthWorkers, OnlyWorker(w), NEW pc
  PROVE  /\ (synthPc'[w] = pc <=> synthPc[w] = pc) => Cardinality(WorkersAt(pc)') = Cardinality(WorkersAt(pc))
         /\ synthPc'[w] = pc /\ synthPc[w] # pc => Cardinality(WorkersAt(pc)') = Cardinality(WorkersAt(pc)) + 1
         /\ synthPc'[w] # pc /\ synthPc[w] = pc => Cardinality(WorkersAt(pc)') = Cardinality(WorkersAt(pc)) - 1
  <1>1. IsFiniteSet(WorkersAt(pc)) /\ Cardinality(WorkersAt(pc)) \in Nat
    BY SetsFinite
  <1>2. CASE (synthPc'[w] = pc <=> synthPc[w] = pc)
    <2>1. WorkersAt(pc)' = WorkersAt(pc)
      BY <1>2 DEF WorkersAt, OnlyWorker
    <2> QED
      BY <1>1, <1>2, <2>1
  <1>3. CASE synthPc'[w] = pc /\ synthPc[w] # pc
    <2>1. WorkersAt(pc)' = WorkersAt(pc) \cup {w} /\ w \notin WorkersAt(pc)
      BY <1>3 DEF WorkersAt, OnlyWorker
    <2>2. Cardinality(WorkersAt(pc) \cup {w}) = Cardinality(WorkersAt(pc)) + 1
      BY <1>1, <2>1, FS_AddElement
    <2> QED
      BY <1>1, <1>3, <2>1, <2>2
  <1>4. CASE synthPc'[w] # pc /\ synthPc[w] = pc
    <2>1. WorkersAt(pc)' = WorkersAt(pc) \ {w} /\ w \in WorkersAt(pc)
      BY <1>4 DEF WorkersAt, OnlyWorker
    <2>2. Cardinality(WorkersAt(pc) \ {w}) = Cardinality(WorkersAt(pc)) - 1
      BY <1>1, <2>1, FS_RemoveElement
    <2> QED
      BY <1>1, <1>4, <2>1, <2>2
  <1> QED
    BY <1>2, <1>3, <1>4

\* What an update of one chunk row does to the set of rows of a status.
LEMMA RowsChange ==
  ASSUME NEW c \in Chunks, OnlyRow(c), NEW s
  PROVE  /\ (chunk'[c] = s <=> chunk[c] = s) => Cardinality(WithStatus(s)') = Cardinality(WithStatus(s))
         /\ chunk'[c] = s /\ chunk[c] # s => Cardinality(WithStatus(s)') = Cardinality(WithStatus(s)) + 1
         /\ chunk'[c] # s /\ chunk[c] = s => Cardinality(WithStatus(s)') = Cardinality(WithStatus(s)) - 1
  <1>1. IsFiniteSet(WithStatus(s)) /\ Cardinality(WithStatus(s)) \in Nat
    BY SetsFinite
  <1>2. CASE (chunk'[c] = s <=> chunk[c] = s)
    <2>1. WithStatus(s)' = WithStatus(s)
      BY <1>2 DEF WithStatus, OnlyRow
    <2> QED
      BY <1>1, <1>2, <2>1
  <1>3. CASE chunk'[c] = s /\ chunk[c] # s
    <2>1. WithStatus(s)' = WithStatus(s) \cup {c} /\ c \notin WithStatus(s)
      BY <1>3 DEF WithStatus, OnlyRow
    <2>2. Cardinality(WithStatus(s) \cup {c}) = Cardinality(WithStatus(s)) + 1
      BY <1>1, <2>1, FS_AddElement
    <2> QED
      BY <1>1, <1>3, <2>1, <2>2
  <1>4. CASE chunk'[c] # s /\ chunk[c] = s
    <2>1. WithStatus(s)' = WithStatus(s) \ {c} /\ c \in WithStatus(s)
      BY <1>4 DEF WithStatus, OnlyRow
    <2>2. Cardinality(WithStatus(s) \ {c}) = Cardinality(WithStatus(s)) - 1
      BY <1>1, <2>1, FS_RemoveElement
    <2> QED
      BY <1>1, <1>4, <2>1, <2>2
  <1> QED
    BY <1>2, <1>3, <1>4

-----------------------------------------------------------------------------
(* The invariant *)

CountInv == TypeOK /\ RowsPresent /\ DoneCountedOnce /\ FailedCounted

LEMMA CountInit == Init => CountInv
  <1> SUFFICES ASSUME Init PROVE CountInv
    OBVIOUS
  <1>1. WithStatus("DONE") = {} /\ WithStatus("FAILED") = {}
    BY DEF Init, StoreExtracted, WithStatus, Absent
  <1>2. WorkersAt("countDone") = {} /\ WorkersAt("countFailed") = {}
    BY DEF Init, SynthInit, WorkersAt
  <1>3. /\ book.done = 0 /\ book.failed = 0
        /\ lostCount.done = 0 /\ lostCount.failed = 0
    BY DEF Init, StoreExtracted, ExtractedBook, NewBook
  <1>4. DoneCountedOnce /\ FailedCounted
    BY <1>1, <1>2, <1>3, FS_EmptySet DEF DoneCountedOnce, FailedCounted
  <1> QED
    BY <1>4, InitTyped, CompletionInit DEF CountInv, CompletionInv

\* Every step moves the two balances by equal amounts on both sides.
LEMMA CountStep ==
  CountInv /\ [SynthNext]_vars => DoneCountedOnce' /\ FailedCounted'
  <1> SUFFICES ASSUME CountInv, [SynthNext]_vars PROVE DoneCountedOnce' /\ FailedCounted'
    OBVIOUS
  <1>0. StoreTypeOK /\ SynthTypeOK /\ RowsPresent /\ book \in BookRows
    BY DEF CountInv, TypeOK, StoreTypeOK
  <1>b. /\ DoneCountedOnce /\ FailedCounted
        /\ book.done \in Nat /\ book.failed \in Nat /\ lostCount.done \in Nat /\ lostCount.failed \in Nat
    BY <1>0 DEF CountInv, StoreTypeOK, BookRows
  <1>1. /\ Cardinality(WithStatus("DONE")) \in Nat /\ Cardinality(WithStatus("FAILED")) \in Nat
        /\ Cardinality(WorkersAt("countDone")) \in Nat /\ Cardinality(WorkersAt("countFailed")) \in Nat
    BY SetsFinite
  <1>w. ASSUME NEW w \in SynthWorkers, NEW next, synthPc' = [synthPc EXCEPT ![w] = next]
        PROVE  OnlyWorker(w) /\ synthPc'[w] = next
    BY <1>0, <1>w DEF OnlyWorker, SynthTypeOK
  <1>r. ASSUME NEW c \in Chunks, NEW status, chunk' = [chunk EXCEPT ![c] = status]
        PROVE  OnlyRow(c) /\ chunk'[c] = status
    BY <1>0, <1>r DEF OnlyRow, StoreTypeOK
  \* A row that is counted joins its status when the invocation joins its place.
  <1>u. ASSUME UNCHANGED <<book, lostCount>>,
               \/ Cardinality(WithStatus("DONE")') = Cardinality(WithStatus("DONE")) /\ Cardinality(WorkersAt("countDone")') = Cardinality(WorkersAt("countDone"))
               \/ Cardinality(WithStatus("DONE")') = Cardinality(WithStatus("DONE")) + 1 /\ Cardinality(WorkersAt("countDone")') = Cardinality(WorkersAt("countDone")) + 1,
               \/ Cardinality(WithStatus("FAILED")') = Cardinality(WithStatus("FAILED")) \/ Cardinality(WithStatus("FAILED")') = Cardinality(WithStatus("FAILED")) - 1
               \/ Cardinality(WithStatus("FAILED")') = Cardinality(WithStatus("FAILED")) + 1 /\ Cardinality(WorkersAt("countFailed")') = Cardinality(WorkersAt("countFailed")) + 1,
               \/ Cardinality(WorkersAt("countFailed")') = Cardinality(WorkersAt("countFailed")) \/ Cardinality(WorkersAt("countFailed")') = Cardinality(WorkersAt("countFailed")) + 1
        PROVE  DoneCountedOnce' /\ FailedCounted'
    <2>1. DoneCountedOnce'
      BY <1>b, <1>1, <1>u DEF DoneCountedOnce
    <2>2. FailedCounted'
      BY <1>b, <1>1, <1>u DEF FailedCounted
    <2> QED
      BY <2>1, <2>2
  \* A step between two places that are not counted.
  <1>2. ASSUME NEW w \in SynthWorkers, NEW next, synthPc' = [synthPc EXCEPT ![w] = next],
               synthPc[w] \notin {"countDone", "countFailed"}, next \notin {"countDone", "countFailed"},
               UNCHANGED <<book, lostCount>>,
               \/ UNCHANGED chunk
               \/ \E c \in Chunks, status \in {"PENDING", "SYNTHESIZING"} :
                    chunk[c] # "DONE" /\ chunk' = [chunk EXCEPT ![c] = status]
        PROVE  DoneCountedOnce' /\ FailedCounted'
    <2>1. /\ Cardinality(WorkersAt("countDone")') = Cardinality(WorkersAt("countDone"))
          /\ Cardinality(WorkersAt("countFailed")') = Cardinality(WorkersAt("countFailed"))
      <3>1. OnlyWorker(w) /\ synthPc'[w] = next
        BY <1>2, <1>w
      <3>2. Cardinality(WorkersAt("countDone")') = Cardinality(WorkersAt("countDone"))
        BY <1>2, <3>1, WorkersChange
      <3>3. Cardinality(WorkersAt("countFailed")') = Cardinality(WorkersAt("countFailed"))
        BY <1>2, <3>1, WorkersChange
      <3> QED
        BY <3>2, <3>3
    <2>2. /\ Cardinality(WithStatus("DONE")') = Cardinality(WithStatus("DONE"))
          /\ Cardinality(WithStatus("FAILED")') = Cardinality(WithStatus("FAILED")) \/ Cardinality(WithStatus("FAILED")') = Cardinality(WithStatus("FAILED")) - 1
      <3>1. CASE UNCHANGED chunk
        BY <3>1 DEF WithStatus
      <3>2. ASSUME NEW c \in Chunks, NEW status \in {"PENDING", "SYNTHESIZING"},
                   chunk[c] # "DONE", chunk' = [chunk EXCEPT ![c] = status]
            PROVE  /\ Cardinality(WithStatus("DONE")') = Cardinality(WithStatus("DONE"))
                   /\ Cardinality(WithStatus("FAILED")') = Cardinality(WithStatus("FAILED")) \/ Cardinality(WithStatus("FAILED")') = Cardinality(WithStatus("FAILED")) - 1
        BY <3>2, <1>r, RowsChange
      <3> QED
        BY <1>2, <3>1, <3>2
    <2> QED
      BY <1>2, <1>u, <2>1, <2>2
  <1>3. ASSUME NEW w \in SynthWorkers,
               \/ SynthReceive(w) \/ SynthGet(w) \/ SynthRecheck(w) \/ SynthEngine(w)
               \/ SynthPutAudio(w) \/ SynthPutMarks(w) \/ SynthPublish(w)
        PROVE  DoneCountedOnce' /\ FailedCounted'
    <2>1. /\ UNCHANGED <<book, chunk, lostCount>>
          /\ synthPc[w] \notin {"countDone", "countFailed"}
      BY <1>3 DEF SynthReceive, SynthGet, SynthRecheck, SynthEngine, SynthPutAudio, SynthPutMarks,
                  SynthPublish, SynthAt, storeVars, tableVars, envVars
    <2>2. \E next : next \notin {"countDone", "countFailed"} /\ synthPc' = [synthPc EXCEPT ![w] = next]
      BY <1>3 DEF SynthReceive, SynthGet, SynthRecheck, SynthEngine, SynthPutAudio, SynthPutMarks,
                  SynthPublish, SynthGoto, AfterTransient
    <2> QED
      BY <1>2, <2>1, <2>2
  <1>4. ASSUME NEW w \in SynthWorkers, SynthClaim(w) \/ SynthRelease(w)
        PROVE  DoneCountedOnce' /\ FailedCounted'
    <2>1. /\ UNCHANGED <<book, lostCount>>
          /\ synthPc[w] \notin {"idle", "countDone", "countFailed"}
      BY <1>4 DEF SynthClaim, SynthRelease, SynthAt, envVars
    <2>2. \E next : next \notin {"countDone", "countFailed"} /\ synthPc' = [synthPc EXCEPT ![w] = next]
      BY <1>4 DEF SynthClaim, SynthRelease, SynthGoto, SynthRaise, SynthStop
    <2>3. ChunkOf(w) \in Chunks
      BY <1>0, <2>1, HeldMessage
    <2>4. \/ UNCHANGED chunk
          \/ \E status \in {"PENDING", "SYNTHESIZING"} :
               chunk[ChunkOf(w)] # "DONE" /\ chunk' = [chunk EXCEPT ![ChunkOf(w)] = status]
      BY <1>4 DEF SynthClaim, SynthRelease, NonTerminalChunkStatuses
    <2> QED
      BY <1>2, <2>1, <2>2, <2>3, <2>4
  <1>5. ASSUME NEW w \in SynthWorkers, SynthPublishFails(w) \/ SynthAck(w)
        PROVE  DoneCountedOnce' /\ FailedCounted'
    <2>1. /\ UNCHANGED <<book, chunk, lostCount>>
          /\ synthPc[w] \notin {"countDone", "countFailed"}
          /\ synthPc' = [synthPc EXCEPT ![w] = "idle"]
      BY <1>5 DEF SynthPublishFails, SynthAck, SynthAt, SynthRaise, SynthStop, storeVars, tableVars, envVars
    <2> QED
      BY <1>2, <2>1
  <1>6. ASSUME NEW w \in SynthWorkers, SynthFinishDone(w) \/ SynthFinishFailed(w)
        PROVE  DoneCountedOnce' /\ FailedCounted'
    <2>1. /\ UNCHANGED <<book, lostCount>>
          /\ synthPc[w] \notin {"idle", "countDone", "countFailed"}
      BY <1>6 DEF SynthFinishDone, SynthFinishFailed, SynthFinish, SynthAt, envVars
    <2>2. ChunkOf(w) \in Chunks
      BY <1>0, <2>1, HeldMessage
    <2>3. CASE chunk[ChunkOf(w)] \notin NonTerminalChunkStatuses
      <3>1. UNCHANGED chunk /\ synthPc' = [synthPc EXCEPT ![w] = "ack"]
        BY <1>6, <2>3 DEF SynthFinishDone, SynthFinishFailed, SynthFinish, SynthGoto
      <3> QED
        BY <1>2, <2>1, <3>1
    <2>4. CASE chunk[ChunkOf(w)] \in NonTerminalChunkStatuses /\ SynthFinishDone(w)
      <3>1. /\ chunk' = [chunk EXCEPT ![ChunkOf(w)] = "DONE"]
            /\ synthPc' = [synthPc EXCEPT ![w] = "countDone"]
            /\ chunk[ChunkOf(w)] # "DONE"
        BY <2>4 DEF SynthFinishDone, SynthFinish, SynthGoto, NonTerminalChunkStatuses
      <3>2. /\ Cardinality(WorkersAt("countDone")') = Cardinality(WorkersAt("countDone")) + 1
            /\ Cardinality(WorkersAt("countFailed")') = Cardinality(WorkersAt("countFailed"))
        <4>1. OnlyWorker(w) /\ synthPc'[w] = "countDone"
          BY <3>1, <1>w
        <4>2. Cardinality(WorkersAt("countDone")') = Cardinality(WorkersAt("countDone")) + 1
          BY <2>1, <4>1, WorkersChange
        <4>3. Cardinality(WorkersAt("countFailed")') = Cardinality(WorkersAt("countFailed"))
          BY <2>1, <4>1, WorkersChange
        <4> QED
          BY <4>2, <4>3
      <3>3. /\ Cardinality(WithStatus("DONE")') = Cardinality(WithStatus("DONE")) + 1
            /\ Cardinality(WithStatus("FAILED")') = Cardinality(WithStatus("FAILED")) \/ Cardinality(WithStatus("FAILED")') = Cardinality(WithStatus("FAILED")) - 1
        BY <2>2, <3>1, <1>r, RowsChange
      <3> QED
        BY <1>u, <2>1, <3>2, <3>3
    <2>5. CASE chunk[ChunkOf(w)] \in NonTerminalChunkStatuses /\ SynthFinishFailed(w)
      <3>1. /\ chunk' = [chunk EXCEPT ![ChunkOf(w)] = "FAILED"]
            /\ synthPc' = [synthPc EXCEPT ![w] = "countFailed"]
            /\ chunk[ChunkOf(w)] # "DONE"
        BY <2>5 DEF SynthFinishFailed, SynthFinish, SynthGoto, NonTerminalChunkStatuses
      <3>2. /\ Cardinality(WorkersAt("countDone")') = Cardinality(WorkersAt("countDone"))
            /\ Cardinality(WorkersAt("countFailed")') = Cardinality(WorkersAt("countFailed")) + 1
        <4>1. OnlyWorker(w) /\ synthPc'[w] = "countFailed"
          BY <3>1, <1>w
        <4>2. Cardinality(WorkersAt("countDone")') = Cardinality(WorkersAt("countDone"))
          BY <2>1, <4>1, WorkersChange
        <4>3. Cardinality(WorkersAt("countFailed")') = Cardinality(WorkersAt("countFailed")) + 1
          BY <2>1, <4>1, WorkersChange
        <4> QED
          BY <4>2, <4>3
      <3>3. /\ Cardinality(WithStatus("DONE")') = Cardinality(WithStatus("DONE"))
            /\ Cardinality(WithStatus("FAILED")') = Cardinality(WithStatus("FAILED")) \/ Cardinality(WithStatus("FAILED")') = Cardinality(WithStatus("FAILED")) + 1
        BY <2>2, <3>1, <1>r, RowsChange
      <3> QED
        BY <1>u, <2>1, <3>2, <3>3
    <2> QED
      BY <1>6, <2>3, <2>4, <2>5
  <1>7. ASSUME NEW w \in SynthWorkers, SynthCountDone(w) \/ SynthCountFailed(w)
        PROVE  DoneCountedOnce' /\ FailedCounted'
    <2>1. UNCHANGED <<chunk, lostCount>> /\ book.status # Absent
      BY <1>0, <1>7 DEF SynthCountDone, SynthCountFailed, SynthCount, envVars, RowsPresent, Absent
    <2>2. WithStatus("DONE")' = WithStatus("DONE") /\ WithStatus("FAILED")' = WithStatus("FAILED")
      BY <2>1 DEF WithStatus
    <2>3. PICK next : next \notin {"countDone", "countFailed"} /\ synthPc' = [synthPc EXCEPT ![w] = next]
      BY <1>7, <2>1 DEF SynthCountDone, SynthCountFailed, SynthCount, SynthGoto
    <2>4. CASE SynthCountDone(w)
      <3>0. book' = [book EXCEPT !.done = book.done + 1, !.failed = book.failed + 0] /\ synthPc[w] = "countDone"
        BY <2>1, <2>4 DEF SynthCountDone, SynthCount, SynthAt
      <3>1. book'.done = book.done + 1 /\ book'.failed = book.failed /\ synthPc[w] = "countDone"
        BY <1>0, <1>b, <3>0 DEF BookRows
      <3>2. /\ Cardinality(WorkersAt("countDone")') = Cardinality(WorkersAt("countDone")) - 1
            /\ Cardinality(WorkersAt("countFailed")') = Cardinality(WorkersAt("countFailed"))
        <4>1. OnlyWorker(w) /\ synthPc'[w] = next
          BY <2>3, <1>w
        <4>2. Cardinality(WorkersAt("countDone")') = Cardinality(WorkersAt("countDone")) - 1
          BY <2>3, <3>1, <4>1, WorkersChange
        <4>3. Cardinality(WorkersAt("countFailed")') = Cardinality(WorkersAt("countFailed"))
          BY <2>3, <3>1, <4>1, WorkersChange
        <4> QED
          BY <4>2, <4>3
      <3> QED
        BY <1>b, <1>1, <2>1, <2>2, <3>1, <3>2 DEF DoneCountedOnce, FailedCounted
    <2>5. CASE SynthCountFailed(w)
      <3>1. book'.done = book.done + 1 /\ book'.failed = book.failed + 1 /\ synthPc[w] = "countFailed"
        BY <1>0, <2>1, <2>5 DEF SynthCountFailed, SynthCount, SynthAt, BookRows
      <3>2. /\ Cardinality(WorkersAt("countDone")') = Cardinality(WorkersAt("countDone"))
            /\ Cardinality(WorkersAt("countFailed")') = Cardinality(WorkersAt("countFailed")) - 1
        <4>1. OnlyWorker(w) /\ synthPc'[w] = next
          BY <2>3, <1>w
        <4>2. Cardinality(WorkersAt("countDone")') = Cardinality(WorkersAt("countDone"))
          BY <2>3, <3>1, <4>1, WorkersChange
        <4>3. Cardinality(WorkersAt("countFailed")') = Cardinality(WorkersAt("countFailed")) - 1
          BY <2>3, <3>1, <4>1, WorkersChange
        <4> QED
          BY <4>2, <4>3
      <3> QED
        BY <1>b, <1>1, <2>1, <2>2, <3>1, <3>2 DEF DoneCountedOnce, FailedCounted
    <2> QED
      BY <1>7, <2>4, <2>5
  <1>8. ASSUME NEW w \in SynthWorkers, SynthCrash(w) PROVE DoneCountedOnce' /\ FailedCounted'
    <2>1. /\ UNCHANGED <<book, chunk>>
          /\ synthPc' = [synthPc EXCEPT ![w] = "idle"]
          /\ lostCount'.done = lostCount.done + (IF synthPc[w] = "countDone" THEN 1 ELSE 0)
          /\ lostCount'.failed = lostCount.failed + (IF synthPc[w] = "countFailed" THEN 1 ELSE 0)
      BY <1>8 DEF SynthCrash, Crash, SynthAt, SynthRaise, SynthStop, tableVars
    <2>2. WithStatus("DONE")' = WithStatus("DONE") /\ WithStatus("FAILED")' = WithStatus("FAILED")
      BY <2>1 DEF WithStatus
    <2>3. CASE synthPc[w] = "countDone"
      <3>1. /\ Cardinality(WorkersAt("countDone")') = Cardinality(WorkersAt("countDone")) - 1
            /\ Cardinality(WorkersAt("countFailed")') = Cardinality(WorkersAt("countFailed"))
        <4>1. OnlyWorker(w) /\ synthPc'[w] = "idle"
          BY <2>1, <1>w
        <4>2. Cardinality(WorkersAt("countDone")') = Cardinality(WorkersAt("countDone")) - 1
          BY <2>3, <4>1, WorkersChange
        <4>3. Cardinality(WorkersAt("countFailed")') = Cardinality(WorkersAt("countFailed"))
          BY <2>3, <4>1, WorkersChange
        <4> QED
          BY <4>2, <4>3
      <3> QED
        BY <1>b, <1>1, <2>1, <2>2, <2>3, <3>1 DEF DoneCountedOnce, FailedCounted
    <2>4. CASE synthPc[w] = "countFailed"
      <3>1. /\ Cardinality(WorkersAt("countDone")') = Cardinality(WorkersAt("countDone"))
            /\ Cardinality(WorkersAt("countFailed")') = Cardinality(WorkersAt("countFailed")) - 1
        <4>1. OnlyWorker(w) /\ synthPc'[w] = "idle"
          BY <2>1, <1>w
        <4>2. Cardinality(WorkersAt("countDone")') = Cardinality(WorkersAt("countDone"))
          BY <2>4, <4>1, WorkersChange
        <4>3. Cardinality(WorkersAt("countFailed")') = Cardinality(WorkersAt("countFailed")) - 1
          BY <2>4, <4>1, WorkersChange
        <4> QED
          BY <4>2, <4>3
      <3> QED
        BY <1>b, <1>1, <2>1, <2>2, <2>4, <3>1 DEF DoneCountedOnce, FailedCounted
    <2>5. CASE synthPc[w] \notin {"countDone", "countFailed"}
      <3>1. /\ Cardinality(WorkersAt("countDone")') = Cardinality(WorkersAt("countDone"))
            /\ Cardinality(WorkersAt("countFailed")') = Cardinality(WorkersAt("countFailed"))
        <4>1. OnlyWorker(w) /\ synthPc'[w] = "idle"
          BY <2>1, <1>w
        <4>2. Cardinality(WorkersAt("countDone")') = Cardinality(WorkersAt("countDone"))
          BY <2>5, <4>1, WorkersChange
        <4>3. Cardinality(WorkersAt("countFailed")') = Cardinality(WorkersAt("countFailed"))
          BY <2>5, <4>1, WorkersChange
        <4> QED
          BY <4>2, <4>3
      <3> QED
        BY <1>b, <1>1, <2>1, <2>2, <2>5, <3>1 DEF DoneCountedOnce, FailedCounted
    <2> QED
      BY <2>3, <2>4, <2>5
  <1>9. ASSUME UNCHANGED <<book, chunk, lostCount, synthPc>> PROVE DoneCountedOnce' /\ FailedCounted'
    BY <1>b, <1>9 DEF DoneCountedOnce, FailedCounted, WithStatus, WorkersAt
  <1>10. ASSUME NEW w \in SynthWorkers, SynthDuplicate(w) PROVE DoneCountedOnce' /\ FailedCounted'
    BY <1>9, <1>10 DEF SynthDuplicate, tableVars, synthVars
  <1>11. CASE UNCHANGED vars
    BY <1>9, <1>11 DEF vars, storeVars, tableVars, envVars, synthVars
  <1> QED
    BY <1>3, <1>4, <1>5, <1>6, <1>7, <1>8, <1>10, <1>11
    DEF SynthNext, SynthHandler, SynthEnvironment

LEMMA CountInductive == CountInv /\ [SynthNext]_vars => CountInv'
  BY StepTyped, RowsStep, CountStep DEF CountInv

\* Every DONE chunk is counted exactly once as a success: counted, about to be
\* counted, or lost with the invocation that was about to count it.
THEOREM DoneCounting == Spec => []DoneCountedOnce
  <1>1. CountInv => DoneCountedOnce
    BY DEF CountInv
  <1> QED
    BY <1>1, CountInit, CountInductive, PTL DEF Spec

\* Every FAILED chunk is counted at least once as a failure.
THEOREM FailedCounting == Spec => []FailedCounted
  <1>1. CountInv => FailedCounted
    BY DEF CountInv
  <1> QED
    BY <1>1, CountInit, CountInductive, PTL DEF Spec

-----------------------------------------------------------------------------
(* Speaking: attempts and time *)

EngineNames == {"edge", "google", "silent", "stub"}
AnswerNames == {"failed", "refused", "malformed", "disabled", "spoken"}

\* What is left of the engines while they are asked.
EnginesLeft == {<<"edge">>, <<"edge", "google">>, <<"google">>, <<"silent">>, <<"stub">>}

\* So many failed attempts of edge-tts, and then so many of Google.
Failures(ofEdge, ofGoogle) ==
  [i \in 1 .. ofEdge + ofGoogle |-> <<IF i <= ofEdge THEN "edge" ELSE "google", "failed">>]

\* The time that so many attempts take that are followed by a pause.
Paused(attempts, timeout, pause) == attempts * (timeout + pause)

\* Whatever the engine in use has answered so far is that an attempt failed.
Asking ==
  \/ /\ engines \in {<<"edge">>, <<"edge", "google">>}
     /\ answers = Failures(attempt - 1, 0)
     /\ spent <= Paused(attempt - 1, EdgeTimeout, EdgePause)
  \/ /\ engines = <<"google">>
     /\ answers = Failures(Attempts, attempt - 1)
     /\ spent <= Paused(Attempts - 1, EdgeTimeout, EdgePause) + EdgeTimeout
                   + Paused(attempt - 1, GoogleTimeout, GooglePause)
  \/ /\ engines \in {<<"silent">>, <<"stub">>}
     /\ answers = <<>>
     /\ spent = 0

SpeakTyped ==
  /\ text \in Texts
  /\ engines \in EnginesLeft
  /\ attempt \in 1 .. Attempts
  /\ spent \in Nat
  /\ budget \in Nat

\* The invariant: what was asked before the engine in use, and that what is
\* true when an outcome is there stays true.
AskingInv ==
  /\ SpeakTyped
  /\ IF outcome = "calling" THEN Asking ELSE UsedUpInOrder

\* The constants are numbers.
LEMMA Numbers ==
  /\ Attempts \in Nat /\ Attempts # 0 /\ Attempts - 1 \in Nat
  /\ EdgeTimeout \in Nat /\ GoogleTimeout \in Nat /\ EdgePause \in Nat /\ GooglePause \in Nat
  /\ Budgets \subseteq Nat
  BY SpeakingAssumption

\* One more attempt and its pause.
LEMMA PausedOnce ==
  ASSUME NEW n \in Nat, NEW t \in Nat, NEW p \in Nat
  PROVE  /\ Paused(n, t, p) \in Nat
         /\ Paused(n + 1, t, p) = Paused(n, t, p) + t + p
         /\ n = 0 => Paused(n, t, p) = 0
  BY DEF Paused

\* The longest call is both engines' attempts, each but the last with its pause.
LEMMA LongestIs ==
  /\ \A n \in 0 .. Attempts - 1 :
       Paused(n, EdgeTimeout, EdgePause) <= Paused(Attempts - 1, EdgeTimeout, EdgePause)
  /\ \A n \in 0 .. Attempts - 1 :
       Paused(n, GoogleTimeout, GooglePause) <= Paused(Attempts - 1, GoogleTimeout, GooglePause)
  /\ Paused(Attempts - 1, EdgeTimeout, EdgePause) + EdgeTimeout
       + Paused(Attempts - 1, GoogleTimeout, GooglePause) + GoogleTimeout = LongestCall
  <1> DEFINE m == Attempts - 1
  <1>1. m \in Nat /\ Attempts = m + 1
    BY Numbers
  <1>2. ASSUME NEW n \in 0 .. m, NEW t \in Nat, NEW p \in Nat PROVE Paused(n, t, p) <= Paused(m, t, p)
    <2>1. (m - n) * (t + p) \in Nat /\ m * (t + p) = n * (t + p) + (m - n) * (t + p)
      BY <1>1
    <2>2. n * (t + p) \in Nat /\ m * (t + p) \in Nat
      BY <1>1
    <2> QED
      BY <2>1, <2>2 DEF Paused
  <1>3. Paused(m, EdgeTimeout, EdgePause) + EdgeTimeout
          + Paused(m, GoogleTimeout, GooglePause) + GoogleTimeout = LongestCall
    <2> DEFINE a == m * EdgeTimeout
               b == m * GoogleTimeout
               c == m * EdgePause
               d == m * GooglePause
    <2>1. a \in Nat /\ b \in Nat /\ c \in Nat /\ d \in Nat
      BY <1>1, Numbers
    <2>2. Paused(m, EdgeTimeout, EdgePause) = a + c /\ Paused(m, GoogleTimeout, GooglePause) = b + d
      BY <1>1, Numbers DEF Paused
    <2>3. Attempts * (EdgeTimeout + GoogleTimeout) = a + b + EdgeTimeout + GoogleTimeout
      BY <1>1, Numbers
    <2>4. (Attempts - 1) * (EdgePause + GooglePause) = c + d
      BY <1>1, Numbers
    <2>5. LongestCall = a + b + EdgeTimeout + GoogleTimeout + (c + d)
      BY <2>3, <2>4 DEF LongestCall
    <2> HIDE DEF a, b, c, d, m
    <2> QED
      BY <2>1, <2>2, <2>5, Numbers
  <1> HIDE DEF m
  <1>4. m = Attempts - 1
    BY DEF m
  <1> QED
    BY <1>2, <1>3, <1>4, Numbers

\* One more failed attempt is appended to those there were.
LEMMA FailuresGrow ==
  ASSUME NEW e \in Nat, NEW g \in Nat
  PROVE  /\ Failures(e, g) \in Seq(EngineNames \X AnswerNames) /\ Len(Failures(e, g)) = e + g
         /\ g = 0 => Append(Failures(e, 0), <<"edge", "failed">>) = Failures(e + 1, 0)
         /\ Append(Failures(e, g), <<"google", "failed">>) = Failures(e, g + 1)
  <1>1. e + g \in Nat
    OBVIOUS
  <1>2. Failures(e, g) \in Seq(EngineNames \X AnswerNames) /\ Len(Failures(e, g)) = e + g
    BY <1>1 DEF Failures, EngineNames, AnswerNames
  <1>3. ASSUME g = 0 PROVE Append(Failures(e, 0), <<"edge", "failed">>) = Failures(e + 1, 0)
    BY <1>2, <1>3 DEF Failures
  <1>4. Append(Failures(e, g), <<"google", "failed">>) = Failures(e, g + 1)
    BY <1>2 DEF Failures
  <1> QED
    BY <1>2, <1>3, <1>4

\* What is given after so many failures and one more answer.
Ended(list, e, g, engine, answer) ==
  /\ Len(list) = e + g + 1 /\ DOMAIN list = 1 .. e + g + 1
  /\ list[e + g + 1] = <<engine, answer>> /\ Last(list) = <<engine, answer>>
  /\ \A i \in 1 .. e + g : list[i] = <<IF i <= e THEN "edge" ELSE "google", "failed">>

\* After so many failures the engine's answer is the last.
LEMMA GivenAfter ==
  ASSUME NEW e \in Nat, NEW g \in Nat, NEW engine, NEW answer
  PROVE  Ended(Append(Failures(e, g), <<engine, answer>>), e, g, engine, answer)
  BY FailuresGrow DEF Failures, Last, Ended

\* How often an engine gave an answer.
Times(list, engine, answer) == Cardinality({i \in DOMAIN list : list[i] = <<engine, answer>>})

\* How often each engine has failed in so many failures.
LEMMA TimesFailed ==
  ASSUME NEW e \in Nat, NEW g \in Nat
  PROVE  /\ Times(Failures(e, g), "edge", "failed") = e
         /\ Times(Failures(e, g), "google", "failed") = g
  <1> DEFINE list == Failures(e, g)
  <1>1. DOMAIN list = 1 .. e + g
    BY DEF Failures
  <1>2. {i \in DOMAIN list : list[i] = <<"edge", "failed">>} = 1 .. e
    BY DEF Failures
  <1>3. {i \in DOMAIN list : list[i] = <<"google", "failed">>} = e + 1 .. e + g
    BY DEF Failures
  <1>4. Cardinality(1 .. e) = e /\ Cardinality(e + 1 .. e + g) = g
    <2>1. \A a, b \in Int : Cardinality(a .. b) = IF a > b THEN 0 ELSE b - a + 1
      BY FS_Interval
    <2>2. e + 1 \in Int /\ e + g \in Int
      OBVIOUS
    <2>3. Cardinality(e + 1 .. e + g) = IF e + 1 > e + g THEN 0 ELSE (e + g) - (e + 1) + 1
      BY <2>1, <2>2
    <2> QED
      BY <2>1, <2>3
  <1> QED
    BY <1>2, <1>3, <1>4 DEF Times

\* How often edge-tts has failed, with one answer more.
LEMMA TimesAfter ==
  ASSUME NEW e \in Nat, NEW g \in Nat, NEW engine, NEW answer, answer # "failed",
         NEW list, Ended(list, e, g, engine, answer)
  PROVE  Times(list, "edge", "failed") = e
  <1>1. {i \in DOMAIN list : list[i] = <<"edge", "failed">>} = 1 .. e
    <2>1. DOMAIN list = 1 .. e + g + 1 /\ list[e + g + 1] = <<engine, answer>>
          /\ \A i \in 1 .. e + g : list[i] = <<IF i <= e THEN "edge" ELSE "google", "failed">>
      BY DEF Ended
    <2>2. ASSUME NEW i \in 1 .. e + g + 1 PROVE list[i] = <<"edge", "failed">> <=> i \in 1 .. e
      <3>1. CASE i = e + g + 1
        BY <2>1, <3>1
      <3>2. CASE i \in 1 .. e + g
        BY <2>1, <3>2
      <3> QED
        BY <3>1, <3>2
    <2> QED
      BY <2>1, <2>2
  <1>2. Cardinality(1 .. e) = e
    <2>1. \A a, b \in Int : Cardinality(a .. b) = IF a > b THEN 0 ELSE b - a + 1
      BY FS_Interval
    <2> QED
      BY <2>1
  <1> QED
    BY <1>1, <1>2 DEF Times

\* UsedUpInOrder, of any answers.
UsedUp(list, left, result, time) ==
  /\ (\E i \in DOMAIN list : list[i][1] = "google") => Times(list, "edge", "failed") = Attempts
  /\ \A i \in DOMAIN list : list[i][2] # "failed" => i = Len(list)
  /\ result = "unavailable" =>
       /\ Len(left) = 1
       /\ Last(list)[2] = "refused" \/ Times(list, Head(left), "failed") = Attempts
  /\ result = "cutOff" => time < LongestCall

\* The property, as a formula of the values it is about.
LEMMA UsedUpIs == UsedUpInOrder <=> UsedUp(answers, engines, outcome, budget)
  BY DEF UsedUpInOrder, UsedUp, Given, Times

\* The call ends with an answer that is not a failure.
LEMMA EndsOtherwise ==
  ASSUME NEW e \in Nat, NEW g \in Nat, NEW engine, NEW answer, answer # "failed",
         NEW list, Ended(list, e, g, engine, answer),
         g > 0 \/ engine = "google" => e = Attempts,
         NEW left, NEW time, NEW result, result # "cutOff",
         result = "unavailable" => Len(left) = 1 /\ answer = "refused"
  PROVE  UsedUp(list, left, result, time)
  <1>1. Len(list) = e + g + 1 /\ DOMAIN list = 1 .. e + g + 1
        /\ list[e + g + 1] = <<engine, answer>> /\ Last(list) = <<engine, answer>>
        /\ \A i \in 1 .. e + g : list[i] = <<IF i <= e THEN "edge" ELSE "google", "failed">>
    BY DEF Ended
  <1>2. ASSUME NEW i \in DOMAIN list, list[i][2] # "failed" PROVE i = Len(list)
    <2> SUFFICES ASSUME i \in 1 .. e + g PROVE FALSE
      BY <1>1
    <2> QED
      BY <1>1, <1>2
  <1>3. ASSUME NEW i \in DOMAIN list, list[i][1] = "google" PROVE e = Attempts
    <2>1. CASE i = e + g + 1
      BY <1>1, <1>3, <2>1
    <2>2. CASE i \in 1 .. e + g
      <3>1. list[i][1] = IF i <= e THEN "edge" ELSE "google"
        BY <1>1, <2>2
      <3> QED
        BY <1>3, <2>2, <3>1
    <2> QED
      BY <1>1, <2>1, <2>2
  <1>4. Times(list, "edge", "failed") = e
    BY TimesAfter
  <1>5. Last(list)[2] = answer
    BY <1>1
  <1> QED
    BY <1>2, <1>3, <1>4, <1>5 DEF UsedUp

\* The call ends with the last failure there can be.
LEMMA EndsFailing ==
  ASSUME NEW g \in {0, Attempts}, NEW left, left = <<IF g = 0 THEN "edge" ELSE "google">>,
         NEW time, NEW result, result # "cutOff"
  PROVE  UsedUp(Failures(Attempts, g), left, result, time)
  <1> DEFINE list == Failures(Attempts, g)
  <1>1. Attempts \in Nat /\ g \in Nat
    BY Numbers
  <1>2. Times(list, "edge", "failed") = Attempts /\ Times(list, "google", "failed") = g
    BY <1>1, TimesFailed
  <1>3. \A i \in DOMAIN list : list[i][2] = "failed"
    BY <1>1 DEF Failures
  <1>4. Len(left) = 1 /\ Times(list, Head(left), "failed") = Attempts
    <2>1. Head(left) = IF g = 0 THEN "edge" ELSE "google"
      OBVIOUS
    <2> QED
      BY <1>2, <2>1
  <1> QED
    BY <1>2, <1>3, <1>4 DEF UsedUp

\* An attempt of an engine fails that is not the last one.
LEMMA FailsAgain ==
  ASSUME AskingInv, AttemptFails, attempt < Attempts
  PROVE  AskingInv'
  <1>1. SpeakTyped /\ outcome = "calling" /\ Asking
    BY DEF AskingInv, AttemptFails, Uses
  <1>2. PICK time \in {0, TimeoutOf(Head(engines))} :
          /\ attempt' = attempt + 1 /\ spent' = spent + time + PauseOf(Head(engines))
          /\ UNCHANGED <<engines, outcome, text, budget>>
          /\ answers' = Append(answers, <<Head(engines), "failed">>)
    BY DEF AttemptFails, Answers
  <1> DEFINE k == attempt - 1
  <1>3. k \in Nat /\ attempt = k + 1 /\ attempt' - 1 = k + 1 /\ attempt' \in 1 .. Attempts /\ spent \in Nat
    BY <1>1, <1>2, Numbers DEF SpeakTyped
  <1> HIDE DEF k
  <1>4. CASE engines \in {<<"edge">>, <<"edge", "google">>}
    <2>1. Head(engines) = "edge" /\ engines # <<"google">> /\ engines \notin {<<"silent">>, <<"stub">>}
      BY <1>4
    <2>2. answers = Failures(k, 0) /\ spent <= Paused(k, EdgeTimeout, EdgePause)
      BY <1>1, <1>3, <2>1 DEF Asking
    <2>3. time \in Nat /\ time <= EdgeTimeout /\ PauseOf(Head(engines)) = EdgePause
      BY <2>1, Numbers DEF TimeoutOf, PauseOf
    <2>4. answers' = Failures(k + 1, 0)
      BY <1>2, <1>3, <2>1, <2>2, FailuresGrow
    <2>5. Paused(k + 1, EdgeTimeout, EdgePause) = Paused(k, EdgeTimeout, EdgePause) + EdgeTimeout + EdgePause
          /\ Paused(k, EdgeTimeout, EdgePause) \in Nat
      BY <1>3, Numbers, PausedOnce
    <2>6. spent' \in Nat /\ spent' <= Paused(k + 1, EdgeTimeout, EdgePause)
      BY <1>2, <1>3, <2>2, <2>3, <2>5, Numbers
    <2> QED
      BY <1>1, <1>2, <1>3, <1>4, <2>4, <2>6 DEF AskingInv, Asking, SpeakTyped
  <1>5. CASE engines = <<"google">>
    <2>1. Head(engines) = "google" /\ engines \notin {<<"edge">>, <<"edge", "google">>}
          /\ engines \notin {<<"silent">>, <<"stub">>}
      BY <1>5
    <2> DEFINE before == Paused(Attempts - 1, EdgeTimeout, EdgePause) + EdgeTimeout
    <2>2. answers = Failures(Attempts, k) /\ spent <= before + Paused(k, GoogleTimeout, GooglePause)
      BY <1>1, <1>3, <2>1 DEF Asking
    <2>3. time \in Nat /\ time <= GoogleTimeout /\ PauseOf(Head(engines)) = GooglePause
      BY <2>1, Numbers DEF TimeoutOf, PauseOf
    <2>4. answers' = Failures(Attempts, k + 1)
      BY <1>2, <1>3, <2>1, <2>2, FailuresGrow, Numbers
    <2>5. Paused(k + 1, GoogleTimeout, GooglePause)
            = Paused(k, GoogleTimeout, GooglePause) + GoogleTimeout + GooglePause
          /\ Paused(k, GoogleTimeout, GooglePause) \in Nat
      BY <1>3, Numbers, PausedOnce
    <2>6. before \in Nat
      <3>1. Paused(Attempts - 1, EdgeTimeout, EdgePause) \in Nat
        BY Numbers, PausedOnce
      <3> QED
        BY <3>1, Numbers
    <2> HIDE DEF before
    <2>7. spent' \in Nat /\ spent' <= before + Paused(k + 1, GoogleTimeout, GooglePause)
      BY <1>2, <1>3, <2>2, <2>3, <2>5, <2>6, Numbers
    <2> QED
      BY <1>1, <1>2, <1>3, <1>5, <2>4, <2>7 DEF AskingInv, Asking, SpeakTyped, before
  <1>6. CASE engines \in {<<"silent">>, <<"stub">>}
    <2>1. Head(engines) \notin {"edge", "google"}
      BY <1>6
    <2> QED
      BY <2>1 DEF AttemptFails, Uses
  <1> QED
    BY <1>1, <1>4, <1>5, <1>6 DEF Asking

\* What the engine in use has answered, counted, and that its attempt is within
\* the longest call.
LEMMA AskingCounted ==
  ASSUME AskingInv, outcome = "calling"
  PROVE  \E e \in Nat, g \in Nat :
           /\ answers = Failures(e, g)
           /\ g > 0 \/ Head(engines) = "google" => e = Attempts
           /\ Head(engines) = "edge" => e = attempt - 1 /\ g = 0 /\ spent + AttemptTime <= LongestCall
           /\ Head(engines) = "google" =>
                engines = <<"google">> /\ g = attempt - 1 /\ spent + AttemptTime <= LongestCall
  <1>1. SpeakTyped /\ Asking /\ spent \in Nat
    BY DEF AskingInv, SpeakTyped
  <1> DEFINE k == attempt - 1
             a == Paused(Attempts - 1, EdgeTimeout, EdgePause)
             b == Paused(Attempts - 1, GoogleTimeout, GooglePause)
  <1>2. k \in 0 .. Attempts - 1 /\ k \in Nat
    BY <1>1, Numbers DEF SpeakTyped
  <1>3. /\ a \in Nat /\ b \in Nat /\ a + EdgeTimeout + b + GoogleTimeout = LongestCall
        /\ \A n \in 0 .. Attempts - 1 :
             /\ Paused(n, EdgeTimeout, EdgePause) <= a
             /\ Paused(n, GoogleTimeout, GooglePause) <= b
    BY Numbers, PausedOnce, LongestIs
  <1>p. /\ Paused(k, EdgeTimeout, EdgePause) \in Nat
        /\ Paused(k, GoogleTimeout, GooglePause) \in Nat
        /\ Paused(k + 1, EdgeTimeout, EdgePause) = Paused(k, EdgeTimeout, EdgePause) + EdgeTimeout + EdgePause
        /\ Paused(k + 1, GoogleTimeout, GooglePause)
             = Paused(k, GoogleTimeout, GooglePause) + GoogleTimeout + GooglePause
    BY <1>2, Numbers, PausedOnce
  <1>q. attempt < Attempts => k + 1 \in 0 .. Attempts - 1
    BY <1>1, <1>2, Numbers DEF SpeakTyped
  <1> HIDE DEF a, b
  <1>4. CASE engines \in {<<"edge">>, <<"edge", "google">>}
    <2>1. Head(engines) = "edge" /\ engines # <<"google">> /\ engines \notin {<<"silent">>, <<"stub">>}
      BY <1>4
    <2>2. answers = Failures(k, 0) /\ spent <= Paused(k, EdgeTimeout, EdgePause)
      BY <1>1, <2>1 DEF Asking
    <2>3. AttemptTime = EdgeTimeout + (IF attempt < Attempts THEN EdgePause ELSE 0)
      BY <2>1 DEF AttemptTime, TimeoutOf, PauseOf
    <2> HIDE DEF k
    <2>4. spent + AttemptTime <= a + EdgeTimeout
      <3>1. CASE attempt < Attempts
        <4>1. Paused(k + 1, EdgeTimeout, EdgePause) <= a
          BY <1>3, <1>q, <3>1
        <4>2. AttemptTime = EdgeTimeout + EdgePause
          BY <2>3, <3>1
        <4> QED
          BY <1>1, <1>3, <1>p, <2>2, <4>1, <4>2, Numbers
      <3>2. CASE ~(attempt < Attempts)
        <4>1. Paused(k, EdgeTimeout, EdgePause) <= a
          BY <1>2, <1>3
        <4>2. AttemptTime = EdgeTimeout
          BY <2>3, <3>2, Numbers
        <4> QED
          BY <1>1, <1>3, <1>p, <2>2, <4>1, <4>2, Numbers
      <3> QED
        BY <3>1, <3>2
    <2>5. AttemptTime \in Nat
      BY <2>3, Numbers
    <2>6. spent + AttemptTime <= LongestCall
      BY <1>1, <1>3, <2>4, <2>5, Numbers
    <2>7. k = attempt - 1
      BY DEF k
    <2> QED
      BY <1>2, <2>1, <2>2, <2>6, <2>7, 0 \in Nat
  <1>5. CASE engines = <<"google">>
    <2>1. Head(engines) = "google" /\ engines \notin {<<"edge">>, <<"edge", "google">>}
          /\ engines \notin {<<"silent">>, <<"stub">>}
      BY <1>5
    <2>2. answers = Failures(Attempts, k) /\ spent <= a + EdgeTimeout + Paused(k, GoogleTimeout, GooglePause)
      BY <1>1, <2>1 DEF Asking, a
    <2>3. AttemptTime = GoogleTimeout + (IF attempt < Attempts THEN GooglePause ELSE 0)
      BY <2>1 DEF AttemptTime, TimeoutOf, PauseOf
    <2> HIDE DEF k
    <2>4. spent + AttemptTime <= a + EdgeTimeout + b + GoogleTimeout
      <3>1. CASE attempt < Attempts
        <4>1. Paused(k + 1, GoogleTimeout, GooglePause) <= b
          BY <1>3, <1>q, <3>1
        <4>2. AttemptTime = GoogleTimeout + GooglePause
          BY <2>3, <3>1
        <4> QED
          BY <1>1, <1>3, <1>p, <2>2, <4>1, <4>2, Numbers
      <3>2. CASE ~(attempt < Attempts)
        <4>1. Paused(k, GoogleTimeout, GooglePause) <= b
          BY <1>2, <1>3
        <4>2. AttemptTime = GoogleTimeout
          BY <2>3, <3>2, Numbers
        <4> QED
          BY <1>1, <1>3, <1>p, <2>2, <4>1, <4>2, Numbers
      <3> QED
        BY <3>1, <3>2
    <2>5. k = attempt - 1
      BY DEF k
    <2> QED
      BY <1>2, <1>3, <1>5, <2>1, <2>2, <2>4, <2>5, Numbers
  <1>6. CASE engines \in {<<"silent">>, <<"stub">>}
    <2>1. Head(engines) \notin {"edge", "google"} /\ engines # <<"google">>
          /\ engines \notin {<<"edge">>, <<"edge", "google">>}
      BY <1>6
    <2>2. answers = <<>>
      BY <1>1, <2>1 DEF Asking
    <2>3. Failures(0, 0) = <<>>
      BY DEF Failures
    <2> QED
      BY <2>1, <2>2, <2>3, 0 \in Nat
  <1> QED
    BY <1>1, <1>4, <1>5, <1>6 DEF Asking

\* The last attempt of an engine fails.
LEMMA FailsLast ==
  ASSUME AskingInv, AttemptFails, ~(attempt < Attempts)
  PROVE  AskingInv'
  <1>1. SpeakTyped /\ outcome = "calling" /\ Asking /\ attempt = Attempts
        /\ Head(engines) \in {"edge", "google"}
    BY Numbers DEF AskingInv, AttemptFails, Uses, SpeakTyped
  <1>2. PICK time \in {0, TimeoutOf(Head(engines))} :
          /\ spent' = spent + time /\ GiveUp("unavailable") /\ UNCHANGED <<text, budget>>
          /\ answers' = Append(answers, <<Head(engines), "failed">>)
    BY <1>1 DEF AttemptFails, Answers
  <1>3. PICK e \in Nat, g \in Nat :
           /\ answers = Failures(e, g)
           /\ g > 0 \/ Head(engines) = "google" => e = Attempts
           /\ Head(engines) = "edge" => e = attempt - 1 /\ g = 0
           /\ Head(engines) = "google" => engines = <<"google">> /\ g = attempt - 1
    BY <1>1, AskingCounted
  <1>4. CASE engines = <<"edge", "google">>
    <2>1. Head(engines) = "edge" /\ Len(engines) = 2 /\ Tail(engines) = <<"google">>
          /\ engines # <<"google">> /\ engines \notin {<<"silent">>, <<"stub">>}
      BY <1>4
    <2>2. engines' = <<"google">> /\ attempt' = 1 /\ outcome' = "calling"
      <3>1. GiveUp("unavailable") /\ Len(engines) > 1 /\ outcome = "calling"
        BY <1>1, <1>2, <2>1
      <3> QED
        BY <2>1, <3>1 DEF GiveUp
    <2>3. answers' = Failures(Attempts, 0)
      <3>1. answers' = Append(Failures(e, 0), <<"edge", "failed">>) /\ e + 1 = Attempts
        BY <1>1, <1>2, <1>3, <2>1, Numbers
      <3> QED
        BY <3>1, FailuresGrow
    <2>4. time \in Nat /\ time <= EdgeTimeout
      BY <2>1, Numbers DEF TimeoutOf
    <2>5. spent <= Paused(Attempts - 1, EdgeTimeout, EdgePause) /\ spent \in Nat
      BY <1>1, <2>1 DEF Asking, SpeakTyped
    <2>6. Paused(Attempts - 1, EdgeTimeout, EdgePause) \in Nat /\ Paused(0, GoogleTimeout, GooglePause) = 0
      BY Numbers, PausedOnce, 0 \in Nat
    <2>7. spent' \in Nat /\ spent' <= Paused(Attempts - 1, EdgeTimeout, EdgePause) + EdgeTimeout
                                        + Paused(0, GoogleTimeout, GooglePause)
      BY <1>2, <2>4, <2>5, <2>6, Numbers
    <2> QED
      BY <1>1, <1>2, <2>2, <2>3, <2>7, Numbers DEF AskingInv, Asking, SpeakTyped, EnginesLeft
  <1>5. CASE Len(engines) = 1
    <2>1. engines = <<Head(engines)>>
      BY <1>1, <1>5 DEF Asking
    <2>2. outcome' = "unavailable" /\ engines' = engines /\ attempt' = attempt
      BY <1>2, <1>5 DEF GiveUp
    <2>3. spent' \in Nat
      BY <1>1, <1>2, Numbers DEF TimeoutOf, SpeakTyped
    <2> DEFINE h == IF Head(engines) = "edge" THEN 0 ELSE Attempts
    <2>4. answers' = Failures(Attempts, h)
      <3>1. CASE Head(engines) = "edge"
        <4>1. answers' = Append(Failures(e, 0), <<"edge", "failed">>) /\ e + 1 = Attempts /\ h = 0
          BY <1>1, <1>2, <1>3, <3>1, Numbers
        <4> QED
          BY <4>1, FailuresGrow
      <3>2. CASE Head(engines) = "google"
        <4>1. answers' = Append(Failures(Attempts, g), <<"google", "failed">>) /\ g + 1 = Attempts /\ h = Attempts
          BY <1>1, <1>2, <1>3, <3>2, Numbers
        <4> QED
          BY <4>1, FailuresGrow, Numbers
      <3> QED
        BY <1>1, <3>1, <3>2
    <2>5. h \in {0, Attempts} /\ engines' = <<IF h = 0 THEN "edge" ELSE "google">>
      BY <1>1, <2>1, <2>2, Numbers
    <2> HIDE DEF h
    <2>6. UsedUp(Failures(Attempts, h), engines', outcome', budget')
      BY <2>2, <2>5, EndsFailing
    <2>7. UsedUpInOrder'
      <3>1. (UsedUpInOrder <=> UsedUp(answers, engines, outcome, budget))'
        BY UsedUpIs, PTL
      <3> QED
        BY <2>4, <2>6, <3>1
    <2> QED
      BY <1>1, <1>2, <2>2, <2>3, <2>7 DEF AskingInv, SpeakTyped
  <1> QED
    BY <1>1, <1>4, <1>5 DEF Asking

\* The call ends with another answer of the engine in use.
LEMMA EndsNow ==
  ASSUME AskingInv, outcome = "calling", NEW answer, answer # "failed",
         answers' = Append(answers, <<Head(engines), answer>>),
         UNCHANGED <<text, engines, attempt, spent, budget>>, outcome' \notin {"calling", "cutOff"},
         outcome' = "unavailable" => Len(engines) = 1 /\ answer = "refused"
  PROVE  AskingInv'
  <1>1. PICK e \in Nat, g \in Nat :
           /\ answers = Failures(e, g)
           /\ g > 0 \/ Head(engines) = "google" => e = Attempts
    BY AskingCounted
  <1>2. Ended(answers', e, g, Head(engines), answer)
    BY <1>1, GivenAfter
  <1>3. UsedUp(answers', engines, outcome', budget)
    BY <1>1, <1>2, EndsOtherwise
  <1>4. (UsedUpInOrder <=> UsedUp(answers, engines, outcome, budget))'
    BY UsedUpIs, PTL
  <1> QED
    BY <1>3, <1>4 DEF AskingInv, SpeakTyped

\* What was asked was asked in order.
LEMMA OrderedSoFar ==
  ASSUME AskingInv, outcome = "calling", NEW result, result # "unavailable", NEW time,
         result = "cutOff" => time < LongestCall
  PROVE  UsedUp(answers, engines, result, time)
  <1>1. PICK e \in Nat, g \in Nat :
           /\ answers = Failures(e, g)
           /\ g > 0 \/ Head(engines) = "google" => e = Attempts
    BY AskingCounted
  <1>2. Times(answers, "edge", "failed") = e
    BY <1>1, TimesFailed
  <1>3. \A i \in DOMAIN answers : answers[i][2] = "failed" /\ (answers[i][1] = "google" => g > 0)
    BY <1>1 DEF Failures
  <1> QED
    BY <1>1, <1>2, <1>3 DEF UsedUp

\* The Lambda is killed in an attempt or in the pause after it: the call was
\* not given the time of the longest one.
LEMMA EndsEarly ==
  ASSUME AskingInv, CutOff
  PROVE  AskingInv'
  <1>1. outcome = "calling" /\ Head(engines) \in {"edge", "google"} /\ outcome' = "cutOff"
        /\ UNCHANGED <<text, engines, attempt, budget, spent, answers>>
    BY DEF CutOff, Uses
  <1>2. spent + AttemptTime > budget /\ spent \in Nat /\ budget \in Nat /\ SpeakTyped
    BY DEF CutOff, AskingInv, SpeakTyped
  <1>3. spent + AttemptTime <= LongestCall
    BY <1>1, AskingCounted
  <1>4. AttemptTime \in Nat /\ LongestCall \in Nat
    <2>1. AttemptTime \in Nat
      BY Numbers DEF AttemptTime, TimeoutOf, PauseOf
    <2>2. LongestCall \in Nat
      <3>1. Attempts * (EdgeTimeout + GoogleTimeout) \in Nat
        BY Numbers
      <3>2. (Attempts - 1) * (EdgePause + GooglePause) \in Nat
        BY Numbers
      <3> QED
        BY <3>1, <3>2 DEF LongestCall
    <2> QED
      BY <2>1, <2>2
  <1>5. budget < LongestCall
    BY <1>2, <1>3, <1>4
  <1>6. UsedUp(answers, engines, "cutOff", budget)
    BY <1>1, <1>5, OrderedSoFar
  <1>7. (UsedUpInOrder <=> UsedUp(answers, engines, outcome, budget))'
    BY UsedUpIs, PTL
  <1> QED
    BY <1>1, <1>2, <1>6, <1>7 DEF AskingInv, SpeakTyped

\* Nothing has been asked at first.
LEMMA AskingInit == SpeakInit => AskingInv
  <1> SUFFICES ASSUME SpeakInit PROVE AskingInv
    OBVIOUS
  <1>1. engines \in {<<"edge">>, <<"edge", "google">>, <<"silent">>, <<"stub">>}
    BY DEF SpeakInit, SpeechSynthesizer
  <1>2. SpeakTyped
    BY <1>1, Numbers DEF SpeakTyped, SpeakInit, EnginesLeft
  <1>3. outcome = "calling" /\ spent = 0 /\ answers = <<>> /\ attempt = 1
    BY DEF SpeakInit
  <1>4. Failures(attempt - 1, 0) = <<>>
    BY <1>3 DEF Failures
  <1>5. Paused(0, EdgeTimeout, EdgePause) = 0
    BY Numbers, PausedOnce, 0 \in Nat
  <1> QED
    BY <1>1, <1>2, <1>3, <1>4, <1>5 DEF AskingInv, Asking

\* Every step keeps the invariant.
LEMMA AskingStep == AskingInv /\ [SpeakNext]_speakVars => AskingInv'
  <1> SUFFICES ASSUME AskingInv, [SpeakNext]_speakVars PROVE AskingInv'
    OBVIOUS
  <1>1. CASE AttemptFails
    BY <1>1, FailsAgain, FailsLast
  <1>2. CASE GoogleRefuses \/ GoogleMalformed \/ StubDisabled
    <2>1. outcome = "calling" /\ Head(engines) \in {"google", "stub"} /\ Asking
      BY <1>2 DEF GoogleRefuses, GoogleMalformed, StubDisabled, Uses, AskingInv
    <2>2. Len(engines) = 1
      BY <2>1 DEF Asking
    <2>3. /\ \E answer \in {"refused", "malformed", "disabled"} :
               /\ answers' = Append(answers, <<Head(engines), answer>>)
               /\ outcome' = IF answer = "refused" THEN "unavailable"
                             ELSE IF answer = "malformed" THEN "raised" ELSE "disabled"
          /\ UNCHANGED <<text, engines, attempt, spent, budget>>
      BY <1>2, <2>2 DEF GoogleRefuses, GoogleMalformed, StubDisabled, Answers, GiveUp
    <2> QED
      BY <2>1, <2>2, <2>3, EndsNow
  <1>3. CASE EdgeSpeaks \/ GoogleSpeaks \/ SilentSpeaks
    <2>1. outcome = "calling"
      BY <1>3 DEF EdgeSpeaks, GoogleSpeaks, SilentSpeaks, Uses
    <2>2. /\ answers' = Append(answers, <<Head(engines), "spoken">>)
          /\ outcome' = "spoken"
          /\ UNCHANGED <<text, engines, attempt, spent, budget>>
      BY <1>3 DEF EdgeSpeaks, GoogleSpeaks, SilentSpeaks, Speaks, Answers
    <2> QED
      BY <2>1, <2>2, EndsNow
  <1>4. CASE UNCHANGED speakVars
    <2>1. UNCHANGED <<text, engines, attempt, spent, budget, outcome, answers>>
      BY <1>4 DEF speakVars
    <2> QED
      BY <2>1 DEF AskingInv, SpeakTyped, Asking, UsedUpInOrder, Given
  <1>5. CASE CutOff
    BY <1>5, EndsEarly
  <1> QED
    BY <1>1, <1>2, <1>3, <1>4, <1>5 DEF SpeakNext

\* Google is asked only after every attempt of edge-tts failed, what was refused
\* is not asked again, the caller gets "unavailable" only when every engine was
\* used up, and a call in which the Lambda is killed began with less time than
\* all the attempts may take, whatever time it began with
\* (fallback_synthesizer.py and the attempts of the two engines).
THEOREM EnginesUsedUpInOrder == SpeakSpec => []UsedUpInOrder
  <1>1. AskingInv => UsedUpInOrder
    <2> SUFFICES ASSUME AskingInv, outcome = "calling" PROVE UsedUpInOrder
      BY DEF AskingInv
    <2> QED
      BY OrderedSoFar, UsedUpIs
  <1> QED
    BY <1>1, AskingInit, AskingStep, PTL DEF SpeakSpec

-----------------------------------------------------------------------------
(* Speaking: the words of a text *)

AllWords(t) == {w \in (0 .. Len(t)) \X (0 .. Len(t)) : IsWord(t, w[1], w[2])}
ByStart(S) == {p \in S \X S : p[1][1] < p[2][1]}

\* What the tokenizer yields: every word once and in order, and between two
\* of them nothing but spaces.
Wording(t, words) ==
  /\ words \in Seq(Nat \X Nat)
  /\ \A i \in 1 .. Len(words) : words[i][1] < words[i][2] /\ words[i][2] <= Len(t)
  /\ \A i \in 1 .. Len(words) : IsWord(t, words[i][1], words[i][2])
  /\ \A i, j \in 1 .. Len(words) : i < j => words[i][2] < words[j][1]
  /\ \A i \in 1 .. Len(words) :
       \A p \in (IF i = 1 THEN 0 ELSE words[i - 1][2]) + 1 .. words[i][1] : t[p] = Space

\* No two words begin at one place, so that their begins order them.
LEMMA WordsOrdered ==
  ASSUME NEW t, Len(t) \in Nat
  PROVE  IsFiniteSet(AllWords(t)) /\ Ordering(ByStart(AllWords(t)), AllWords(t))
  <1> DEFINE W == AllWords(t)
  <1>1. IsFiniteSet(W)
    <2>1. IsFiniteSet(0 .. Len(t))
      BY FS_Interval
    <2>2. IsFiniteSet((0 .. Len(t)) \X (0 .. Len(t)))
      BY <2>1, FS_Product
    <2>3. W \in SUBSET ((0 .. Len(t)) \X (0 .. Len(t)))
      BY DEF AllWords
    <2> QED
      BY <2>2, <2>3, FS_Subset
  <1>2. \A v \in W : /\ v = <<v[1], v[2]>> /\ v[1] \in Nat /\ v[2] \in Nat /\ v[2] <= Len(t)
                     /\ IsWord(t, v[1], v[2])
    BY DEF AllWords
  <1>3. ASSUME NEW v \in W, NEW w \in W, v[1] = w[1], v[2] < w[2] PROVE FALSE
    <2>1. v[2] < Len(t) /\ v[2] + 1 \in w[1] + 1 .. w[2] /\ v[1] < v[2]
      BY <1>2, <1>3 DEF IsWord
    <2> QED
      BY <1>2, <2>1 DEF IsWord
  <1>4. ASSUME NEW v \in W, NEW w \in W, v # w PROVE v[1] < w[1] \/ w[1] < v[1]
    <2> SUFFICES ASSUME v[1] = w[1] PROVE FALSE
      BY <1>2
    <2>1. v[2] # w[2]
      BY <1>2, <1>4
    <2>2. v[2] < w[2] \/ w[2] < v[2]
      BY <1>2, <2>1
    <2> QED
      BY <1>3, <2>2
  <1>5. \A v, w \in W : <<v, w>> \in ByStart(W) <=> v[1] < w[1]
    BY DEF ByStart
  <1> HIDE DEF W
  <1>6. Ordering(ByStart(W), W)
    BY <1>2, <1>4, <1>5 DEF Ordering
  <1> QED
    BY <1>1, <1>6 DEF W

\* A letter is in a word.
LEMMA LetterInWord ==
  ASSUME NEW t, Len(t) \in Nat, NEW p \in 1 .. Len(t), t[p] # Space
  PROVE  \E w \in AllWords(t) : w[1] < p /\ p <= w[2]
  <1> DEFINE A == {q \in 0 .. p - 1 : q = 0 \/ t[q] = Space}
             B == {q \in p .. Len(t) : q = Len(t) \/ t[q + 1] = Space}
  <1>1. PICK a \in A : \A q \in A : q <= a
    <2>1. 0 \in A /\ A \subseteq 0 .. p - 1 /\ A \subseteq Nat
      OBVIOUS
    <2>2. IsFiniteSet(A)
      <3>1. 0 \in Int /\ p - 1 \in Int
        OBVIOUS
      <3>2. IsFiniteSet(0 .. p - 1)
        BY <3>1, FS_Interval
      <3> QED
        BY <2>1, <3>2, FS_Subset
    <2> HIDE DEF A
    <2> QED
      BY <2>1, <2>2, GreatestNatural
  <1>2. PICK b \in B : \A q \in B : b <= q
    <2>1. Len(t) \in B /\ B \subseteq Nat
      OBVIOUS
    <2> HIDE DEF B
    <2> QED
      BY <2>1, LeastNatural
  <1>3. a \in Nat /\ b \in Nat /\ a < p /\ p <= b /\ b <= Len(t) /\ p \in Nat
    OBVIOUS
  <1>4. ASSUME NEW i \in a + 1 .. b PROVE t[i] # Space
    <2>1. CASE i < p
      <3>1. i \in 0 .. p - 1 /\ ~(i <= a)
        BY <1>3, <2>1
      <3> QED
        BY <1>1, <3>1
    <2>2. CASE i > p
      <3>1. i - 1 \in p .. Len(t) /\ ~(b <= i - 1) /\ (i - 1) + 1 = i
        BY <1>3, <2>2
      <3> QED
        BY <1>2, <3>1
    <2>3. CASE i = p
      BY <2>3
    <2> QED
      BY <1>3, <2>1, <2>2, <2>3
  <1>5. a > 0 => t[a] = Space
    BY <1>1
  <1>6. b < Len(t) => t[b + 1] = Space
    BY <1>2, <1>3
  <1>7. IsWord(t, a, b)
    BY <1>3, <1>4, <1>5, <1>6 DEF IsWord
  <1>8. <<a, b>> \in AllWords(t)
    BY <1>3, <1>7 DEF AllWords
  <1> QED
    BY <1>3, <1>8

\* What the tokenizer yields is a wording of the text.
LEMMA WordsInOrder ==
  ASSUME NEW t, Len(t) \in Nat
  PROVE  Wording(t, IterWords(t))
  <1> DEFINE W == AllWords(t)
             n == Cardinality(W)
             words == IterWords(t)
  <1>1. IsFiniteSet(W) /\ Ordering(ByStart(W), W)
    BY WordsOrdered
  <1>2. \A v, w \in W : <<v, w>> \in ByStart(W) <=> v[1] < w[1]
    BY DEF ByStart
  <1>3. words = CHOOSE s \in [1 .. n -> W] : \A i, j \in DOMAIN s : i < j => s[i][1] < s[j][1]
    BY DEF IterWords, InOrder, AllWords
  <1>4. \A s \in [1 .. n -> W] :
          Along(s, n, ByStart(W)) <=> \A i, j \in DOMAIN s : i < j => s[i][1] < s[j][1]
    <2> SUFFICES ASSUME NEW s \in [1 .. n -> W]
                 PROVE  Along(s, n, ByStart(W)) <=> \A i, j \in 1 .. n : i < j => s[i][1] < s[j][1]
      OBVIOUS
    <2>1. \A i, j \in 1 .. n : <<s[i], s[j]>> \in ByStart(W) <=> s[i][1] < s[j][1]
      BY <1>2
    <2> QED
      BY <2>1 DEF Along
  <1> HIDE DEF words, n
  <1>5. \E s \in [1 .. n -> W] : Along(s, n, ByStart(W))
    BY <1>1, SortingExists DEF n
  <1>6. words \in [1 .. n -> W] /\ Along(words, n, ByStart(W))
    BY <1>3, <1>4, <1>5
  <1>7. /\ n \in Nat /\ words \in Seq(W) /\ Len(words) = n
        /\ \A x \in W : \E i \in 1 .. n : words[i] = x
        /\ \A i, j \in 1 .. n : <<words[i], words[j]>> \in ByStart(W) => i < j
    BY <1>1, <1>6, SortedIsWhole DEF n
  <1>8. \A w \in W : /\ w \in Nat \X Nat /\ w[1] \in Nat /\ w[2] \in Nat /\ w[1] < w[2] /\ w[2] <= Len(t)
                     /\ IsWord(t, w[1], w[2])
    BY DEF AllWords, IsWord
  <1> HIDE DEF W
  <1>9. \A i \in 1 .. n : words[i] \in W
    BY <1>6
  <1>10. ASSUME NEW i \in 1 .. n, NEW j \in 1 .. n, i < j PROVE words[i][2] < words[j][1]
    <2>1. words[i][1] < words[j][1]
      BY <1>2, <1>6, <1>9, <1>10 DEF Along
    <2> SUFFICES ASSUME words[j][1] <= words[i][2] PROVE FALSE
      BY <1>8, <1>9
    <2>2. words[j][1] \in words[i][1] + 1 .. words[i][2] /\ words[j][1] > 0
      BY <1>8, <1>9, <2>1
    <2> QED
      BY <1>8, <1>9, <2>2 DEF IsWord
  <1>11. ASSUME NEW i \in 1 .. n, NEW p \in (IF i = 1 THEN 0 ELSE words[i - 1][2]) + 1 .. words[i][1],
                t[p] # Space
         PROVE  FALSE
    <2>1. i # 1 => i - 1 \in 1 .. n
      BY <1>7
    <2>2. p \in 1 .. Len(t) /\ p <= words[i][1]
      BY <1>8, <1>9, <2>1
    <2>3. PICK w \in W : w[1] < p /\ p <= w[2]
      BY <1>11, <2>2, LetterInWord DEF W
    <2>4. PICK k \in 1 .. n : words[k] = w
      BY <1>7
    <2>5. w[1] < words[i][1]
      BY <1>8, <1>9, <2>2, <2>3
    <2>6. k < i
      BY <1>2, <1>7, <1>9, <2>4, <2>5
    <2>7. i # 1 /\ (k = i - 1 \/ k < i - 1)
      BY <1>7, <2>6
    <2>8. words[k][2] <= words[i - 1][2]
      BY <1>8, <1>9, <1>10, <2>1, <2>7
    <2> QED
      BY <1>8, <1>9, <2>1, <2>3, <2>4, <2>7, <2>8
  <1>12. words \in Seq(Nat \X Nat)
    BY <1>6, <1>7, <1>8
  <1>13. \A i \in 1 .. n : words[i][1] < words[i][2] /\ words[i][2] <= Len(t)
    BY <1>8, <1>9
  <1>14. \A i \in 1 .. n : IsWord(t, words[i][1], words[i][2])
    BY <1>8, <1>9
  <1>15. \A i \in 1 .. n :
           \A p \in (IF i = 1 THEN 0 ELSE words[i - 1][2]) + 1 .. words[i][1] : t[p] = Space
    BY <1>11
  <1> QED
    BY <1>7, <1>10, <1>12, <1>13, <1>14, <1>15 DEF Wording, words

-----------------------------------------------------------------------------
(* Speaking: the words an engine reports, one after the other *)

Aligned == [cursor : Nat, spans : Seq(Nat \X Nat)]
NoneAligned == [cursor |-> 0, spans |-> <<>>]

\* A word is put at the cursor or after it.
LEMMA PlaceFound ==
  ASSUME NEW t, Len(t) \in Nat, NEW word, Len(word) \in Nat, NEW cursor \in Nat
  PROVE  PlaceOf(t, word, cursor) \in Nat /\ cursor <= PlaceOf(t, word, cursor)
  <1> DEFINE hits == Hits(t, word, cursor)
  <1>1. hits \subseteq Nat /\ \A p \in hits : cursor <= p
    BY DEF Hits
  <1> HIDE DEF hits
  <1>2. CASE hits # {}
    <2>1. \E p \in hits : \A q \in hits : p <= q
      BY <1>1, <1>2, LeastNatural
    <2>2. Min(hits) \in hits
      BY <2>1 DEF Min
    <2> QED
      BY <1>1, <2>2 DEF PlaceOf, hits
  <1>3. CASE hits = {}
    BY <1>3 DEF PlaceOf, hits
  <1> QED
    BY <1>2, <1>3

\* What aligning one more word leaves.
LEMMA AlignTyped ==
  ASSUME NEW t, Len(t) \in Nat, NEW word, Len(word) \in Nat, NEW aligned \in Aligned
  PROVE  /\ Align(t, aligned, word) \in Aligned
         /\ Align(t, aligned, word).cursor = PlaceOf(t, word, aligned.cursor) + Len(word)
         /\ Align(t, aligned, word).spans
              = Append(aligned.spans, <<PlaceOf(t, word, aligned.cursor),
                                        PlaceOf(t, word, aligned.cursor) + Len(word)>>)
  <1> DEFINE place == PlaceOf(t, word, aligned.cursor)
  <1>1. aligned.cursor \in Nat /\ aligned.spans \in Seq(Nat \X Nat)
    BY DEF Aligned
  <1>2. place \in Nat
    BY <1>1, PlaceFound
  <1>3. Align(t, aligned, word) = [cursor |-> place + Len(word),
                                   spans |-> Append(aligned.spans, <<place, place + Len(word)>>)]
    BY DEF Align
  <1> HIDE DEF place
  <1>4. place + Len(word) \in Nat /\ Append(aligned.spans, <<place, place + Len(word)>>) \in Seq(Nat \X Nat)
    BY <1>1, <1>2
  <1> QED
    BY <1>3, <1>4 DEF Aligned, place

\* The words are aligned one by one.
AlignsBy(run, t, words) ==
  /\ run[0] = NoneAligned
  /\ \A k \in 1 .. Len(words) : run[k] = Align(t, run[k - 1], words[k])
  /\ AlignWords(t, words) = run[Len(words)].spans

\* There are the running alignments of which the last gives the spans.
LEMMA WordsAligned ==
  ASSUME NEW t, Len(t) \in Nat, NEW L, NEW words \in Seq(Seq(L))
  PROVE  \E run \in [0 .. Len(words) -> Aligned] : AlignsBy(run, t, words)
  <1> DEFINE n == Len(words)
             Step == [p \in (1 .. n) \X Aligned |-> Align(t, p[2], words[p[1]])]
             Fold(iter) == iter = [s \in SUBSET (1 .. n) |->
                             IF s = {} THEN NoneAligned
                             ELSE Align(t, iter[s \ {Max(s)}], words[Max(s)])]
             total == CHOOSE iter : Fold(iter)
  <1>0. n \in Nat
    OBVIOUS
  <1>1. DOMAIN words = 1 .. n /\ \A k \in 1 .. n : Len(words[k]) \in Nat
    <2>1. n \in Nat /\ DOMAIN words = 1 .. n /\ \A k \in 1 .. n : words[k] \in Seq(L)
      OBVIOUS
    <2> QED
      BY <2>1
  <1>2. AlignWords(t, words) = total[1 .. n].spans
    BY <1>1 DEF AlignWords, FoldLeft, MapThenFoldSet, NoneAligned
  <1>3. Step \in [(1 .. n) \X Aligned -> Aligned]
    BY <1>1, AlignTyped
  <1>4. NoneAligned \in Aligned
    BY DEF NoneAligned, Aligned
  <1>5. \A k \in 1 .. n, aligned \in Aligned : Step[<<k, aligned>>] = Align(t, aligned, words[k])
    OBVIOUS
  <1>6. \A s \in SUBSET (1 .. n) : s # {} => Max(s) \in 1 .. n /\ s \ {Max(s)} \in SUBSET (1 .. n)
    BY <1>0, GreatestIsIn DEF Picks
  <1> HIDE DEF n, Step
  <1>7. \E iter : Fold(iter)
    <2>1. PICK iter \in [SUBSET (1 .. n) -> Aligned] : FoldsUp(iter, n, NoneAligned, Step)
      BY <1>0, <1>3, <1>4, FoldExists
    <2>2. \A s \in SUBSET (1 .. n) :
            iter[s] = IF s = {} THEN NoneAligned ELSE Align(t, iter[s \ {Max(s)}], words[Max(s)])
      BY <1>5, <1>6, <2>1 DEF FoldsUp
    <2>3. Fold(iter)
      BY <2>2
    <2> QED
      BY <2>3
  <1>8. Fold(total)
    BY <1>7
  <1>9. Totals(total, n, Aligned, NoneAligned, Step)
    <2>1. \A s \in SUBSET (1 .. n) :
            total[s] = IF s = {} THEN NoneAligned ELSE Align(t, total[s \ {Max(s)}], words[Max(s)])
      <3> HIDE DEF total
      <3> QED
        BY <1>8
    <2> HIDE DEF total
    <2> QED
      BY <1>5, <1>6, <2>1 DEF Totals
  <1> HIDE DEF total
  <1>10. PICK run \in [0 .. n -> Aligned] : RunsTo(run, n, NoneAligned, Step, total)
    BY <1>0, <1>3, <1>4, <1>9, FoldIsRun
  <1>11. \A k \in 1 .. n : k - 1 \in 0 .. n /\ run[k - 1] \in Aligned
    BY <1>0
  <1>12. run[0] = NoneAligned /\ \A k \in 1 .. n : run[k] = Align(t, run[k - 1], words[k])
    BY <1>5, <1>10, <1>11 DEF Runs, RunsTo
  <1> QED
    BY <1>2, <1>10, <1>12 DEF n, RunsTo, AlignsBy

\* The spans come one after the other, each at the earliest where the one
\* before it ends.
Apart(spans) ==
  /\ spans \in Seq(Nat \X Nat)
  /\ \A i \in 1 .. Len(spans) : spans[i][1] <= spans[i][2]
  /\ \A i, j \in 1 .. Len(spans) : i < j => spans[i][2] <= spans[j][1]

\* A span more, from the last one's end on.
LEMMA ApartOnceMore ==
  ASSUME NEW spans, Apart(spans), NEW a \in Nat, NEW b \in Nat, a <= b,
         \A i \in 1 .. Len(spans) : spans[i][2] <= a
  PROVE  Apart(Append(spans, <<a, b>>))
  <1> DEFINE more == Append(spans, <<a, b>>)
             n == Len(spans)
  <1>1. spans \in Seq(Nat \X Nat) /\ n \in Nat
    BY DEF Apart
  <1>2. more \in Seq(Nat \X Nat) /\ Len(more) = n + 1 /\ more[n + 1] = <<a, b>>
        /\ \A i \in 1 .. n : more[i] = spans[i]
    BY <1>1
  <1>3. \A i \in 1 .. n + 1 : i = n + 1 \/ i \in 1 .. n
    BY <1>1
  <1>4. \A i \in 1 .. n : spans[i][1] <= spans[i][2]
    BY DEF Apart
  <1>5. \A i, j \in 1 .. n : i < j => spans[i][2] <= spans[j][1]
    BY DEF Apart
  <1> HIDE DEF more, n
  <1>6. ASSUME NEW i \in 1 .. n + 1 PROVE more[i][1] <= more[i][2]
    <2>1. CASE i = n + 1
      BY <1>2, <2>1
    <2>2. CASE i \in 1 .. n
      BY <1>2, <1>4, <2>2
    <2> QED
      BY <1>3, <2>1, <2>2
  <1>7. ASSUME NEW i \in 1 .. n + 1, NEW j \in 1 .. n + 1, i < j PROVE more[i][2] <= more[j][1]
    <2>1. i \in 1 .. n /\ more[i] = spans[i]
      <3>1. i \in 1 .. n
        BY <1>1, <1>7
      <3> QED
        BY <1>2, <3>1
    <2>2. CASE j = n + 1
      <3>1. spans[i][2] <= a
        BY <2>1 DEF n
      <3> QED
        BY <1>2, <2>1, <2>2, <3>1
    <2>3. CASE j \in 1 .. n
      BY <1>2, <1>5, <1>7, <2>1, <2>3
    <2> QED
      BY <1>3, <2>2, <2>3
  <1> QED
    BY <1>2, <1>6, <1>7 DEF Apart, more

\* Whatever is reported, no letter is given to two words.
LEMMA SpansAreApart ==
  ASSUME NEW t, Len(t) \in Nat, NEW L, NEW words \in Seq(Seq(L))
  PROVE  Apart(AlignWords(t, words)) /\ Len(AlignWords(t, words)) = Len(words)
  <1> DEFINE n == Len(words)
  <1>0. n \in Nat /\ \A k \in 1 .. n : Len(words[k]) \in Nat
    <2>1. n \in Nat /\ \A k \in 1 .. n : words[k] \in Seq(L)
      OBVIOUS
    <2> QED
      BY <2>1
  <1>a. PICK run \in [0 .. n -> Aligned] : AlignsBy(run, t, words)
    BY WordsAligned
  <1>1. /\ run[0] = NoneAligned
        /\ \A k \in 1 .. n : run[k] = Align(t, run[k - 1], words[k])
        /\ AlignWords(t, words) = run[n].spans
    BY <1>a DEF AlignsBy
  <1> HIDE DEF n
  <1> DEFINE Fits(k) == /\ Apart(run[k].spans)
                        /\ Len(run[k].spans) = k
                        /\ \A i \in 1 .. k : run[k].spans[i][2] <= run[k].cursor
             Good == {k \in Nat : k <= n => Fits(k)}
  <1>2. 0 \in Good
    <2>1. run[0].spans = <<>>
      BY <1>1 DEF NoneAligned
    <2>2. Fits(0)
      BY <2>1 DEF Apart
    <2> QED
      BY <2>2
  <1>3. ASSUME NEW k \in Nat, k \in Good PROVE k + 1 \in Good
    <2> SUFFICES ASSUME k + 1 <= n PROVE Fits(k + 1)
      OBVIOUS
    <2> DEFINE place == PlaceOf(t, words[k + 1], run[k].cursor)
               end == place + Len(words[k + 1])
    <2>1. Fits(k) /\ run[k] \in Aligned /\ k + 1 \in 1 .. n /\ (k + 1) - 1 = k
      BY <1>0, <1>3
    <2>2. run[k + 1] = Align(t, run[k], words[k + 1]) /\ Len(words[k + 1]) \in Nat
      BY <1>0, <1>1, <2>1
    <2>3. run[k + 1].cursor = end /\ run[k + 1].spans = Append(run[k].spans, <<place, end>>)
      <3> DEFINE next == Align(t, run[k], words[k + 1])
      <3>1. next.cursor = end /\ next.spans = Append(run[k].spans, <<place, end>>)
        BY <2>1, <2>2, AlignTyped
      <3> HIDE DEF next, place
      <3> QED
        BY <2>2, <3>1 DEF next
    <2>4. run[k].cursor \in Nat
      BY <2>1 DEF Aligned
    <2>5. place \in Nat /\ run[k].cursor <= place
      BY <2>2, <2>4, PlaceFound
    <2> HIDE DEF place
    <2>6. end \in Nat /\ place <= end
      BY <2>2, <2>5
    <2> HIDE DEF end
    <2>7. run[k].spans \in Seq(Nat \X Nat)
      BY <2>1 DEF Apart
    <2>8. \A i \in 1 .. k : run[k].spans[i][2] <= place /\ run[k].spans[i][2] <= end
      <3>1. \A i \in 1 .. k : run[k].spans[i][2] \in Nat
        BY <2>1, <2>7
      <3> QED
        <4> SUFFICES ASSUME NEW i \in 1 .. k
                     PROVE  run[k].spans[i][2] <= place /\ run[k].spans[i][2] <= end
          OBVIOUS
        <4> DEFINE e == run[k].spans[i][2]
                   c == run[k].cursor
        <4>1. e \in Nat /\ c \in Nat /\ e <= c /\ c <= place
          BY <2>1, <2>4, <2>5, <3>1
        <4> HIDE DEF e, c
        <4>2. e <= place /\ e <= end
          BY <2>5, <2>6, <4>1
        <4> QED
          BY <4>2 DEF e
    <2>9. Apart(run[k + 1].spans)
      BY <2>1, <2>3, <2>5, <2>6, <2>8, ApartOnceMore
    <2>10. /\ Len(run[k + 1].spans) = k + 1
           /\ run[k + 1].spans[k + 1] = <<place, end>>
           /\ \A i \in 1 .. k : run[k + 1].spans[i] = run[k].spans[i]
      BY <2>1, <2>3, <2>7
    <2>11. ASSUME NEW i \in 1 .. k + 1 PROVE run[k + 1].spans[i][2] <= run[k + 1].cursor
      <3>1. CASE i = k + 1
        BY <2>3, <2>6, <2>10, <3>1
      <3>2. CASE i # k + 1
        <4>1. i \in 1 .. k
          BY <3>2
        <4> QED
          BY <2>3, <2>8, <2>10, <4>1
      <3> QED
        BY <3>1, <3>2
    <2> QED
      BY <2>9, <2>10, <2>11
  <1>4. n \in Good
    <2> HIDE DEF Good
    <2> QED
      BY <1>0, <1>2, <1>3, NatInductionIn
  <1> QED
    BY <1>0, <1>1, <1>4 DEF n

\* The words of a text as an engine is to report them.
Told(t, told, words) ==
  /\ told \in Seq(Seq({t[p] : p \in 1 .. Len(t)}))
  /\ Len(told) = Len(words)
  /\ \A i \in 1 .. Len(words) : /\ told[i] = Within(t, words[i][1], words[i][2])
                                /\ Len(told[i]) = words[i][2] - words[i][1]

\* The words of a text are cut out of it, one for each span.
LEMMA WordsTyped ==
  ASSUME NEW T, NEW t \in Seq(T)
  PROVE  Told(t, WordsOf(t), IterWords(t))
  <1> DEFINE words == IterWords(t)
             n == Len(words)
             L == {t[p] : p \in 1 .. Len(t)}
  <1>1. Wording(t, words) /\ Len(t) \in Nat
    BY WordsInOrder
  <1>2. t \in Seq(L)
    OBVIOUS
  <1> HIDE DEF words, L
  <1>3. n \in Nat /\ DOMAIN words = 1 .. n /\ words \in Seq(Nat \X Nat)
    BY <1>1 DEF Wording
  <1>4. ASSUME NEW i \in 1 .. n
        PROVE  /\ Within(t, words[i][1], words[i][2]) \in Seq(L)
               /\ Len(Within(t, words[i][1], words[i][2])) = words[i][2] - words[i][1]
    <2>1. words[i][1] \in Nat /\ words[i][2] \in Nat
      BY <1>3
    <2>2. words[i][1] < words[i][2] /\ words[i][2] <= Len(t)
      BY <1>1 DEF Wording
    <2> QED
      BY <1>1, <1>2, <2>1, <2>2 DEF Within
  <1>5. WordsOf(t) = [i \in 1 .. n |-> Within(t, words[i][1], words[i][2])]
    BY <1>3 DEF WordsOf, words
  <1>6. WordsOf(t) \in Seq(Seq(L)) /\ Len(WordsOf(t)) = n
    BY <1>3, <1>4, <1>5
  <1> QED
    BY <1>4, <1>5, <1>6 DEF Told, words, L

\* Where the word before ends.
EndBefore(words, k) == IF k = 1 THEN 0 ELSE words[k - 1][2]

NearWords(t) ==
  \A k \in 1 .. Len(IterWords(t)) : IterWords(t)[k][1] - EndBefore(IterWords(t), k) <= Lookahead

\* From the end of the word before, a word is first found at its own place:
\* up to there are spaces, and it begins with none.
LEMMA NextPlace ==
  ASSUME NEW T, NEW t \in Seq(T), NEW words, Wording(t, words), NEW k \in 1 .. Len(words),
         words[k][1] - EndBefore(words, k) <= Lookahead
  PROVE  PlaceOf(t, Within(t, words[k][1], words[k][2]), EndBefore(words, k)) = words[k][1]
  <1> DEFINE a == words[k][1]
             b == words[k][2]
             c == EndBefore(words, k)
             word == Within(t, a, b)
             hits == Hits(t, word, c)
  <1>1. words \in Seq(Nat \X Nat) /\ Len(words) \in Nat /\ Len(t) \in Nat
    BY DEF Wording
  <1>2. a \in Nat /\ b \in Nat /\ a < b /\ b <= Len(t)
    BY <1>1 DEF Wording
  <1>3. c \in Nat /\ c <= a
    <2>1. CASE k = 1
      BY <1>2, <2>1 DEF EndBefore
    <2>2. CASE k # 1
      <3>1. k - 1 \in 1 .. Len(words) /\ k - 1 < k /\ k \in Nat
        BY <1>1, <2>2
      <3>2. \A i, j \in 1 .. Len(words) : i < j => words[i][2] < words[j][1]
        BY DEF Wording
      <3>3. words[k - 1][2] < words[k][1]
        BY <3>1, <3>2
      <3>4. words[k - 1][2] \in Nat
        BY <1>1, <3>1
      <3> QED
        BY <1>2, <2>2, <3>3, <3>4 DEF EndBefore
    <2> QED
      BY <2>1, <2>2
  <1>4. \A p \in c + 1 .. a : t[p] = Space
    BY DEF Wording, EndBefore
  <1>5. \A p \in a + 1 .. b : t[p] # Space
    BY DEF Wording, IsWord
  <1>6. a - c <= Lookahead
    OBVIOUS
  <1> HIDE DEF a, b, c
  <1>7. /\ word = SubSeq(t, a + 1, b) /\ Len(word) = b - a /\ word # <<>>
        /\ word[1] = t[a + 1]
    BY <1>2 DEF Within
  <1>8. ASSUME NEW p \in Nat, p + Len(word) <= Len(t)
        PROVE  Within(t, p, p + Len(word))[1] = t[p + 1]
    <2> DEFINE last == p + Len(word)
    <2>1. last \in Nat /\ p + 1 <= last /\ last <= Len(t)
      BY <1>2, <1>7, <1>8
    <2> HIDE DEF last
    <2>2. SubSeq(t, p + 1, last)[1] = t[p + 1]
      BY <2>1
    <2>3. Within(t, p, last)[1] = t[p + 1]
      BY <2>2 DEF Within
    <2> HIDE DEF word
    <2> QED
      BY <2>3 DEF last
  <1>9. Within(t, a, a + Len(word)) = word
    <2>1. a + Len(word) = b
      <3> HIDE DEF word
      <3> QED
        BY <1>2, <1>7
    <2> QED
      BY <2>1
  <1> HIDE DEF word
  <1>10. a \in hits
    <2>1. a \in c .. (Len(t) - Len(word))
      BY <1>1, <1>2, <1>3, <1>7
    <2> QED
      BY <1>9, <2>1 DEF Hits
  <1>11. ASSUME NEW p \in hits PROVE p \in Nat /\ a <= p
    <2>1. p \in Nat /\ c <= p /\ p + Len(word) <= Len(t) /\ Within(t, p, p + Len(word)) = word
      <3>1. p \in c .. (Len(t) - Len(word)) /\ Within(t, p, p + Len(word)) = word
        BY DEF Hits
      <3>2. Len(word) \in Nat
        BY <1>2, <1>7
      <3> QED
        BY <1>1, <1>3, <3>1, <3>2
    <2>2. t[p + 1] = t[a + 1]
      BY <1>7, <1>8, <2>1
    <2>3. t[a + 1] # Space
      BY <1>2, <1>5
    <2>4. ASSUME p < a PROVE FALSE
      <3>1. p + 1 \in c + 1 .. a
        BY <1>2, <1>3, <2>1, <2>4
      <3> QED
        BY <1>4, <2>2, <2>3, <3>1
    <2> QED
      BY <1>2, <2>1, <2>4
  <1> HIDE DEF hits
  <1>12. Min(hits) = a
    <2>1. \A x \in hits : (\A y \in hits : x <= y) => x = a
      BY <1>2, <1>10, <1>11
    <2>2. a \in hits /\ \A y \in hits : a <= y
      BY <1>10, <1>11
    <2> QED
      BY <2>1, <2>2 DEF Min
  <1>13. PlaceOf(t, word, c) = a
    BY <1>6, <1>7, <1>10, <1>12 DEF PlaceOf, hits
  <1> QED
    BY <1>13 DEF a, b, c, word

\* An engine that reports the words of the text has every one of them put
\* where the text has it.
LEMMA WordsAreFound ==
  ASSUME NEW T, NEW t \in Seq(T), NearWords(t)
  PROVE  AlignWords(t, WordsOf(t)) = IterWords(t)
  <1> DEFINE words == IterWords(t)
             n == Len(words)
             told == WordsOf(t)
             spans == AlignWords(t, told)
             L == {t[p] : p \in 1 .. Len(t)}
  <1>0. Told(t, told, words) /\ Len(t) \in Nat
    BY WordsTyped
  <1>1. Wording(t, words) /\ \A k \in 1 .. n : words[k][1] - EndBefore(words, k) <= Lookahead
    BY <1>0, WordsInOrder DEF NearWords
  <1>a. told \in Seq(Seq(L)) /\ Len(told) = n
    BY <1>0 DEF Told
  <1>b. PICK run \in [0 .. n -> Aligned] : AlignsBy(run, t, told)
    <2> HIDE DEF L, told, n
    <2> QED
      BY <1>0, <1>a, WordsAligned
  <1>2. /\ run[0] = NoneAligned
        /\ \A k \in 1 .. n : run[k] = Align(t, run[k - 1], told[k])
        /\ spans = run[n].spans
    BY <1>a, <1>b DEF AlignsBy
  <1>c. \A i \in 1 .. n : /\ told[i] = Within(t, words[i][1], words[i][2])
                          /\ Len(told[i]) = words[i][2] - words[i][1]
    BY <1>0 DEF Told
  <1>3. words \in Seq(Nat \X Nat) /\ \A i \in 1 .. n : words[i][1] < words[i][2]
    BY <1>1 DEF Wording
  <1>d. n \in Nat
    BY <1>3
  <1>4. Len(spans) = n /\ spans \in Seq(Nat \X Nat)
    <2> HIDE DEF L, told, n
    <2>1. Apart(spans) /\ Len(spans) = n
      BY <1>0, <1>a, SpansAreApart
    <2> QED
      BY <2>1 DEF Apart
  <1> HIDE DEF words, n, told, spans, L
  <1> DEFINE Fits(k) == /\ Len(run[k].spans) = k
                        /\ \A i \in 1 .. k : run[k].spans[i] = words[i]
                        /\ run[k].cursor = IF k = 0 THEN 0 ELSE words[k][2]
             Good == {k \in Nat : k <= n => Fits(k)}
  <1>5. 0 \in Good
    <2>1. run[0].spans = <<>> /\ run[0].cursor = 0
      BY <1>2 DEF NoneAligned
    <2> QED
      BY <2>1
  <1>6. ASSUME NEW k \in Nat, k \in Good PROVE k + 1 \in Good
    <2> SUFFICES ASSUME k + 1 <= n PROVE Fits(k + 1)
      OBVIOUS
    <2> DEFINE a == words[k + 1][1]
               b == words[k + 1][2]
    <2>1. Fits(k) /\ run[k] \in Aligned /\ k + 1 \in 1 .. n /\ (k + 1) - 1 = k
      BY <1>d, <1>6
    <2>2. run[k].cursor = EndBefore(words, k + 1)
      BY <2>1 DEF EndBefore
    <2>3. run[k + 1] = Align(t, run[k], told[k + 1])
      BY <1>2, <2>1
    <2>4. PlaceOf(t, told[k + 1], run[k].cursor) = a
      <3>1. PlaceOf(t, Within(t, a, b), EndBefore(words, k + 1)) = a
        BY <1>1, <2>1, NextPlace DEF n
      <3> QED
        BY <1>c, <2>1, <2>2, <3>1
    <2>5. Len(told[k + 1]) = b - a /\ a \in Nat /\ b \in Nat /\ a < b /\ words[k + 1] = <<a, b>>
      BY <1>c, <1>3, <2>1 DEF n
    <2> HIDE DEF a, b
    <2>6. a + Len(told[k + 1]) = b /\ Len(told[k + 1]) \in Nat
      BY <2>5
    <2>7. run[k + 1].cursor = b /\ run[k + 1].spans = Append(run[k].spans, <<a, b>>)
      <3> DEFINE next == Align(t, run[k], told[k + 1])
      <3>1. next.cursor = b /\ next.spans = Append(run[k].spans, <<a, b>>)
        <4> DEFINE place == PlaceOf(t, told[k + 1], run[k].cursor)
        <4>1. next.cursor = place + Len(told[k + 1])
              /\ next.spans = Append(run[k].spans, <<place, place + Len(told[k + 1])>>)
          <5>1. run[k] \in Aligned /\ Len(t) \in Nat /\ Len(told[k + 1]) \in Nat
            BY <1>0, <2>1, <2>6
          <5> HIDE DEF Fits, Good
          <5> QED
            BY <5>1, AlignTyped
        <4> HIDE DEF next
        <4> QED
          BY <2>4, <2>6, <4>1
      <3> HIDE DEF next
      <3> QED
        BY <2>3, <3>1 DEF next
    <2>8. run[k].spans \in Seq(Nat \X Nat)
      BY <2>1 DEF Aligned
    <2>9. /\ Len(run[k + 1].spans) = k + 1
          /\ run[k + 1].spans[k + 1] = words[k + 1]
          /\ \A i \in 1 .. k : run[k + 1].spans[i] = words[i]
      BY <2>1, <2>5, <2>7, <2>8
    <2>10. \A i \in 1 .. k + 1 : run[k + 1].spans[i] = words[i]
      <3>1. \A i \in 1 .. k + 1 : i = k + 1 \/ i \in 1 .. k
        OBVIOUS
      <3> QED
        BY <2>9, <3>1
    <2> QED
      BY <2>7, <2>9, <2>10 DEF b
  <1>7. n \in Good
    <2> HIDE DEF Good
    <2> QED
      BY <1>d, <1>5, <1>6, NatInductionIn
  <1>8. \A i \in 1 .. n : spans[i] = words[i]
    BY <1>d, <1>2, <1>7
  <1>9. spans = words
    <2>1. spans = [i \in 1 .. n |-> spans[i]]
      BY <1>4
    <2>2. words = [i \in 1 .. n |-> words[i]]
      BY <1>3 DEF n
    <2>3. [i \in 1 .. n |-> spans[i]] = [i \in 1 .. n |-> words[i]]
      BY <1>8
    <2> QED
      BY <2>1, <2>2, <2>3
  <1> QED
    BY <1>9 DEF spans, told, words

\* Each word is placed from where the one before was put, and stays there.
LEMMA SpansFollow ==
  ASSUME NEW t, Len(t) \in Nat, NEW L, NEW words \in Seq(Seq(L)), NEW i \in 2 .. Len(words)
  PROVE  LET spans == AlignWords(t, words)
             place == PlaceOf(t, words[i], spans[i - 1][2])
         IN  spans[i] = <<place, place + Len(words[i])>>
  <1> DEFINE n == Len(words)
  <1>0. n \in Nat /\ \A k \in 1 .. n : Len(words[k]) \in Nat
    <2>1. n \in Nat /\ \A k \in 1 .. n : words[k] \in Seq(L)
      OBVIOUS
    <2> QED
      BY <2>1
  <1>a. PICK run \in [0 .. n -> Aligned] : AlignsBy(run, t, words)
    BY WordsAligned
  <1>1. /\ run[0] = NoneAligned
        /\ \A k \in 1 .. n : run[k] = Align(t, run[k - 1], words[k])
        /\ AlignWords(t, words) = run[n].spans
    BY <1>a DEF AlignsBy
  <1>i. i \in 2 .. n
    OBVIOUS
  <1> HIDE DEF n
  <1> DEFINE Place(k) == PlaceOf(t, words[k], run[k - 1].cursor)
             Span(k) == <<Place(k), Place(k) + Len(words[k])>>
  <1>2. ASSUME NEW k \in 1 .. n
        PROVE  /\ run[k].cursor = Span(k)[2]
               /\ run[k].spans = Append(run[k - 1].spans, Span(k))
               /\ run[k - 1].spans \in Seq(Nat \X Nat)
    <2> DEFINE before == run[k - 1]
               word   == words[k]
    <2>1. k - 1 \in 0 .. n /\ Len(word) \in Nat
      BY <1>0
    <2>2. before \in Aligned
      BY <2>1
    <2>3. run[k] = Align(t, before, word)
      BY <1>1
    <2>a. Place(k) = PlaceOf(t, word, before.cursor)
      OBVIOUS
    <2> HIDE DEF before, word, Place
    <2>4. /\ Align(t, before, word).cursor = PlaceOf(t, word, before.cursor) + Len(word)
          /\ Align(t, before, word).spans
               = Append(before.spans, <<PlaceOf(t, word, before.cursor),
                                        PlaceOf(t, word, before.cursor) + Len(word)>>)
      BY <2>1, <2>2, AlignTyped
    <2>5. before.spans \in Seq(Nat \X Nat)
      BY <2>2 DEF Aligned
    <2> QED
      BY <2>3, <2>4, <2>5, <2>a DEF before, word
  <1> HIDE DEF Place, Span
  <1> DEFINE Fits(k) == Len(run[k].spans) = k /\ \A m \in 1 .. k : run[k].spans[m] = Span(m)
             Good == {k \in Nat : k <= n => Fits(k)}
  <1>3. 0 \in Good
    BY <1>1 DEF NoneAligned
  <1>4. ASSUME NEW k \in Nat, k \in Good PROVE k + 1 \in Good
    <2> SUFFICES ASSUME k + 1 <= n PROVE Fits(k + 1)
      OBVIOUS
    <2>1. Fits(k) /\ k + 1 \in 1 .. n /\ (k + 1) - 1 = k
      BY <1>0, <1>4
    <2>2. /\ run[k + 1].spans = Append(run[k].spans, Span(k + 1))
          /\ run[k].spans \in Seq(Nat \X Nat)
      BY <1>2, <2>1
    <2>3. /\ Len(run[k + 1].spans) = k + 1
          /\ run[k + 1].spans[k + 1] = Span(k + 1)
          /\ \A m \in 1 .. k : run[k + 1].spans[m] = run[k].spans[m]
      <3> DEFINE old == run[k].spans
                 x == Span(k + 1)
      <3>1. Len(old) = k /\ old \in Seq(Nat \X Nat) /\ run[k + 1].spans = Append(old, x)
        BY <2>1, <2>2
      <3> HIDE DEF old, x
      <3>2. /\ Len(Append(old, x)) = k + 1
            /\ Append(old, x)[k + 1] = x
            /\ \A m \in 1 .. k : Append(old, x)[m] = old[m]
        <4>1. Len(old) = k /\ k \in Nat /\ old \in Seq(Nat \X Nat)
          BY <3>1
        <4>2. /\ Len(Append(old, x)) = Len(old) + 1
              /\ Append(old, x)[Len(old) + 1] = x
          BY <4>1
        <4>3. \A m \in 1 .. Len(old) : Append(old, x)[m] = old[m]
          BY <4>1
        <4> QED
          BY <4>1, <4>2, <4>3
      <3> QED
        BY <3>1, <3>2 DEF old, x
    <2>4. \A m \in 1 .. k + 1 : m = k + 1 \/ m \in 1 .. k
      OBVIOUS
    <2> QED
      BY <2>1, <2>3, <2>4
  <1>5. n \in Good
    <2> HIDE DEF Good
    <2> QED
      BY <1>0, <1>3, <1>4, NatInductionIn
  <1>b. Fits(n)
    BY <1>0, <1>5
  <1> HIDE DEF Good
  <1>6. \A m \in 1 .. n : AlignWords(t, words)[m] = Span(m)
    BY <1>1, <1>b
  <1>7. i \in 1 .. n /\ i - 1 \in 1 .. n
    BY <1>0, <1>i
  <1>8. AlignWords(t, words)[i - 1][2] = run[i - 1].cursor
    <2>1. AlignWords(t, words)[i - 1] = Span(i - 1)
      BY <1>6, <1>7
    <2>2. run[i - 1].cursor = Span(i - 1)[2]
      BY <1>2, <1>7
    <2> QED
      BY <2>1, <2>2
  <1>9. AlignWords(t, words)[i] = Span(i)
    BY <1>6, <1>7
  <1> HIDE DEF Fits
  <1> QED
    BY <1>8, <1>9 DEF Place, Span

\* After a word that was put where the text has it, the next one is put so too
\* when it is reported.
LEMMA NextIsFound ==
  ASSUME NEW T, NEW t \in Seq(T), NearWords(t), NEW L, NEW told \in Seq(Seq(L)),
         NEW i \in 2 .. Len(told), NEW j \in 2 .. Len(IterWords(t)),
         AlignWords(t, told)[i - 1] = IterWords(t)[j - 1], told[i] = WordsOf(t)[j]
  PROVE  AlignWords(t, told)[i] = IterWords(t)[j]
  <1> DEFINE words == IterWords(t)
             a == words[j][1]
             b == words[j][2]
  <1>1. Told(t, WordsOf(t), words) /\ Wording(t, words) /\ Len(t) \in Nat
    BY WordsTyped, WordsInOrder
  <1>2. words \in Seq(Nat \X Nat) /\ j \in 1 .. Len(words) /\ Len(words) \in Nat
    BY <1>1 DEF Wording
  <1>3. a \in Nat /\ b \in Nat /\ words[j] = <<a, b>>
    <2> HIDE DEF words
    <2>1. words[j] \in Nat \X Nat
      BY <1>2
    <2> QED
      BY <2>1
  <1>4. told[i] = Within(t, a, b) /\ Len(told[i]) = b - a
    BY <1>1, <1>2 DEF Told
  <1>5. AlignWords(t, told)[i - 1][2] = EndBefore(words, j)
    BY DEF EndBefore
  <1>6. a - EndBefore(words, j) <= Lookahead
    BY <1>2 DEF NearWords
  <1> HIDE DEF words
  <1>7. PlaceOf(t, told[i], EndBefore(words, j)) = a
    <2>1. PlaceOf(t, Within(t, words[j][1], words[j][2]), EndBefore(words, j)) = words[j][1]
      BY <1>1, <1>2, <1>6, NextPlace
    <2> QED
      BY <1>4, <2>1
  <1>8. AlignWords(t, told)[i] = <<a, a + Len(told[i])>>
    <2> DEFINE place == PlaceOf(t, told[i], AlignWords(t, told)[i - 1][2])
    <2>1. AlignWords(t, told)[i] = <<place, place + Len(told[i])>>
      BY <1>1, SpansFollow
    <2> QED
      BY <1>5, <1>7, <2>1
  <1> HIDE DEF a, b
  <1>9. a + Len(told[i]) = b
    BY <1>3, <1>4
  <1> QED
    BY <1>3, <1>8, <1>9 DEF words

-----------------------------------------------------------------------------
(* Speaking: the document a reader searches *)

MarkRecords == [t : Nat, d : Nat, s : Nat, e : Nat]

\* Mark i is heard before mark j, or with it and was reported before it.
Sooner(ms, i, j) == ms[i].t < ms[j].t \/ (ms[i].t = ms[j].t /\ i < j)
SoonerPairs(ms, n) == {p \in (1 .. n) \X (1 .. n) : Sooner(ms, p[1], p[2])}

\* The document has mark order[i] in place i: every mark once, in the order
\* of time.
Documents(order, ms, n) ==
  /\ MarksDocument(ms) = [i \in 1 .. n |-> ms[order[i]]]
  /\ \A i \in 1 .. n : \E j \in 1 .. n : order[j] = i
  /\ \A i, j \in 1 .. n : i < j => Sooner(ms, order[i], order[j])

\* A document is the marks in an order of time.
LEMMA DocumentExists ==
  ASSUME NEW n \in Nat, NEW ms \in [1 .. n -> MarkRecords]
  PROVE  \E order \in [1 .. n -> 1 .. n] : Documents(order, ms, n)
  <1> DEFINE S == DOMAIN ms
             R == SoonerPairs(ms, n)
             order == CHOOSE s \in [1 .. Cardinality(S) -> S] :
                        \A i, j \in DOMAIN s : i < j => Sooner(ms, s[i], s[j])
  <1>4. MarksDocument(ms) = [i \in DOMAIN order |-> ms[order[i]]]
    BY DEF MarksDocument, InOrder, Sooner
  <1>0. S = 1 .. n
    OBVIOUS
  <1> HIDE DEF order, S
  <1>1. IsFiniteSet(S) /\ Cardinality(S) = n
    BY <1>0, FS_Interval
  <1>2. \A i, j \in S : <<i, j>> \in R <=> Sooner(ms, i, j)
    BY <1>0 DEF SoonerPairs
  <1>3. \A i \in S : ms[i].t \in Nat /\ i \in Nat
    BY <1>0 DEF MarkRecords
  <1> HIDE DEF R
  <1>5. Ordering(R, S)
    BY <1>2, <1>3 DEF Ordering, Sooner
  <1>6. \A s \in [1 .. n -> S] :
          Along(s, n, R) <=> \A i, j \in DOMAIN s : i < j => Sooner(ms, s[i], s[j])
    <2> SUFFICES ASSUME NEW s \in [1 .. n -> S]
                 PROVE  Along(s, n, R) <=> \A i, j \in 1 .. n : i < j => Sooner(ms, s[i], s[j])
      OBVIOUS
    <2>1. \A i, j \in 1 .. n : <<s[i], s[j]>> \in R <=> Sooner(ms, s[i], s[j])
      BY <1>2
    <2> QED
      BY <2>1 DEF Along
  <1>7. \E s \in [1 .. n -> S] : Along(s, n, R)
    BY <1>1, <1>5, SortingExists
  <1>8. order \in [1 .. n -> S] /\ Along(order, n, R)
    BY <1>1, <1>6, <1>7 DEF order
  <1>9. /\ Len(order) = n
        /\ \A x \in S : \E i \in 1 .. n : order[i] = x
    <2>1. Len(order) = Cardinality(S) /\ \A x \in S : \E i \in 1 .. Len(order) : order[i] = x
      BY <1>1, <1>5, <1>8, SortedIsWhole
    <2> QED
      BY <1>1, <2>1
  <1>10. \A i, j \in 1 .. n : i < j => Sooner(ms, order[i], order[j])
    BY <1>2, <1>8 DEF Along
  <1>11. Documents(order, ms, n)
    BY <1>0, <1>4, <1>8, <1>9, <1>10 DEF Documents
  <1> QED
    BY <1>0, <1>8, <1>11

\* Marks that come in the order of time stay as they are.
LEMMA DocumentKeepsOrder ==
  ASSUME NEW n \in Nat, NEW ms \in [1 .. n -> MarkRecords],
         \A i, j \in 1 .. n : i < j => ms[i].t <= ms[j].t
  PROVE  MarksDocument(ms) = ms
  <1>1. PICK order \in [1 .. n -> 1 .. n] : Documents(order, ms, n)
    BY DocumentExists
  <1>2. ASSUME NEW i \in 1 .. n, NEW j \in 1 .. n, i < j PROVE order[i] < order[j]
    <2>1. order[i] \in 1 .. n /\ order[j] \in 1 .. n /\ Sooner(ms, order[i], order[j])
      BY <1>1, <1>2 DEF Documents
    <2>2. ms[order[i]].t \in Nat /\ ms[order[j]].t \in Nat
      BY <2>1 DEF MarkRecords
    <2>3. ASSUME order[j] < order[i] PROVE FALSE
      <3>1. ms[order[j]].t <= ms[order[i]].t
        BY <2>1, <2>3
      <3>2. \/ ms[order[i]].t < ms[order[j]].t
            \/ ms[order[i]].t = ms[order[j]].t /\ order[i] < order[j]
        BY <2>1 DEF Sooner
      <3>3. order[i] \in Nat /\ order[j] \in Nat
        BY <2>1
      <3> DEFINE x == ms[order[i]].t
                 y == ms[order[j]].t
      <3>4. ASSUME x < y PROVE FALSE
        <4>1. x \in Nat /\ y \in Nat /\ y <= x
          BY <2>2, <3>1
        <4> HIDE DEF x, y
        <4> QED
          BY <3>4, <4>1
      <3>5. CASE order[i] < order[j]
        BY <2>3, <3>3, <3>5
      <3> QED
        BY <3>2, <3>4, <3>5
    <2>4. order[i] # order[j]
      BY <2>1, <2>2 DEF Sooner
    <2> QED
      BY <2>1, <2>3, <2>4
  <1> DEFINE Up == {k \in Nat : k \in 1 .. n => k <= order[k]}
             Down == {k \in Nat : n - k \in 1 .. n => order[n - k] <= n - k}
  <1>3. Nat \subseteq Up
    <2>1. 0 \in Up
      OBVIOUS
    <2>2. ASSUME NEW k \in Nat, k \in Up PROVE k + 1 \in Up
      <3> SUFFICES ASSUME k + 1 \in 1 .. n PROVE k + 1 <= order[k + 1]
        OBVIOUS
      <3>1. order[k + 1] \in 1 .. n
        OBVIOUS
      <3>2. CASE k = 0
        BY <3>1, <3>2
      <3>3. CASE k # 0
        <4>1. k \in 1 .. n /\ k < k + 1
          BY <3>3
        <4>2. order[k] \in 1 .. n /\ order[k] < order[k + 1] /\ k <= order[k]
          BY <1>2, <2>2, <4>1
        <4> QED
          BY <3>1, <4>2
      <3> QED
        BY <3>2, <3>3
    <2> HIDE DEF Up
    <2> QED
      BY <2>1, <2>2, NatInductionIn
  <1>4. Nat \subseteq Down
    <2>1. 0 \in Down
      OBVIOUS
    <2>2. ASSUME NEW k \in Nat, k \in Down PROVE k + 1 \in Down
      <3> SUFFICES ASSUME n - (k + 1) \in 1 .. n PROVE order[n - (k + 1)] <= n - (k + 1)
        OBVIOUS
      <3>1. n - k \in 1 .. n /\ n - (k + 1) < n - k
        OBVIOUS
      <3>2. order[n - k] \in 1 .. n /\ order[n - (k + 1)] \in 1 .. n
        BY <3>1
      <3>3. order[n - (k + 1)] < order[n - k]
        BY <1>2, <3>1
      <3>4. order[n - k] <= n - k
        BY <2>2, <3>1
      <3> QED
        BY <3>2, <3>3, <3>4
    <2> HIDE DEF Down
    <2> QED
      BY <2>1, <2>2, NatInductionIn
  <1>5. ASSUME NEW i \in 1 .. n PROVE order[i] = i
    <2>1. i \in Nat /\ n - i \in Nat /\ n - (n - i) = i /\ order[i] \in 1 .. n
      OBVIOUS
    <2>2. i <= order[i]
      BY <1>3, <2>1
    <2>3. order[i] <= i
      <3>1. n - i \in Down
        BY <1>4, <2>1
      <3> QED
        BY <2>1, <3>1
    <2> QED
      BY <2>1, <2>2, <2>3
  <1>6. MarksDocument(ms) = [i \in 1 .. n |-> ms[order[i]]]
    BY <1>1 DEF Documents
  <1>7. [i \in 1 .. n |-> ms[order[i]]] = [i \in 1 .. n |-> ms[i]]
    BY <1>5
  <1> QED
    BY <1>6, <1>7

-----------------------------------------------------------------------------
(* Speaking: measured marks *)

\* What edge-tts reports: words, each with the time it began and its length.
Reported(report, n, L) ==
  /\ DOMAIN report = 1 .. n
  /\ \A i \in 1 .. n : report[i].word \in Seq(L) /\ report[i].t \in Nat /\ report[i].d \in Nat

SpansOf(t, report) == AlignWords(t, [i \in DOMAIN report |-> report[i].word])

\* What the marks of a report are, and where.
MarksOf(ms, n, spans) ==
  /\ ms \in [1 .. n -> MarkRecords]
  /\ Apart(spans) /\ Len(spans) = n
  /\ \A i \in 1 .. n : ms[i].s = spans[i][1] /\ ms[i].e = spans[i][2]

\* Each measured mark has the span its word was aligned with.
LEMMA MarksMeasured ==
  ASSUME NEW t, Len(t) \in Nat, NEW L, NEW n \in Nat, NEW report, Reported(report, n, L)
  PROVE  MarksOf(MeasuredMarks(t, report), n, SpansOf(t, report))
  <1> DEFINE words == [i \in 1 .. n |-> report[i].word]
             spans == SpansOf(t, report)
             ms == [i \in 1 .. n |-> [t |-> report[i].t, d |-> report[i].d,
                                      s |-> spans[i][1], e |-> spans[i][2]]]
  <1>1. /\ DOMAIN report = 1 .. n
        /\ \A i \in 1 .. n : report[i].word \in Seq(L) /\ report[i].t \in Nat /\ report[i].d \in Nat
    BY DEF Reported
  <1>2. words \in Seq(Seq(L)) /\ Len(words) = n
    BY <1>1
  <1>3. spans = AlignWords(t, words)
    BY <1>1 DEF SpansOf
  <1>4. MeasuredMarks(t, report) = ms
    BY <1>1 DEF MeasuredMarks, SpansOf
  <1> HIDE DEF words, spans
  <1>5. Apart(spans) /\ Len(spans) = n
    BY <1>2, <1>3, SpansAreApart
  <1>6. \A i \in 1 .. n : spans[i][1] \in Nat /\ spans[i][2] \in Nat
    BY <1>5 DEF Apart
  <1>7. ms \in [1 .. n -> MarkRecords]
    BY <1>1, <1>6 DEF MarkRecords
  <1>8. \A i \in 1 .. n : ms[i].s = spans[i][1] /\ ms[i].e = spans[i][2]
    OBVIOUS
  <1> HIDE DEF ms
  <1> QED
    BY <1>4, <1>5, <1>7, <1>8 DEF MarksOf, spans

\* The words of a report.
LEMMA ReportTyped ==
  ASSUME NEW L, NEW n \in Nat, NEW report, Reported(report, n, L)
  PROVE  /\ DOMAIN report = 1 .. n
         /\ Len(report) = n
         /\ [k \in DOMAIN report |-> report[k].word] \in Seq(Seq(L))
         /\ Len([k \in DOMAIN report |-> report[k].word]) = n
  <1> DEFINE told == [k \in 1 .. n |-> report[k].word]
  <1>1. DOMAIN report = 1 .. n /\ \A i \in 1 .. n : report[i].word \in Seq(L)
    BY DEF Reported
  <1>2. told \in [1 .. n -> Seq(L)]
    BY <1>1
  <1>3. told \in Seq(Seq(L)) /\ Len(told) = n
    BY <1>2
  <1>4. Len(report) = n
    BY <1>1
  <1> QED
    BY <1>1, <1>3, <1>4

\* The document of a report that is in the order of time has its words in the
\* order they were reported in.
LEMMA ReportKept ==
  ASSUME NEW t, NEW L, NEW n \in Nat, NEW report, Reported(report, n, L),
         MeasuredMarks(t, report) \in [1 .. n -> MarkRecords],
         \A i \in 2 .. n : report[i - 1].t <= report[i].t
  PROVE  MarksDocument(MeasuredMarks(t, report)) = MeasuredMarks(t, report)
  <1> DEFINE ms == MeasuredMarks(t, report)
             time == [i \in 1 .. n |-> report[i].t]
  <1>1. DOMAIN report = 1 .. n /\ \A i \in 1 .. n : report[i].t \in Nat
    BY DEF Reported
  <1>2. \A i \in 1 .. n : ms[i].t = report[i].t
    BY <1>1 DEF MeasuredMarks
  <1>3. \A i \in 1 .. n : time[i] \in Nat /\ ms[i].t = time[i]
    BY <1>1, <1>2
  <1>4. \A i \in 2 .. n : time[i - 1] <= time[i]
    OBVIOUS
  <1> HIDE DEF ms, time
  <1> DEFINE Good == {k \in Nat : \A i \in 1 .. n : i + k \in 1 .. n => time[i] <= time[i + k]}
  <1>5. 0 \in Good
    BY <1>3
  <1>6. ASSUME NEW k \in Nat, k \in Good PROVE k + 1 \in Good
    <2> SUFFICES ASSUME NEW i \in 1 .. n, i + (k + 1) \in 1 .. n
                 PROVE  time[i] <= time[i + (k + 1)]
      OBVIOUS
    <2>1. i + k \in 1 .. n /\ i + (k + 1) \in 2 .. n /\ (i + (k + 1)) - 1 = i + k
      OBVIOUS
    <2>2. time[i] <= time[i + k]
      BY <1>6, <2>1
    <2>3. time[i + k] <= time[i + (k + 1)]
      BY <1>4, <2>1
    <2>4. time[i] \in Nat /\ time[i + k] \in Nat /\ time[i + (k + 1)] \in Nat
      BY <1>3, <2>1
    <2> QED
      BY <2>2, <2>3, <2>4
  <1>7. \A i, j \in 1 .. n : i < j => ms[i].t <= ms[j].t
    <2> SUFFICES ASSUME NEW i \in 1 .. n, NEW j \in 1 .. n, i < j PROVE time[i] <= time[j]
      BY <1>3
    <2>1. j - i \in Nat /\ i + (j - i) = j
      OBVIOUS
    <2>2. j - i \in Good
      <3> HIDE DEF Good
      <3> QED
        BY <1>5, <1>6, <2>1, NatInductionIn
    <2> QED
      BY <2>1, <2>2
  <1> QED
    BY <1>7, DocumentKeepsOrder DEF ms

\* The document of measured marks is in the order of time.
LEMMA MeasuredInTime ==
  ASSUME NEW n \in Nat, NEW ms \in [1 .. n -> MarkRecords]
  PROVE  \A i \in 2 .. Len(MarksDocument(ms)) : MarksDocument(ms)[i - 1].t <= MarksDocument(ms)[i].t
  <1>1. PICK order \in [1 .. n -> 1 .. n] : Documents(order, ms, n)
    BY DocumentExists
  <1> DEFINE doc == MarksDocument(ms)
  <1>2. doc = [i \in 1 .. n |-> ms[order[i]]]
    BY <1>1 DEF Documents
  <1>3. Len(doc) = n /\ \A i \in 1 .. n : doc[i] = ms[order[i]] /\ doc[i] \in MarkRecords
    BY <1>2
  <1> HIDE DEF doc
  <1>4. ASSUME NEW i \in 2 .. n PROVE doc[i - 1].t <= doc[i].t
    <2>1. i - 1 \in 1 .. n /\ i \in 1 .. n /\ i - 1 < i
      OBVIOUS
    <2>2. Sooner(ms, order[i - 1], order[i])
      BY <1>1, <2>1 DEF Documents
    <2>3. doc[i - 1].t < doc[i].t \/ doc[i - 1].t = doc[i].t
      BY <1>3, <2>1, <2>2 DEF Sooner
    <2>4. doc[i - 1].t \in Nat /\ doc[i].t \in Nat
      BY <1>3, <2>1 DEF MarkRecords
    <2> QED
      BY <2>3, <2>4
  <1> QED
    BY <1>3, <1>4 DEF doc

\* No letter belongs to two of its words.
LEMMA MeasuredApart ==
  ASSUME NEW n \in Nat, NEW ms, NEW spans, MarksOf(ms, n, spans)
  PROVE  \A i, j \in DOMAIN MarksDocument(ms) :
           i # j => \/ MarksDocument(ms)[i].e <= MarksDocument(ms)[j].s
                    \/ MarksDocument(ms)[j].e <= MarksDocument(ms)[i].s
  <1> DEFINE doc == MarksDocument(ms)
  <1>0. ms \in [1 .. n -> MarkRecords]
    BY DEF MarksOf
  <1>1. PICK order \in [1 .. n -> 1 .. n] : Documents(order, ms, n)
    BY <1>0, DocumentExists
  <1>2. doc = [i \in 1 .. n |-> ms[order[i]]]
    BY <1>1 DEF Documents
  <1>3. DOMAIN doc = 1 .. n /\ \A i \in 1 .. n : doc[i] = ms[order[i]]
    BY <1>2
  <1>4. \A i \in 1 .. n : ms[i].s = spans[i][1] /\ ms[i].e = spans[i][2]
    BY DEF MarksOf
  <1>5. \A i, j \in 1 .. n : i < j => spans[i][2] <= spans[j][1]
    BY DEF MarksOf, Apart
  <1> HIDE DEF doc
  <1>6. ASSUME NEW i \in 1 .. n, NEW j \in 1 .. n, i < j
        PROVE  doc[i].e <= doc[j].s \/ doc[j].e <= doc[i].s
    <2> DEFINE x == order[i]
               y == order[j]
    <2>1. x \in 1 .. n /\ y \in 1 .. n /\ Sooner(ms, x, y)
      BY <1>1, <1>6 DEF Documents
    <2>2. doc[i] = ms[x] /\ doc[j] = ms[y]
      BY <1>3
    <2> HIDE DEF x, y
    <2>3. x # y
      <3>1. ms[x].t \in Nat
        BY <1>0, <2>1 DEF MarkRecords
      <3> QED
        BY <2>1, <3>1 DEF Sooner
    <2>4. CASE x < y
      BY <1>4, <1>5, <2>1, <2>2, <2>4
    <2>5. CASE y < x
      BY <1>4, <1>5, <2>1, <2>2, <2>5
    <2> QED
      BY <2>1, <2>3, <2>4, <2>5
  <1>7. ASSUME NEW i \in 1 .. n, NEW j \in 1 .. n, i # j
        PROVE  doc[i].e <= doc[j].s \/ doc[j].e <= doc[i].s
    <2>1. i < j \/ j < i
      BY <1>7
    <2> QED
      BY <1>6, <2>1
  <1> QED
    BY <1>3, <1>7 DEF doc

ValuesOf(f, S) == {f[i] : i \in S}

\* Two functions with the same values.
LEMMA SameValues ==
  ASSUME NEW S, NEW f, NEW g, \A i \in S : \E j \in S : f[i] = g[j],
         \A i \in S : \E j \in S : g[i] = f[j]
  PROVE  ValuesOf(f, S) = ValuesOf(g, S)
  BY DEF ValuesOf

\* The document has the spans of all marks.
LEMMA MeasuredSpans ==
  ASSUME NEW n \in Nat, NEW ms, NEW spans, MarksOf(ms, n, spans)
  PROVE  Spans(MarksDocument(ms)) = ToSet(spans)
  <1> DEFINE doc == MarksDocument(ms)
  <1>0. ms \in [1 .. n -> MarkRecords]
    BY DEF MarksOf
  <1>1. PICK order \in [1 .. n -> 1 .. n] : Documents(order, ms, n)
    BY <1>0, DocumentExists
  <1>2. doc = [i \in 1 .. n |-> ms[order[i]]]
    BY <1>1 DEF Documents
  <1>3. DOMAIN doc = 1 .. n /\ \A i \in 1 .. n : doc[i] = ms[order[i]]
    BY <1>2
  <1>4. spans \in Seq(Nat \X Nat) /\ DOMAIN spans = 1 .. n
    <2>1. spans \in Seq(Nat \X Nat) /\ Len(spans) = n
      BY DEF MarksOf, Apart
    <2> QED
      BY <2>1
  <1> HIDE DEF doc
  <1>5. \A i \in 1 .. n : spans[i] = <<ms[i].s, ms[i].e>>
    <2>1. \A i \in 1 .. n : spans[i] = <<spans[i][1], spans[i][2]>>
      BY <1>4
    <2>2. \A i \in 1 .. n : ms[i].s = spans[i][1] /\ ms[i].e = spans[i][2]
      BY DEF MarksOf
    <2> QED
      BY <2>1, <2>2
  <1>6. \A i \in 1 .. n : <<doc[i].s, doc[i].e>> = spans[order[i]] /\ order[i] \in 1 .. n
    BY <1>3, <1>5
  <1>7. \A i \in 1 .. n : \E j \in 1 .. n : spans[i] = <<doc[j].s, doc[j].e>>
    <2> SUFFICES ASSUME NEW i \in 1 .. n PROVE \E j \in 1 .. n : spans[i] = <<doc[j].s, doc[j].e>>
      OBVIOUS
    <2>1. PICK j \in 1 .. n : order[j] = i
      BY <1>1 DEF Documents
    <2> QED
      BY <1>6, <2>1
  <1>8. {<<doc[i].s, doc[i].e>> : i \in 1 .. n} = {spans[i] : i \in 1 .. n}
    <2> DEFINE pair == [i \in 1 .. n |-> <<doc[i].s, doc[i].e>>]
    <2>1. \A i \in 1 .. n : pair[i] = <<doc[i].s, doc[i].e>>
      OBVIOUS
    <2> HIDE DEF pair
    <2>2. \A i \in 1 .. n : \E j \in 1 .. n : pair[i] = spans[j]
      BY <1>6, <2>1
    <2>3. \A i \in 1 .. n : \E j \in 1 .. n : spans[i] = pair[j]
      BY <1>7, <2>1
    <2>4. ValuesOf(pair, 1 .. n) = ValuesOf(spans, 1 .. n)
      BY <2>2, <2>3, SameValues
    <2>5. {<<doc[i].s, doc[i].e>> : i \in 1 .. n} = ValuesOf(pair, 1 .. n)
      BY <2>1 DEF ValuesOf
    <2> QED
      BY <2>4, <2>5 DEF ValuesOf
  <1> QED
    BY <1>3, <1>4, <1>8 DEF Spans, ToSet, doc

-----------------------------------------------------------------------------
(* Speaking: estimated marks *)

\* Rounding to the nearest integer leaves no bound and no order behind.
LEMMA NearestBounds ==
  ASSUME NEW n \in Nat, NEW d \in Nat \ {0}, NEW b \in Nat
  PROVE  /\ Nearest(n, d) \in Nat
         /\ n <= b * d => Nearest(n, d) <= b
         /\ b * d <= n => b <= Nearest(n, d)
  <1> DEFINE down == n \div d
             left == n % d
  <1>1. down \in Nat /\ left \in Nat /\ left < d /\ n = d * down + left
    OBVIOUS
  <1> HIDE DEF down, left
  <1>2. \/ Nearest(n, d) = down
        \/ Nearest(n, d) = down + 1 /\ left > 0
    BY <1>1 DEF Nearest, down, left
  <1>3. ASSUME n <= b * d PROVE down <= b /\ (left > 0 => down + 1 <= b)
    <2>1. ASSUME b < down PROVE FALSE
      <3>1. (b + 1) * d <= down * d
        BY <1>1, <2>1
      <3>2. (b + 1) * d = b * d + d /\ down * d = d * down
        BY <1>1
      <3>3. b * d \in Nat /\ d * down \in Nat
        BY <1>1
      <3> QED
        BY <1>1, <1>3, <3>1, <3>2, <3>3
    <2>2. ASSUME b = down, left > 0 PROVE FALSE
      <3>1. d * down \in Nat /\ b * d = d * down
        BY <1>1, <2>2
      <3> QED
        BY <1>1, <1>3, <2>2, <3>1
    <2> QED
      BY <1>1, <2>1, <2>2
  <1>4. ASSUME b * d <= n PROVE b <= down
    <2> SUFFICES ASSUME down < b PROVE FALSE
      BY <1>1
    <2>1. (down + 1) * d <= b * d
      BY <1>1
    <2>2. (down + 1) * d = d * down + d
      BY <1>1
    <2>3. b * d \in Nat /\ d * down \in Nat
      BY <1>1
    <2> QED
      BY <1>1, <1>4, <2>1, <2>2, <2>3
  <1> QED
    BY <1>1, <1>2, <1>3, <1>4

\* Rounding keeps the order.
LEMMA NearestGrows ==
  ASSUME NEW n \in Nat, NEW m \in Nat, NEW d \in Nat \ {0}, n <= m
  PROVE  Nearest(n, d) <= Nearest(m, d)
  <1> DEFINE dn == n \div d
             ln == n % d
             dm == m \div d
             lm == m % d
  <1>1. dn \in Nat /\ ln \in Nat /\ ln < d /\ n = d * dn + ln
    OBVIOUS
  <1>2. dm \in Nat /\ lm \in Nat /\ lm < d /\ m = d * dm + lm
    OBVIOUS
  <1>3. \/ Nearest(n, d) = dn
        \/ Nearest(n, d) = dn + 1 /\ (2 * ln > d \/ (2 * ln = d /\ dn % 2 = 1))
    BY DEF Nearest
  <1>4. \/ Nearest(m, d) = dm /\ ~(2 * lm > d \/ (2 * lm = d /\ dm % 2 = 1))
        \/ Nearest(m, d) = dm + 1
    BY DEF Nearest
  <1> HIDE DEF dn, ln, dm, lm
  <1>5. dn <= dm
    <2> SUFFICES ASSUME dm < dn PROVE FALSE
      BY <1>1, <1>2
    <2>1. (dm + 1) * d <= dn * d
      BY <1>1, <1>2
    <2>2. (dm + 1) * d = d * dm + d /\ dn * d = d * dn /\ d * dm \in Nat /\ d * dn \in Nat
      BY <1>1, <1>2
    <2> QED
      BY <1>1, <1>2, <2>1, <2>2
  <1>6. CASE dn = dm
    <2>1. d * dn = d * dm /\ d * dm \in Nat
      BY <1>2, <1>6
    <2>2. ln <= lm
      BY <1>1, <1>2, <2>1
    <2>3. CASE Nearest(n, d) = dn
      BY <1>1, <1>4, <1>6, <2>3
    <2>4. CASE 2 * ln > d
      <3>1. 2 * lm > d
        BY <1>1, <1>2, <2>2, <2>4
      <3> QED
        BY <1>1, <1>3, <1>4, <1>6, <3>1
    <2>5. CASE 2 * ln = d /\ dn % 2 = 1
      <3>1. 2 * lm > d \/ (2 * lm = d /\ dm % 2 = 1)
        BY <1>1, <1>2, <1>6, <2>2, <2>5
      <3> QED
        BY <1>1, <1>3, <1>4, <1>6, <3>1
    <2> QED
      BY <1>3, <2>3, <2>4, <2>5
  <1>7. CASE dn < dm
    BY <1>1, <1>2, <1>3, <1>4, <1>7
  <1> QED
    BY <1>1, <1>2, <1>5, <1>6, <1>7

\* Anchors go from the begin of the text to its end, forward in the text and
\* never backward in time, and none is after the clip.
Anchoring(anchors, length, clip) ==
  /\ anchors \in Seq(Nat \X Nat)
  /\ Len(anchors) >= 2
  /\ anchors[1][1] = 0
  /\ anchors[Len(anchors)][1] = length
  /\ \A i, j \in 1 .. Len(anchors) :
       i < j => anchors[i][1] < anchors[j][1] /\ anchors[i][2] <= anchors[j][2]
  /\ \A i \in 1 .. Len(anchors) : anchors[i][2] <= clip

\* The offset is between anchor lo and the next, lo the last that is passed.
InSegment(anchors, offset, lo) ==
  /\ lo \in 1 .. Len(anchors) - 1
  /\ anchors[lo][1] <= offset /\ offset <= anchors[lo + 1][1]
  /\ \A i \in 1 .. Len(anchors) - 1 : anchors[i][1] <= offset => i <= lo

Interpolated(anchors, offset, lo) ==
  LET wide == anchors[lo + 1][1] - anchors[lo][1]
  IN  Nearest(anchors[lo][2] * wide
                + (offset - anchors[lo][1]) * (anchors[lo + 1][2] - anchors[lo][2]), wide)

\* What there is to know of two anchors, one after the other.
LEMMA NextAnchors ==
  ASSUME NEW anchors, NEW length \in Nat, NEW clip \in Nat, Anchoring(anchors, length, clip),
         NEW lo \in 1 .. Len(anchors) - 1
  PROVE  /\ anchors[lo][1] \in Nat /\ anchors[lo + 1][1] \in Nat
         /\ anchors[lo][2] \in Nat /\ anchors[lo + 1][2] \in Nat
         /\ anchors[lo][1] < anchors[lo + 1][1] /\ anchors[lo][2] <= anchors[lo + 1][2]
         /\ anchors[lo + 1][2] <= clip
  <1>1. anchors \in Seq(Nat \X Nat) /\ Len(anchors) \in Nat
    BY DEF Anchoring
  <1>2. lo \in 1 .. Len(anchors) /\ lo + 1 \in 1 .. Len(anchors) /\ lo < lo + 1
    BY <1>1
  <1>3. \A i, j \in 1 .. Len(anchors) :
          i < j => anchors[i][1] < anchors[j][1] /\ anchors[i][2] <= anchors[j][2]
    BY DEF Anchoring
  <1>4. anchors[lo + 1][2] <= clip
    BY <1>2 DEF Anchoring
  <1>5. anchors[lo][1] < anchors[lo + 1][1] /\ anchors[lo][2] <= anchors[lo + 1][2]
    BY <1>2, <1>3
  <1>6. \A i \in 1 .. Len(anchors) : anchors[i][1] \in Nat /\ anchors[i][2] \in Nat
    BY <1>1
  <1> QED
    BY <1>2, <1>4, <1>5, <1>6

\* An offset is in the segment of the last anchor that is passed.
LEMMA SegmentFound ==
  ASSUME NEW anchors, NEW length \in Nat, NEW clip \in Nat, Anchoring(anchors, length, clip),
         NEW offset \in 0 .. length
  PROVE  \E lo \in Nat : /\ InSegment(anchors, offset, lo)
                         /\ TimeAt(anchors, offset) = Max({0, Interpolated(anchors, offset, lo)})
  <1> DEFINE passed == {i \in 1 .. (Len(anchors) - 1) : anchors[i][1] <= offset}
             lo == Max(passed)
             wide == anchors[lo + 1][1] - anchors[lo][1]
  <1>1. anchors \in Seq(Nat \X Nat) /\ Len(anchors) \in Nat /\ Len(anchors) >= 2 /\ offset \in Nat
    BY DEF Anchoring
  <1>2. passed \subseteq Nat /\ IsFiniteSet(passed) /\ 1 \in passed
    <2>1. IsFiniteSet(1 .. (Len(anchors) - 1))
      <3>1. 1 \in Int /\ Len(anchors) - 1 \in Int
        BY <1>1
      <3> QED
        BY <3>1, FS_Interval
    <2>2. passed \subseteq 1 .. (Len(anchors) - 1)
      OBVIOUS
    <2>3. 1 \in passed
      BY <1>1 DEF Anchoring
    <2>4. passed \subseteq Nat
      OBVIOUS
    <2> HIDE DEF passed
    <2> QED
      BY <2>1, <2>2, <2>3, <2>4, FS_Subset
  <1>3. lo \in passed /\ \A i \in passed : i <= lo
    <2> HIDE DEF passed
    <2>1. \E x \in passed : \A y \in passed : y <= x
      BY <1>2, GreatestNatural
    <2>2. \E x \in passed : \A y \in passed : x >= y
      BY <1>2, <2>1
    <2>3. lo \in passed /\ \A y \in passed : lo >= y
      BY <2>2 DEF Max
    <2> QED
      BY <1>2, <2>3
  <1>4. TimeAt(anchors, offset)
          = Max({0, Nearest(anchors[lo][2] * wide
                      + (IF offset < anchors[lo][1] THEN 0 ELSE Min({offset - anchors[lo][1], wide}))
                          * (anchors[lo + 1][2] - anchors[lo][2]), wide)})
    BY <1>2 DEF TimeAt
  <1>5. lo \in 1 .. Len(anchors) - 1 /\ anchors[lo][1] <= offset
    BY <1>3
  <1>6. \A i \in 1 .. Len(anchors) - 1 : anchors[i][1] <= offset => i <= lo
    BY <1>3
  <1> HIDE DEF passed, lo
  <1>7. /\ anchors[lo][1] \in Nat /\ anchors[lo + 1][1] \in Nat
        /\ anchors[lo][1] < anchors[lo + 1][1]
    BY <1>5, NextAnchors
  <1>8. offset <= anchors[lo + 1][1]
    <2>1. CASE lo + 1 \in 1 .. Len(anchors) - 1
      <3>1. ~(lo + 1 <= lo)
        BY <1>5
      <3>2. ~(anchors[lo + 1][1] <= offset)
        BY <1>6, <2>1, <3>1
      <3> QED
        BY <1>1, <1>7, <3>2
    <2>2. CASE lo + 1 = Len(anchors)
      BY <2>2 DEF Anchoring
    <2> QED
      BY <1>1, <1>5, <2>1, <2>2
  <1>9. InSegment(anchors, offset, lo)
    BY <1>5, <1>6, <1>8 DEF InSegment
  <1> DEFINE past == offset - anchors[lo][1]
  <1>10. past \in Nat /\ wide \in Nat /\ past <= wide /\ ~(offset < anchors[lo][1])
    <2> DEFINE a == anchors[lo][1]
               b == anchors[lo + 1][1]
    <2>1. a \in Nat /\ b \in Nat /\ a < b /\ a <= offset /\ offset <= b
      BY <1>5, <1>7, <1>8
    <2> HIDE DEF a, b
    <2>2. offset - a \in Nat /\ b - a \in Nat /\ offset - a <= b - a /\ ~(offset < a)
      BY <1>1, <2>1
    <2> QED
      BY <2>2 DEF a, b
  <1>11. Min({past, wide}) = past
    <2> HIDE DEF past, wide
    <2>1. \A x \in {past, wide} : (\A y \in {past, wide} : x <= y) => x = past
      BY <1>10
    <2>2. past \in {past, wide} /\ \A y \in {past, wide} : past <= y
      BY <1>10
    <2> QED
      BY <2>1, <2>2 DEF Min
  <1>12. TimeAt(anchors, offset) = Max({0, Interpolated(anchors, offset, lo)})
    BY <1>4, <1>10, <1>11 DEF Interpolated
  <1> HIDE DEF past, wide
  <1>13. lo \in Nat
    BY <1>1, <1>5
  <1> QED
    BY <1>9, <1>12, <1>13

\* A time between two is between them.
LEMMA BetweenTimes ==
  ASSUME NEW early \in Nat, NEW late \in Nat, early <= late, NEW wide \in Nat \ {0},
         NEW past \in Nat, past <= wide
  PROVE  /\ early * wide + past * (late - early) \in Nat
         /\ early * wide <= early * wide + past * (late - early)
         /\ early * wide + past * (late - early) <= late * wide
  <1> DEFINE more == late - early
  <1>1. more \in Nat /\ late = early + more
    OBVIOUS
  <1> HIDE DEF more
  <1>2. past * more <= wide * more /\ past * more \in Nat /\ wide * more \in Nat
    BY <1>1
  <1>3. (early + more) * wide = early * wide + wide * more /\ early * wide \in Nat
    BY <1>1
  <1>4. late * wide = early * wide + wide * more
    BY <1>1, <1>3
  <1>5. late - early = more
    BY <1>1
  <1> HIDE DEF more
  <1> QED
    BY <1>2, <1>3, <1>4, <1>5

\* The time of an offset is between the times of its two anchors.
LEMMA TimeIsBetween ==
  ASSUME NEW anchors, NEW length \in Nat, NEW clip \in Nat, Anchoring(anchors, length, clip),
         NEW offset \in Nat, NEW lo \in Nat, InSegment(anchors, offset, lo)
  PROVE  /\ Interpolated(anchors, offset, lo) \in Nat
         /\ anchors[lo][2] <= Interpolated(anchors, offset, lo)
         /\ Interpolated(anchors, offset, lo) <= anchors[lo + 1][2]
  <1> DEFINE wide == anchors[lo + 1][1] - anchors[lo][1]
             past == offset - anchors[lo][1]
             early == anchors[lo][2]
             late == anchors[lo + 1][2]
             n == early * wide + past * (late - early)
  <1>1. lo \in 1 .. Len(anchors) - 1 /\ anchors[lo][1] <= offset /\ offset <= anchors[lo + 1][1]
    BY DEF InSegment
  <1>2. /\ anchors[lo][1] \in Nat /\ anchors[lo + 1][1] \in Nat /\ early \in Nat /\ late \in Nat
        /\ anchors[lo][1] < anchors[lo + 1][1] /\ early <= late
    BY <1>1, NextAnchors
  <1>3. wide \in Nat \ {0} /\ past \in Nat /\ past <= wide
    <2> DEFINE a == anchors[lo][1]
               b == anchors[lo + 1][1]
    <2>1. a \in Nat /\ b \in Nat /\ a < b /\ a <= offset /\ offset <= b
      BY <1>1, <1>2
    <2> HIDE DEF a, b
    <2>2. offset - a \in Nat /\ b - a \in Nat \ {0} /\ offset - a <= b - a
      BY <2>1
    <2> QED
      BY <2>2 DEF a, b
  <1>4. Interpolated(anchors, offset, lo) = Nearest(n, wide)
    BY DEF Interpolated
  <1> HIDE DEF wide, past, early, late
  <1>5. n \in Nat /\ early * wide <= n /\ n <= late * wide
    BY <1>2, <1>3, BetweenTimes
  <1> HIDE DEF n
  <1>6. /\ Nearest(n, wide) \in Nat
        /\ early <= Nearest(n, wide)
    BY <1>2, <1>3, <1>5, NearestBounds
  <1>7. Nearest(n, wide) <= late
    BY <1>2, <1>3, <1>5, NearestBounds
  <1> QED
    BY <1>4, <1>6, <1>7 DEF early, late

\* A time is never cut off at zero.
LEMMA MaxWithZero == ASSUME NEW x \in Nat PROVE Max({0, x}) = x
  <1>1. \A y \in {0, x} : (\A z \in {0, x} : y >= z) => y = x
    OBVIOUS
  <1>2. x \in {0, x} /\ \A z \in {0, x} : x >= z
    OBVIOUS
  <1> QED
    BY <1>1, <1>2 DEF Max

\* The time of an offset is interpolated in its segment.
LEMMA TimeOfOffset ==
  ASSUME NEW anchors, NEW length \in Nat, NEW clip \in Nat, Anchoring(anchors, length, clip),
         NEW offset \in 0 .. length
  PROVE  \E lo \in Nat : /\ InSegment(anchors, offset, lo)
                         /\ TimeAt(anchors, offset) = Interpolated(anchors, offset, lo)
  <1>1. PICK lo \in Nat : /\ InSegment(anchors, offset, lo)
                          /\ TimeAt(anchors, offset) = Max({0, Interpolated(anchors, offset, lo)})
    BY SegmentFound
  <1>2. Interpolated(anchors, offset, lo) \in Nat
    BY <1>1, TimeIsBetween
  <1>3. TimeAt(anchors, offset) = Interpolated(anchors, offset, lo)
    BY <1>1, <1>2, MaxWithZero
  <1> QED
    BY <1>1, <1>3

\* What is later in the text is not heard before, and nothing after the clip.
LEMMA TimeGrows ==
  ASSUME NEW anchors, NEW length \in Nat, NEW clip \in Nat, Anchoring(anchors, length, clip),
         NEW p \in 0 .. length, NEW q \in 0 .. length, p <= q
  PROVE  /\ TimeAt(anchors, p) \in Nat /\ TimeAt(anchors, q) \in Nat
         /\ TimeAt(anchors, p) <= TimeAt(anchors, q)
         /\ TimeAt(anchors, q) <= clip
  <1>0. p \in Nat /\ q \in Nat
    OBVIOUS
  <1>1. PICK a \in Nat : InSegment(anchors, p, a) /\ TimeAt(anchors, p) = Interpolated(anchors, p, a)
    BY TimeOfOffset
  <1>2. PICK b \in Nat : InSegment(anchors, q, b) /\ TimeAt(anchors, q) = Interpolated(anchors, q, b)
    BY TimeOfOffset
  <1>3. /\ Interpolated(anchors, p, a) \in Nat
        /\ anchors[a][2] <= Interpolated(anchors, p, a)
        /\ Interpolated(anchors, p, a) <= anchors[a + 1][2]
    BY <1>0, <1>1, TimeIsBetween
  <1>4. /\ Interpolated(anchors, q, b) \in Nat
        /\ anchors[b][2] <= Interpolated(anchors, q, b)
        /\ Interpolated(anchors, q, b) <= anchors[b + 1][2]
    BY <1>0, <1>2, TimeIsBetween
  <1>5. a \in 1 .. Len(anchors) - 1 /\ b \in 1 .. Len(anchors) - 1 /\ Len(anchors) \in Nat
    BY <1>1, <1>2 DEF InSegment, Anchoring
  <1>6. /\ anchors[a][1] \in Nat /\ anchors[a + 1][1] \in Nat
        /\ anchors[a][2] \in Nat /\ anchors[a + 1][2] \in Nat
        /\ anchors[a][1] < anchors[a + 1][1] /\ anchors[a][2] <= anchors[a + 1][2]
    BY <1>5, NextAnchors
  <1>7. anchors[b][2] \in Nat /\ anchors[b + 1][2] \in Nat /\ anchors[b + 1][2] <= clip
    BY <1>5, NextAnchors
  <1>8. a <= b
    <2>1. anchors[a][1] <= p
      BY <1>1 DEF InSegment
    <2>2. anchors[a][1] <= q
      BY <1>0, <1>6, <2>1
    <2> QED
      BY <1>2, <1>5, <2>2 DEF InSegment
  <1>9. CASE a = b
    <2> DEFINE wide == anchors[a + 1][1] - anchors[a][1]
               early == anchors[a][2]
               more == anchors[a + 1][2] - anchors[a][2]
               n == early * wide + (p - anchors[a][1]) * more
               m == early * wide + (q - anchors[a][1]) * more
    <2>1. Interpolated(anchors, p, a) = Nearest(n, wide) /\ Interpolated(anchors, q, b) = Nearest(m, wide)
      BY <1>9 DEF Interpolated
    <2>2. anchors[a][1] <= p /\ p <= q
      BY <1>1 DEF InSegment
    <2>3. wide \in Nat \ {0} /\ early \in Nat /\ more \in Nat
      BY <1>6
    <2> DEFINE x == p - anchors[a][1]
               y == q - anchors[a][1]
    <2>4. x \in Nat /\ y \in Nat /\ x <= y
      <3> DEFINE o == anchors[a][1]
      <3>1. o \in Nat /\ o <= p
        BY <1>6, <2>2
      <3> HIDE DEF o
      <3>2. p - o \in Nat /\ q - o \in Nat /\ p - o <= q - o
        BY <1>0, <2>2, <3>1
      <3> QED
        BY <3>2 DEF o
    <2> HIDE DEF wide, early, more, x, y
    <2>5. x * more <= y * more /\ x * more \in Nat /\ y * more \in Nat /\ early * wide \in Nat
      BY <2>3, <2>4
    <2>6. early * wide + x * more \in Nat /\ early * wide + y * more \in Nat
          /\ early * wide + x * more <= early * wide + y * more
      BY <2>5
    <2>7. n = early * wide + x * more /\ m = early * wide + y * more
      BY DEF x, y
    <2> HIDE DEF n, m
    <2>8. Nearest(n, wide) <= Nearest(m, wide)
      BY <2>3, <2>6, <2>7, NearestGrows
    <2> QED
      BY <1>1, <1>2, <1>3, <1>4, <1>7, <2>1, <2>8
  <1>10. CASE a < b
    <2>1. anchors[a + 1][2] <= anchors[b][2]
      <3>1. a + 1 \in 1 .. Len(anchors) /\ b \in 1 .. Len(anchors)
        BY <1>5
      <3>2. CASE a + 1 = b
        BY <1>6, <3>2
      <3>3. CASE a + 1 < b
        BY <3>1, <3>3 DEF Anchoring
      <3> QED
        BY <1>5, <1>10, <3>2, <3>3
    <2> QED
      BY <1>1, <1>2, <1>3, <1>4, <1>6, <1>7, <2>1
  <1> QED
    BY <1>8, <1>9, <1>10

-----------------------------------------------------------------------------
(* Speaking: the anchors of an estimate *)

\* Anchors of S, forward in the text and never backward in time.
Climbing(S) ==
  {kept \in Seq(S) : \A i, j \in 1 .. Len(kept) :
                       i < j => kept[i][1] < kept[j][1] /\ kept[i][2] <= kept[j][2]}

\* An anchor that goes on from the last one can be appended.
LEMMA ClimbsOn ==
  ASSUME NEW S, S \subseteq Nat \X Nat, NEW kept \in Climbing(S), NEW anchor \in S,
         kept = <<>> \/ (kept[Len(kept)][1] < anchor[1] /\ kept[Len(kept)][2] <= anchor[2])
  PROVE  Append(kept, anchor) \in Climbing(S)
  <1> DEFINE more == Append(kept, anchor)
             n == Len(kept)
  <1>1. /\ kept \in Seq(S) /\ n \in Nat
        /\ \A i, j \in 1 .. n : i < j => kept[i][1] < kept[j][1] /\ kept[i][2] <= kept[j][2]
    BY DEF Climbing
  <1>2. /\ more \in Seq(S) /\ Len(more) = n + 1 /\ more[n + 1] = anchor
        /\ \A i \in 1 .. n : more[i] = kept[i]
    BY <1>1
  <1>3. /\ anchor[1] \in Nat /\ anchor[2] \in Nat
        /\ \A i \in 1 .. n : kept[i][1] \in Nat /\ kept[i][2] \in Nat
    BY <1>1
  <1>4. kept # <<>> => n \in 1 .. n /\ kept[n][1] < anchor[1] /\ kept[n][2] <= anchor[2]
    BY <1>1
  <1>5. n > 0 => kept # <<>>
    BY <1>1
  <1> HIDE DEF more, n
  <1>6. ASSUME NEW i \in 1 .. n PROVE kept[i][1] < anchor[1] /\ kept[i][2] <= anchor[2]
    <2>1. n \in 1 .. n /\ kept[n][1] < anchor[1] /\ kept[n][2] <= anchor[2]
      BY <1>1, <1>4, <1>5
    <2>2. CASE i = n
      BY <2>1, <2>2
    <2>3. CASE i < n
      <3>1. kept[i][1] < kept[n][1] /\ kept[i][2] <= kept[n][2]
        BY <1>1, <2>1, <2>3
      <3> QED
        BY <1>3, <2>1, <3>1
    <2> QED
      BY <1>1, <2>2, <2>3
  <1>7. ASSUME NEW i \in 1 .. n + 1, NEW j \in 1 .. n + 1, i < j
        PROVE  more[i][1] < more[j][1] /\ more[i][2] <= more[j][2]
    <2>1. i \in 1 .. n /\ more[i] = kept[i]
      <3>1. i \in 1 .. n
        BY <1>1, <1>7
      <3> QED
        BY <1>2, <3>1
    <2>2. CASE j = n + 1
      BY <1>2, <1>6, <2>1, <2>2
    <2>3. CASE j # n + 1
      <3>1. j \in 1 .. n
        BY <1>1, <2>3
      <3> QED
        BY <1>1, <1>2, <1>7, <2>1, <3>1
    <2> QED
      BY <2>2, <2>3
  <1> QED
    BY <1>2, <1>7 DEF Climbing, more

\* An anchor before the first one can be put in front.
LEMMA ClimbsFrom ==
  ASSUME NEW S, S \subseteq Nat \X Nat, NEW kept \in Climbing(S), NEW anchor \in S,
         kept # <<>>, anchor[1] < kept[1][1], anchor[2] <= kept[1][2]
  PROVE  <<anchor>> \o kept \in Climbing(S)
  <1> DEFINE more == <<anchor>> \o kept
             n == Len(kept)
  <1>1. /\ kept \in Seq(S) /\ n \in Nat /\ n >= 1
        /\ \A i, j \in 1 .. n : i < j => kept[i][1] < kept[j][1] /\ kept[i][2] <= kept[j][2]
    BY DEF Climbing
  <1>2. /\ more \in Seq(S) /\ Len(more) = n + 1 /\ more[1] = anchor
        /\ \A i \in 1 .. n : more[i + 1] = kept[i]
    BY <1>1
  <1>3. /\ anchor[1] \in Nat /\ anchor[2] \in Nat
        /\ \A i \in 1 .. n : kept[i][1] \in Nat /\ kept[i][2] \in Nat
    BY <1>1
  <1> HIDE DEF more, n
  <1>4. ASSUME NEW i \in 1 .. n PROVE anchor[1] < kept[i][1] /\ anchor[2] <= kept[i][2]
    <2>1. CASE i = 1
      BY <2>1
    <2>2. CASE i # 1
      <3>1. 1 \in 1 .. n /\ 1 < i
        BY <1>1, <2>2
      <3>2. kept[1][1] < kept[i][1] /\ kept[1][2] <= kept[i][2]
        BY <1>1, <3>1
      <3> QED
        BY <1>3, <3>1, <3>2
    <2> QED
      BY <2>1, <2>2
  <1>5. ASSUME NEW i \in 1 .. n + 1, NEW j \in 1 .. n + 1, i < j
        PROVE  more[i][1] < more[j][1] /\ more[i][2] <= more[j][2]
    <2>1. j - 1 \in 1 .. n /\ more[j] = kept[j - 1]
      <3>1. j - 1 \in 1 .. n /\ (j - 1) + 1 = j
        BY <1>1, <1>5
      <3> QED
        BY <1>2, <3>1
    <2>2. CASE i = 1
      BY <1>2, <1>4, <2>1, <2>2
    <2>3. CASE i # 1
      <3>1. i - 1 \in 1 .. n /\ (i - 1) + 1 = i /\ i - 1 < j - 1
        BY <1>1, <1>5, <2>3
      <3>2. more[i] = kept[i - 1]
        BY <1>2, <3>1
      <3> QED
        BY <1>1, <2>1, <3>1, <3>2
    <2> QED
      BY <2>2, <2>3
  <1> QED
    BY <1>2, <1>5 DEF Climbing, more

\* An anchor is kept that goes on in the text and not back in time.
Keeps(kept, anchor) ==
  IF kept # <<>> /\ (anchor[1] <= Last(kept)[1] \/ anchor[2] < Last(kept)[2])
  THEN kept ELSE Append(kept, anchor)

\* With one timepoint more, what is kept goes on forward.
LEMMA KeepsClimbing ==
  ASSUME NEW S, S \subseteq Nat \X Nat, NEW kept \in Climbing(S), NEW anchor \in S
  PROVE  Keeps(kept, anchor) \in Climbing(S)
  <1>1. CASE kept # <<>> /\ (anchor[1] <= Last(kept)[1] \/ anchor[2] < Last(kept)[2])
    BY <1>1 DEF Keeps
  <1>2. CASE kept = <<>>
    <2>1. Append(kept, anchor) \in Climbing(S)
      BY <1>2, ClimbsOn
    <2> QED
      BY <1>2, <2>1 DEF Keeps
  <1>3. CASE kept # <<>> /\ ~(anchor[1] <= Last(kept)[1]) /\ ~(anchor[2] < Last(kept)[2])
    <2> DEFINE last == kept[Len(kept)]
    <2>1. kept \in Seq(S)
      BY DEF Climbing
    <2>2. last \in S
      BY <1>3, <2>1
    <2>3. anchor[1] \in Nat /\ anchor[2] \in Nat /\ last[1] \in Nat /\ last[2] \in Nat
      BY <2>2
    <2>4. ~(anchor[1] <= last[1]) /\ ~(anchor[2] < last[2])
      BY <1>3 DEF Last
    <2>5. last[1] < anchor[1] /\ last[2] <= anchor[2]
      <3> HIDE DEF last
      <3> QED
        BY <2>3, <2>4
    <2>6. Append(kept, anchor) \in Climbing(S)
      BY <2>5, ClimbsOn
    <2> QED
      BY <1>3, <2>6 DEF Keeps
  <1> QED
    BY <1>1, <1>2, <1>3

\* Timepoints, at most one for an offset.
Timepoints(S) ==
  /\ IsFiniteSet(S)
  /\ S \subseteq Nat \X Nat
  /\ \A a, b \in S : a[1] = b[1] => a = b

\* Timepoints at different offsets can be sorted by them.
LEMMA TimepointsSorted ==
  ASSUME NEW S, Timepoints(S)
  PROVE  InOrder(S, LAMBDA a, b : a[1] < b[1]) \in Seq(S)
  <1> DEFINE n == Cardinality(S)
             list == CHOOSE s \in [1 .. n -> S] : \A i, j \in DOMAIN s : i < j => s[i][1] < s[j][1]
  <1>1. InOrder(S, LAMBDA a, b : a[1] < b[1]) = list
    BY DEF InOrder
  <1>2. IsFiniteSet(S) /\ \A a \in S : a[1] \in Nat
    BY DEF Timepoints
  <1>3. \A a, b \in S : <<a, b>> \in ByStart(S) <=> a[1] < b[1]
    BY DEF ByStart
  <1>4. Ordering(ByStart(S), S)
    <2>1. \A a, b \in S : a # b => a[1] < b[1] \/ b[1] < a[1]
      BY <1>2 DEF Timepoints
    <2> QED
      BY <1>2, <1>3, <2>1 DEF Ordering
  <1>5. \A s \in [1 .. n -> S] :
          Along(s, n, ByStart(S)) <=> \A i, j \in DOMAIN s : i < j => s[i][1] < s[j][1]
    <2> SUFFICES ASSUME NEW s \in [1 .. n -> S]
                 PROVE  Along(s, n, ByStart(S)) <=> \A i, j \in 1 .. n : i < j => s[i][1] < s[j][1]
      OBVIOUS
    <2>1. \A i, j \in 1 .. n : <<s[i], s[j]>> \in ByStart(S) <=> s[i][1] < s[j][1]
      BY <1>3
    <2> QED
      BY <2>1 DEF Along
  <1> HIDE DEF list, n
  <1>6. \E s \in [1 .. n -> S] : Along(s, n, ByStart(S))
    BY <1>2, <1>4, SortingExists DEF n
  <1>7. list \in [1 .. n -> S]
    BY <1>5, <1>6 DEF list
  <1>8. n \in Nat
    BY <1>2, FS_CardinalityType DEF n
  <1>9. list \in Seq(S)
    BY <1>7, <1>8
  <1> QED
    BY <1>1, <1>9

\* What is kept of all timepoints goes forward.
LEMMA MonotonicClimbs ==
  ASSUME NEW S, Timepoints(S)
  PROVE  Monotonic(S) \in Climbing(S)
  <1> DEFINE V == Climbing(S)
             list == InOrder(S, LAMBDA a, b : a[1] < b[1])
             n == Len(list)
             Step == [p \in (1 .. n) \X V |-> Keeps(p[2], list[p[1]])]
             Fold(iter) == iter = [s \in SUBSET (1 .. n) |->
                             IF s = {} THEN <<>> ELSE Keeps(iter[s \ {Max(s)}], list[Max(s)])]
             total == CHOOSE iter : Fold(iter)
  <1>0. list \in Seq(S) /\ S \subseteq Nat \X Nat
    BY TimepointsSorted DEF Timepoints
  <1>1. n \in Nat /\ DOMAIN list = 1 .. n /\ \A k \in 1 .. n : list[k] \in S
    <2> HIDE DEF list
    <2> QED
      BY <1>0
  <1>2. Monotonic(S) = total[1 .. n]
    BY <1>1 DEF Monotonic, FoldLeft, MapThenFoldSet, Keeps
  <1> HIDE DEF list, n, total
  <1>3. Step \in [(1 .. n) \X V -> V]
    <2> HIDE DEF V
    <2>1. \A k \in 1 .. n, kept \in V : Keeps(kept, list[k]) \in V
      BY <1>0, <1>1, KeepsClimbing DEF V
    <2> QED
      BY <2>1
  <1>4. <<>> \in V
    BY DEF Climbing
  <1>5. \A k \in 1 .. n, kept \in V : Step[<<k, kept>>] = Keeps(kept, list[k])
    OBVIOUS
  <1>6. \A s \in SUBSET (1 .. n) : s # {} => Max(s) \in 1 .. n /\ s \ {Max(s)} \in SUBSET (1 .. n)
    BY <1>1, GreatestIsIn DEF Picks
  <1> HIDE DEF Step, V
  <1>n. n \in Nat
    BY <1>1
  <1>7. \E iter : Fold(iter)
    <2>1. PICK iter \in [SUBSET (1 .. n) -> V] : FoldsUp(iter, n, <<>>, Step)
      BY <1>n, <1>3, <1>4, FoldExists
    <2>2. \A s \in SUBSET (1 .. n) :
            iter[s] = IF s = {} THEN <<>> ELSE Keeps(iter[s \ {Max(s)}], list[Max(s)])
      BY <1>5, <1>6, <2>1 DEF FoldsUp
    <2>3. Fold(iter)
      BY <2>2
    <2> QED
      BY <2>3
  <1>8. Fold(total)
    BY <1>7 DEF total
  <1>9. Totals(total, n, V, <<>>, Step)
    <2>1. \A s \in SUBSET (1 .. n) :
            total[s] = IF s = {} THEN <<>> ELSE Keeps(total[s \ {Max(s)}], list[Max(s)])
      BY <1>8
    <2> QED
      BY <1>5, <1>6, <2>1 DEF Totals
  <1> HIDE DEF Fold
  <1>10. PICK run \in [0 .. n -> V] : RunsTo(run, n, <<>>, Step, total)
    BY <1>n, <1>3, <1>4, <1>9, FoldIsRun
  <1>11. total[1 .. n] = run[n] /\ run[n] \in V
    BY <1>n, <1>10 DEF RunsTo
  <1> QED
    BY <1>2, <1>11 DEF V

\* Without timepoints the text is stretched over the clip.
LEMMA WholeChunkAnchors ==
  ASSUME NEW t, Len(t) \in Nat, Len(t) > 0, NEW clip \in Nat
  PROVE  Anchoring(WholeChunk(t, clip), Len(t), clip)
  <1> DEFINE anchors == <<<<0, 0>>, <<Len(t), clip>>>>
  <1>1. anchors \in Seq(Nat \X Nat) /\ Len(anchors) = 2
    OBVIOUS
  <1>2. anchors[1] = <<0, 0>> /\ anchors[2] = <<Len(t), clip>>
    OBVIOUS
  <1> HIDE DEF anchors
  <1>3. \A i \in 1 .. 2 : i = 1 \/ i = 2
    OBVIOUS
  <1>4. ASSUME NEW i \in 1 .. 2, NEW j \in 1 .. 2, i < j
        PROVE  anchors[i][1] < anchors[j][1] /\ anchors[i][2] <= anchors[j][2]
    <2>1. i = 1 /\ j = 2
      BY <1>4
    <2> QED
      BY <1>2, <2>1
  <1>5. \A i \in 1 .. 2 : anchors[i][2] <= clip
    BY <1>2, <1>3
  <1>6. Anchoring(anchors, Len(t), clip)
    BY <1>1, <1>2, <1>4, <1>5 DEF Anchoring
  <1> QED
    BY <1>6 DEF WholeChunk, anchors

\* The sentences' timepoints, with the begin of the text and its end.
LEMMA TimepointAnchors ==
  ASSUME NEW t, Len(t) \in Nat, Len(t) > 0, NEW clip \in Nat, NEW S, Timepoints(S),
         \A a \in S : a[1] < Len(t) /\ a[2] <= clip
  PROVE  Anchoring(AnchorsFromTimepoints(t, S, clip), Len(t), clip)
  <1> DEFINE kept == Monotonic(S)
             T == Nat \X Nat
             A == {a \in T : a[2] <= clip}
             m == Len(kept)
             start == IF kept[1][1] # 0 THEN <<<<0, 0>>>> ELSE <<>>
             begun == start \o kept
             whole == Append(begun, <<Len(t), clip>>)
  <1>1. S \subseteq A /\ A \subseteq T
    BY DEF Timepoints
  <1>2. kept \in Climbing(S)
    BY MonotonicClimbs
  <1>3. CASE Len(kept) < 2
    BY <1>3, WholeChunkAnchors DEF AnchorsFromTimepoints
  <1>4. CASE ~(Len(kept) < 2)
    <2> HIDE DEF kept, A, T
    <2>0. kept \in Seq(S) /\ m \in Nat /\ m >= 2
      BY <1>2, <1>4 DEF Climbing
    <2>1. kept[m][1] < Len(t) /\ kept[m][2] <= clip /\ kept[m][1] \in Nat /\ kept[m][2] \in Nat
      <3>1. kept[m] \in S
        BY <2>0
      <3> QED
        BY <1>1, <3>1 DEF T
    <2>2. kept[1][1] \in Nat /\ kept[1][2] \in Nat
      <3>1. kept[1] \in S
        BY <2>0
      <3> QED
        BY <1>1, <3>1 DEF T
    <2>3. kept \in Climbing(A)
      <3>1. kept \in Seq(A)
        BY <1>1, <2>0
      <3> QED
        BY <1>2, <3>1 DEF Climbing
    <2>4. AnchorsFromTimepoints(t, S, clip) = whole
      <3>1. kept[Len(kept)][1] # Len(t)
        BY <2>1
      <3>2. Last(kept)[1] # Len(t)
        BY <3>1 DEF Last
      <3>3. AnchorsFromTimepoints(t, S, clip) = start \o kept \o <<<<Len(t), clip>>>>
        <4> DEFINE end == IF Last(kept)[1] # Len(t) THEN <<<<Len(t), clip>>>> ELSE <<>>
        <4>1. AnchorsFromTimepoints(t, S, clip)
                = IF Len(kept) < 2 THEN WholeChunk(t, clip) ELSE start \o kept \o end
          BY DEF AnchorsFromTimepoints, kept
        <4>2. end = <<<<Len(t), clip>>>>
          BY <3>2
        <4> HIDE DEF end, start
        <4> QED
          BY <1>4, <4>1, <4>2
      <3>4. begun \in Seq(Nat \X Nat)
        <4>1. kept \in Seq(Nat \X Nat)
          BY <2>0 DEF Timepoints
        <4>2. start \in Seq(Nat \X Nat)
          <5>1. <<<<0, 0>>>> \in Seq(Nat \X Nat) /\ <<>> \in Seq(Nat \X Nat)
            OBVIOUS
          <5> QED
            BY <5>1
        <4> HIDE DEF start
        <4> QED
          BY <4>1, <4>2
      <3> HIDE DEF begun
      <3>5. begun \o <<<<Len(t), clip>>>> = Append(begun, <<Len(t), clip>>)
        BY <3>4
      <3> QED
        BY <3>3, <3>5 DEF begun
    <2>5. begun \in Climbing(A) /\ begun # <<>> /\ begun[1][1] = 0 /\ begun[Len(begun)] = kept[m]
          /\ Len(begun) \in Nat /\ Len(begun) >= 2
      <3>1. CASE kept[1][1] = 0
        <4>1. begun = kept
          BY <2>0, <3>1
        <4> QED
          BY <2>0, <2>3, <3>1, <4>1
      <3>2. CASE kept[1][1] # 0
        <4>1. begun = <<<<0, 0>>>> \o kept
          BY <3>2
        <4>2. <<0, 0>> \in A /\ <<0, 0>>[1] < kept[1][1] /\ <<0, 0>>[2] <= kept[1][2] /\ kept # <<>>
          BY <2>0, <2>2, <3>2 DEF A, T
        <4>3. begun \in Climbing(A)
          BY <1>1, <2>3, <4>1, <4>2, ClimbsFrom DEF T
        <4>4. Len(begun) = m + 1 /\ begun[1] = <<0, 0>> /\ begun[m + 1] = kept[m]
          BY <2>0, <4>1
        <4> QED
          BY <2>0, <4>3, <4>4
      <3> QED
        BY <3>1, <3>2
    <2> HIDE DEF begun
    <2>6. whole \in Climbing(A)
      <3>1. <<Len(t), clip>> \in A
        BY DEF A, T
      <3> QED
        BY <1>1, <2>1, <2>5, <3>1, ClimbsOn DEF T
    <2>7. /\ Len(whole) = Len(begun) + 1 /\ whole[Len(begun) + 1] = <<Len(t), clip>>
          /\ whole[1] = begun[1]
      <3>1. begun \in Seq(A)
        BY <2>5 DEF Climbing
      <3> QED
        BY <2>5, <3>1
    <2> HIDE DEF whole
    <2>8. /\ whole \in Seq(A)
          /\ \A i, j \in 1 .. Len(whole) : i < j => whole[i][1] < whole[j][1] /\ whole[i][2] <= whole[j][2]
      BY <2>6 DEF Climbing
    <2>9. whole \in Seq(Nat \X Nat) /\ \A i \in 1 .. Len(whole) : whole[i][2] <= clip
      BY <2>8 DEF A, T
    <2>10. Len(whole) >= 2 /\ whole[1][1] = 0 /\ whole[Len(whole)][1] = Len(t)
      BY <2>5, <2>7
    <2>11. Anchoring(whole, Len(t), clip)
      BY <2>8, <2>9, <2>10 DEF Anchoring
    <2> QED
      BY <2>4, <2>11
  <1> QED
    BY <1>3, <1>4

\* Every word once, in the order of the text, and none is heard longer than
\* until the next begins, nor the last one longer than the clip.
WellEstimated(t, clip, ms) ==
  /\ [i \in DOMAIN ms |-> <<ms[i].s, ms[i].e>>] = IterWords(t)
  /\ \A i \in DOMAIN ms : ms[i].t + ms[i].d <= IF i < Len(ms) THEN ms[i + 1].t ELSE clip

\* The document of estimated marks follows the text.
LEMMA EstimateIsWell ==
  ASSUME NEW t, Len(t) \in Nat, NEW clip \in Nat, NEW anchors, Anchoring(anchors, Len(t), clip)
  PROVE  WellEstimated(t, clip, MarksDocument(EstimateWordMarks(t, anchors)))
  <1> DEFINE words == IterWords(t)
             n == Len(words)
             from == [i \in 1 .. n |-> TimeAt(anchors, words[i][1])]
             to == [i \in 1 .. n |-> TimeAt(anchors, words[i][2])]
             ms == [i \in 1 .. n |-> [t |-> from[i], d |-> Max({from[i], to[i]}) - from[i],
                                      s |-> words[i][1], e |-> words[i][2]]]
  <1>1. Wording(t, words)
    BY WordsInOrder
  <1> HIDE DEF words
  <1>2. words \in Seq(Nat \X Nat) /\ n \in Nat /\ DOMAIN words = 1 .. n
    BY <1>1 DEF Wording
  <1>3. EstimateWordMarks(t, anchors) = ms
    BY <1>2 DEF EstimateWordMarks, words
  <1> HIDE DEF ms
  <1>4. \A i \in 1 .. n : /\ words[i][1] \in 0 .. Len(t) /\ words[i][2] \in 0 .. Len(t)
                          /\ words[i][1] <= words[i][2]
    <2> SUFFICES ASSUME NEW i \in 1 .. n
                 PROVE  /\ words[i][1] \in 0 .. Len(t) /\ words[i][2] \in 0 .. Len(t)
                        /\ words[i][1] <= words[i][2]
      OBVIOUS
    <2>1. words[i][1] \in Nat /\ words[i][2] \in Nat
      BY <1>2
    <2>2. words[i][1] < words[i][2] /\ words[i][2] <= Len(t)
      BY <1>1 DEF Wording
    <2> QED
      BY <2>1, <2>2
  <1>5. \A i \in 1 .. n : /\ from[i] \in Nat /\ to[i] \in Nat /\ from[i] <= to[i] /\ to[i] <= clip
    <2> SUFFICES ASSUME NEW i \in 1 .. n
                 PROVE  from[i] \in Nat /\ to[i] \in Nat /\ from[i] <= to[i] /\ to[i] <= clip
      OBVIOUS
    <2> QED
      BY <1>4, TimeGrows
  <1>6. \A i, j \in 1 .. n : i < j => to[i] <= from[j]
    <2> SUFFICES ASSUME NEW i \in 1 .. n, NEW j \in 1 .. n, i < j PROVE to[i] <= from[j]
      OBVIOUS
    <2>1. \A x, y \in 1 .. n : x < y => words[x][2] < words[y][1]
      BY <1>1 DEF Wording
    <2>2. words[i][2] <= words[j][1]
      BY <1>4, <2>1
    <2> QED
      BY <1>4, <2>2, TimeGrows
  <1> HIDE DEF from, to, n
  <1>7. ASSUME NEW i \in 1 .. n
        PROVE  /\ ms[i] \in MarkRecords /\ ms[i].t = from[i] /\ ms[i].t + ms[i].d = to[i]
               /\ ms[i].s = words[i][1] /\ ms[i].e = words[i][2]
    <2>1. from[i] \in Nat /\ to[i] \in Nat /\ from[i] <= to[i]
      BY <1>5
    <2>2. Max({from[i], to[i]}) = to[i]
      <3> DEFINE a == from[i]
                 b == to[i]
      <3>1. a \in Nat /\ b \in Nat /\ a <= b
        BY <2>1
      <3> HIDE DEF a, b
      <3>2. \A y \in {a, b} : (\A z \in {a, b} : y >= z) => y = b
        BY <3>1
      <3>3. b \in {a, b} /\ \A z \in {a, b} : b >= z
        BY <3>1
      <3>4. Max({a, b}) = b
        BY <3>2, <3>3 DEF Max
      <3> QED
        BY <3>4 DEF a, b
    <2>3. /\ ms[i].t = from[i] /\ ms[i].d = to[i] - from[i]
          /\ ms[i].s = words[i][1] /\ ms[i].e = words[i][2]
          /\ ms[i] = [t |-> from[i], d |-> to[i] - from[i], s |-> words[i][1], e |-> words[i][2]]
      BY <2>2 DEF ms
    <2>4. to[i] - from[i] \in Nat /\ from[i] + (to[i] - from[i]) = to[i]
      BY <2>1
    <2>5. words[i][1] \in Nat /\ words[i][2] \in Nat
      BY <1>4
    <2>6. ms[i] \in MarkRecords
      BY <2>1, <2>3, <2>4, <2>5 DEF MarkRecords
    <2> QED
      BY <2>3, <2>4, <2>6
  <1>8. ms \in [1 .. n -> MarkRecords]
    <2>1. ms = [i \in 1 .. n |-> ms[i]]
      BY DEF ms
    <2> QED
      BY <1>7, <2>1
  <1>9. \A i, j \in 1 .. n : i < j => ms[i].t <= ms[j].t
    <2> SUFFICES ASSUME NEW i \in 1 .. n, NEW j \in 1 .. n, i < j PROVE ms[i].t <= ms[j].t
      OBVIOUS
    <2>1. from[i] <= to[i] /\ to[i] <= from[j] /\ from[i] \in Nat /\ to[i] \in Nat /\ from[j] \in Nat
      BY <1>5, <1>6
    <2>2. from[i] <= from[j]
      BY <2>1
    <2> QED
      BY <1>7, <2>2
  <1>a. n \in Nat
    BY <1>2 DEF n
  <1>10. MarksDocument(ms) = ms
    BY <1>8, <1>9, <1>a, DocumentKeepsOrder
  <1>11. DOMAIN ms = 1 .. n /\ Len(ms) = n
    BY <1>8, <1>a
  <1>12. [i \in DOMAIN ms |-> <<ms[i].s, ms[i].e>>] = words
    <2>1. words = [i \in 1 .. n |-> words[i]]
      BY <1>2 DEF n
    <2>2. \A i \in 1 .. n : words[i] = <<words[i][1], words[i][2]>>
      BY <1>2 DEF n
    <2>3. \A i \in 1 .. n : <<ms[i].s, ms[i].e>> = words[i]
      BY <1>7, <2>2
    <2>4. [i \in 1 .. n |-> <<ms[i].s, ms[i].e>>] = [i \in 1 .. n |-> words[i]]
      BY <2>3
    <2> QED
      BY <1>11, <2>1, <2>4
  <1>13. ASSUME NEW i \in 1 .. n
         PROVE  ms[i].t + ms[i].d <= IF i < n THEN ms[i + 1].t ELSE clip
    <2>1. ms[i].t + ms[i].d = to[i] /\ to[i] <= clip
      BY <1>5, <1>7
    <2>2. CASE i < n
      <3>1. i + 1 \in 1 .. n /\ i < i + 1
        BY <1>a, <2>2
      <3>2. to[i] <= from[i + 1] /\ ms[i + 1].t = from[i + 1]
        BY <1>6, <1>7, <3>1
      <3> QED
        BY <2>1, <2>2, <3>2
    <2>3. CASE ~(i < n)
      BY <2>1, <2>3
    <2> QED
      BY <2>2, <2>3
  <1>14. WellEstimated(t, clip, ms)
    BY <1>11, <1>12, <1>13 DEF WellEstimated, words
  <1> QED
    BY <1>3, <1>10, <1>14

-----------------------------------------------------------------------------
(* Speaking: the words follow the text *)

\* Measured and Estimated, of any text, report and document.
NearText(t) ==
  \A i \in DOMAIN IterWords(t) :
    IterWords(t)[i][1] - (IF i = 1 THEN 0 ELSE IterWords(t)[i - 1][2]) <= Lookahead

WellMeasured(t, report, ms) ==
  /\ \A i \in 2 .. Len(ms) : ms[i - 1].t <= ms[i].t
  /\ \A i, j \in DOMAIN ms : i # j => ms[i].e <= ms[j].s \/ ms[j].e <= ms[i].s
  /\ NearText(t) /\ [i \in DOMAIN report |-> report[i].word] = WordsOf(t)
       => Spans(ms) = ToSet(IterWords(t))
  /\ NearText(t) /\ (\A i \in 2 .. Len(report) : report[i - 1].t <= report[i].t)
       => \A i \in 2 .. Len(report), j \in 2 .. Len(IterWords(t)) :
            /\ <<ms[i - 1].s, ms[i - 1].e>> = IterWords(t)[j - 1]
            /\ report[i].word = WordsOf(t)[j]
            => <<ms[i].s, ms[i].e>> = IterWords(t)[j]

Followed(t, report, clip, ms, list) ==
  IF Last(list)[1] = "edge" THEN WellMeasured(t, report, ms)
  ELSE (\A timepoint \in report : timepoint[2] <= clip) => WellEstimated(t, clip, ms)

\* The property, as a formula of the values it is about.
LEMMA FollowIs ==
  WordsFollowText <=> (outcome = "spoken" => Followed(text, heard, duration, marks, answers))
  <1>1. Measured <=> WellMeasured(text, heard, marks)
    BY DEF Measured, WellMeasured, Near, NearText, At
  <1>2. Estimated <=> ((\A timepoint \in heard : timepoint[2] <= duration)
                         => WellEstimated(text, duration, marks))
    BY DEF Estimated, WellEstimated
  <1> QED
    BY <1>1, <1>2 DEF WordsFollowText, Followed

\* A text has at least one place.
LEMMA TextTyped ==
  ASSUME NEW t \in Texts
  PROVE  t \in Seq(Letters \cup {Space}) /\ Len(t) \in Nat /\ Len(t) > 0
  <1>1. PICK n \in 1 .. MaxText : t \in [1 .. n -> Letters \cup {Space}]
    BY DEF Texts
  <1>2. n \in Nat /\ n > 0
    BY SpeakingAssumption DEF SpeakingAssumption
  <1>3. t \in Seq(Letters \cup {Space}) /\ Len(t) = n
    BY <1>1, <1>2
  <1> QED
    BY <1>2, <1>3

\* What edge-tts measured makes a document that follows the text.
LEMMA MeasuringFollows ==
  ASSUME NEW t \in Texts, NEW n \in Nat, NEW report, Reported(report, n, Letters)
  PROVE  WellMeasured(t, report, MarksDocument(MeasuredMarks(t, report)))
  <1> DEFINE ms == MeasuredMarks(t, report)
             spans == SpansOf(t, report)
             doc == MarksDocument(ms)
  <1>1. t \in Seq(Letters \cup {Space}) /\ Len(t) \in Nat
    BY TextTyped
  <1>2. MarksOf(ms, n, spans)
    BY <1>1, MarksMeasured
  <1>3. ms \in [1 .. n -> MarkRecords]
    BY <1>2 DEF MarksOf
  <1>d. (\A i \in 2 .. n : report[i - 1].t <= report[i].t) => doc = ms
    BY <1>3, ReportKept
  <1> HIDE DEF ms
  <1>4. \A i \in 2 .. Len(doc) : doc[i - 1].t <= doc[i].t
    BY <1>3, MeasuredInTime
  <1>5. \A i, j \in DOMAIN doc : i # j => doc[i].e <= doc[j].s \/ doc[j].e <= doc[i].s
    BY <1>2, MeasuredApart
  <1>6. Spans(doc) = ToSet(spans)
    BY <1>2, MeasuredSpans
  <1>b. NearText(t) => NearWords(t)
    <2>1. DOMAIN IterWords(t) = 1 .. Len(IterWords(t))
      <3>1. IterWords(t) \in Seq(Nat \X Nat)
        BY <1>1, WordsInOrder DEF Wording
      <3> QED
        BY <3>1
    <2> QED
      BY <2>1 DEF NearText, NearWords, EndBefore
  <1>7. ASSUME NearText(t), [i \in DOMAIN report |-> report[i].word] = WordsOf(t)
        PROVE  Spans(doc) = ToSet(IterWords(t))
    <2>1. spans = AlignWords(t, WordsOf(t))
      BY <1>7 DEF SpansOf
    <2>2. NearWords(t)
      BY <1>7, <1>b
    <2>3. spans = IterWords(t)
      BY <1>1, <2>1, <2>2, WordsAreFound
    <2> QED
      BY <1>6, <2>3
  <1>c. ASSUME NearText(t), \A i \in 2 .. Len(report) : report[i - 1].t <= report[i].t,
               NEW i \in 2 .. Len(report), NEW j \in 2 .. Len(IterWords(t)),
               <<doc[i - 1].s, doc[i - 1].e>> = IterWords(t)[j - 1], report[i].word = WordsOf(t)[j]
        PROVE  <<doc[i].s, doc[i].e>> = IterWords(t)[j]
    <2> DEFINE told == [k \in DOMAIN report |-> report[k].word]
    <2>1. DOMAIN report = 1 .. n /\ Len(report) = n /\ told \in Seq(Seq(Letters)) /\ Len(told) = n
      BY ReportTyped
    <2>2. doc = ms
      BY <1>c, <1>d, <2>1
    <2>3. i \in 1 .. n /\ i - 1 \in 1 .. n /\ i \in 2 .. Len(told)
      BY <1>c, <2>1
    <2>4. spans = AlignWords(t, told)
      BY DEF SpansOf
    <2>5. spans \in Seq(Nat \X Nat) /\ Len(spans) = n
      BY <1>1, <2>1, <2>4, SpansAreApart DEF Apart
    <2>6. \A k \in 1 .. n : <<ms[k].s, ms[k].e>> = spans[k]
      BY <1>2, <2>5 DEF MarksOf
    <2>7. told[i] = WordsOf(t)[j]
      BY <1>c, <2>1, <2>3
    <2> HIDE DEF told, spans, doc
    <2>8. AlignWords(t, told)[i - 1] = IterWords(t)[j - 1]
      BY <1>c, <2>2, <2>3, <2>4, <2>6
    <2>9. AlignWords(t, told)[i] = IterWords(t)[j]
      <3>1. NearWords(t) /\ told \in Seq(Seq(Letters))
        BY <1>b, <1>c, <2>1 DEF told
      <3> QED
        BY <1>1, <2>3, <2>7, <2>8, <3>1, NextIsFound
    <2> QED
      BY <2>2, <2>3, <2>4, <2>6, <2>9
  <1> HIDE DEF doc
  <1>8. WellMeasured(t, report, doc)
    BY <1>4, <1>5, <1>7, <1>c DEF WellMeasured
  <1> QED
    BY <1>8 DEF doc, ms

\* A sentence begins in the text.
LEMMA SentencesTyped ==
  ASSUME text \in Texts, NEW sentences \in Sentences
  PROVE  IsFiniteSet(sentences) /\ \A first \in sentences : first \in Nat /\ first < Len(text)
  <1> DEFINE words == IterWords(text)
             n == Len(words)
             begin == [i \in 1 .. n |-> words[i][1]]
             begins == {words[i][1] : i \in DOMAIN words}
  <1>1. Len(text) \in Nat /\ Wording(text, words)
    BY TextTyped, WordsInOrder
  <1>2. sentences \subseteq begins
    BY DEF Sentences
  <1> HIDE DEF words
  <1>3. words \in Seq(Nat \X Nat) /\ n \in Nat /\ DOMAIN words = 1 .. n
    BY <1>1 DEF Wording
  <1>4. \A i \in 1 .. n : begin[i] = words[i][1] /\ words[i][1] \in Nat /\ words[i][1] < Len(text)
    <2> SUFFICES ASSUME NEW i \in 1 .. n PROVE words[i][1] \in Nat /\ words[i][1] < Len(text)
      OBVIOUS
    <2>1. words[i][1] \in Nat /\ words[i][2] \in Nat
      BY <1>3
    <2>2. words[i][1] < words[i][2] /\ words[i][2] <= Len(text)
      BY <1>1 DEF Wording
    <2> QED
      BY <1>1, <2>1, <2>2
  <1>5. begin \in Surjection(1 .. n, begins)
    BY <1>3 DEF Surjection
  <1>6. IsFiniteSet(1 .. n)
    BY <1>3, FS_Interval
  <1> HIDE DEF n, begin, begins
  <1>7. IsFiniteSet(begins)
    BY <1>5, <1>6, FS_Surjection
  <1>8. IsFiniteSet(sentences)
    BY <1>2, <1>7, FS_Subset
  <1>9. \A first \in begins : first \in Nat /\ first < Len(text)
    BY <1>3, <1>4 DEF begins
  <1> QED
    BY <1>2, <1>8, <1>9

\* What Google's timepoints let estimate follows the text, if none of them is
\* after the clip.
LEMMA EstimatingFollows ==
  ASSUME text \in Texts, NEW sentences \in Sentences, NEW told \in SUBSET sentences,
         NEW clip \in Nat, NEW time \in [told -> Nat], NEW S, S = {<<first, time[first]>> : first \in told},
         \A a \in S : a[2] <= clip
  PROVE  WellEstimated(text, clip,
           MarksDocument(EstimateWordMarks(text, AnchorsFromTimepoints(text, S, clip))))
  <1>1. Len(text) \in Nat /\ Len(text) > 0
    BY TextTyped
  <1>2. IsFiniteSet(told) /\ \A first \in told : first \in Nat /\ first < Len(text)
    BY SentencesTyped, FS_Subset
  <1>3. IsFiniteSet(S)
    <2> DEFINE pair == [first \in told |-> <<first, time[first]>>]
    <2>1. pair \in Surjection(told, S)
      BY DEF Surjection
    <2> QED
      BY <1>2, <2>1, FS_Surjection
  <1>4. \A a \in S : a \in Nat \X Nat /\ a[1] < Len(text)
    BY <1>2
  <1>5. \A a, b \in S : a[1] = b[1] => a = b
    OBVIOUS
  <1>6. Timepoints(S)
    BY <1>3, <1>4, <1>5 DEF Timepoints
  <1>7. Anchoring(AnchorsFromTimepoints(text, S, clip), Len(text), clip)
    BY <1>1, <1>4, <1>6, TimepointAnchors
  <1> QED
    BY <1>1, <1>7, EstimateIsWell

\* An engine that spoke is the last that answered.
LEMMA SpokeLast ==
  ASSUME AskingInv, outcome = "calling", Answers("spoken")
  PROVE  Last(answers')[1] = Head(engines)
  <1>1. PICK e \in Nat, g \in Nat : answers = Failures(e, g)
    BY AskingCounted
  <1> DEFINE entry == <<Head(engines), "spoken">>
             A == {answers[i] : i \in 1 .. e + g} \cup {entry}
  <1>2. answers \in Seq(A) /\ Len(answers) = e + g /\ entry \in A
    <2>1. DOMAIN answers = 1 .. e + g /\ answers = [i \in 1 .. e + g |-> answers[i]]
      BY <1>1 DEF Failures
    <2>2. e + g \in Nat
      OBVIOUS
    <2>3. \A i \in 1 .. e + g : answers[i] \in A
      OBVIOUS
    <2> HIDE DEF A
    <2>4. answers \in [1 .. e + g -> A]
      BY <2>1, <2>3
    <2>5. entry \in A
      BY DEF A
    <2> QED
      BY <2>2, <2>4, <2>5
  <1>3. answers' = Append(answers, entry)
    BY DEF Answers
  <1> HIDE DEF A, entry
  <1>4. Len(answers') = Len(answers) + 1 /\ answers'[Len(answers) + 1] = entry
    BY <1>2, <1>3
  <1> QED
    BY <1>4 DEF Last, entry

\* Every step keeps the highlight with the text.
LEMMA FollowStep ==
  AskingInv /\ WordsFollowText /\ [SpeakNext]_speakVars => WordsFollowText'
  <1> SUFFICES ASSUME AskingInv, WordsFollowText, [SpeakNext]_speakVars PROVE WordsFollowText'
    OBVIOUS
  <1>0. (WordsFollowText <=> (outcome = "spoken" => Followed(text, heard, duration, marks, answers)))'
    BY FollowIs, PTL
  <1>a. text \in Texts
    BY DEF AskingInv, SpeakTyped
  <1>1. CASE AttemptFails \/ CutOff \/ GoogleRefuses \/ GoogleMalformed \/ StubDisabled
    <2>1. outcome' # "spoken"
      BY <1>1 DEF AttemptFails, CutOff, GoogleRefuses, GoogleMalformed, StubDisabled, Uses, GiveUp
    <2> QED
      BY <1>0, <2>1
  <1>2. CASE EdgeSpeaks
    <2>a. PICK n \in 0 .. MaxHeard : \E words \in [1 .. n -> Reports], backwards \in BOOLEAN :
            LET report == [i \in 1 .. n |-> [word |-> words[i], t |-> IF backwards THEN n - i ELSE i,
                                            d |-> 1]]
            IN  Speaks(report, MaxDuration, MeasuredMarks(text, report))
      BY <1>2 DEF EdgeSpeaks
    <2>1. PICK words \in [1 .. n -> Reports], backwards \in BOOLEAN :
            LET report == [i \in 1 .. n |-> [word |-> words[i], t |-> IF backwards THEN n - i ELSE i,
                                            d |-> 1]]
            IN  Speaks(report, MaxDuration, MeasuredMarks(text, report))
      BY <2>a
    <2> DEFINE report == [i \in 1 .. n |-> [word |-> words[i], t |-> IF backwards THEN n - i ELSE i,
                                           d |-> 1]]
    <2>2. Speaks(report, MaxDuration, MeasuredMarks(text, report))
      BY <2>1
    <2>3. n \in Nat
      BY SpeakingAssumption DEF SpeakingAssumption
    <2>4. Reported(report, n, Letters)
      <3>1. \A word \in Reports : word \in Seq(Letters)
        <4> SUFFICES ASSUME NEW word \in Reports PROVE word \in Seq(Letters)
          OBVIOUS
        <4>1. PICK k \in 0 .. MaxReported : word \in [1 .. k -> Letters]
          BY DEF Reports
        <4>2. k \in Nat
          BY SpeakingAssumption DEF SpeakingAssumption
        <4> QED
          BY <4>1, <4>2
      <3>2. DOMAIN report = 1 .. n
        OBVIOUS
      <3>3. ASSUME NEW i \in 1 .. n
            PROVE  report[i].word \in Seq(Letters) /\ report[i].t \in Nat /\ report[i].d \in Nat
        <4>1. report[i].word = words[i] /\ report[i].t = (IF backwards THEN n - i ELSE i) /\ report[i].d = 1
          OBVIOUS
        <4>2. i \in Nat /\ n - i \in Nat
          BY <2>3
        <4> HIDE DEF report
        <4>3. words[i] \in Reports
          OBVIOUS
        <4> QED
          BY <3>1, <4>1, <4>2, <4>3
      <3> HIDE DEF report
      <3> QED
        BY <3>2, <3>3 DEF Reported
    <2> HIDE DEF report
    <2>5. outcome = "calling" /\ Head(engines) = "edge"
      BY <1>2 DEF EdgeSpeaks, Uses
    <2>6. Last(answers')[1] = "edge"
      BY <2>2, <2>5, SpokeLast DEF Speaks
    <2>7. WellMeasured(text, report, MarksDocument(MeasuredMarks(text, report)))
      BY <1>a, <2>3, <2>4, MeasuringFollows
    <2>8. text' = text /\ heard' = report /\ marks' = MarksDocument(MeasuredMarks(text, report))
      BY <2>2 DEF Speaks
    <2>9. Followed(text', heard', duration', marks', answers')
      BY <2>6, <2>7, <2>8 DEF Followed
    <2> QED
      BY <1>0, <2>9
  <1>3. CASE GoogleSpeaks
    <2>1. PICK sentences \in Sentences, length \in 1 .. MaxDuration :
            \E told \in SUBSET sentences : \E time \in [told -> 0 .. MaxDuration] :
              LET timepoints == {<<first, time[first]>> : first \in told}
              IN  Speaks(timepoints, length,
                         EstimateWordMarks(text, AnchorsFromTimepoints(text, timepoints, length)))
      BY <1>3 DEF GoogleSpeaks
    <2>2. PICK told \in SUBSET sentences : \E time \in [told -> 0 .. MaxDuration] :
            LET timepoints == {<<first, time[first]>> : first \in told}
            IN  Speaks(timepoints, length,
                       EstimateWordMarks(text, AnchorsFromTimepoints(text, timepoints, length)))
      BY <2>1
    <2>3. PICK time \in [told -> 0 .. MaxDuration] :
            LET timepoints == {<<first, time[first]>> : first \in told}
            IN  Speaks(timepoints, length,
                       EstimateWordMarks(text, AnchorsFromTimepoints(text, timepoints, length)))
      BY <2>2
    <2> DEFINE S == {<<first, time[first]>> : first \in told}
               ms == MarksDocument(EstimateWordMarks(text, AnchorsFromTimepoints(text, S, length)))
    <2>4. Speaks(S, length, EstimateWordMarks(text, AnchorsFromTimepoints(text, S, length)))
      BY <2>3
    <2>5. length \in Nat /\ time \in [told -> Nat]
      BY SpeakingAssumption DEF SpeakingAssumption
    <2>6. outcome = "calling" /\ Head(engines) = "google"
      BY <1>3 DEF GoogleSpeaks, Uses
    <2>7. Last(answers')[1] = "google"
      BY <2>4, <2>6, SpokeLast DEF Speaks
    <2>8. (\A a \in S : a[2] <= length) => WellEstimated(text, length, ms)
      BY <1>a, <2>5, EstimatingFollows
    <2>9. text' = text /\ heard' = S /\ duration' = length /\ marks' = ms
      BY <2>4 DEF Speaks
    <2> HIDE DEF S, ms
    <2>10. Followed(text', heard', duration', marks', answers')
      BY <2>7, <2>8, <2>9 DEF Followed
    <2> QED
      BY <1>0, <2>10
  <1>4. CASE SilentSpeaks
    <2>1. PICK length \in 1 .. MaxDuration :
            Speaks({}, length, EstimateWordMarks(text, WholeChunk(text, length)))
      BY <1>4 DEF SilentSpeaks
    <2>2. length \in Nat
      BY SpeakingAssumption DEF SpeakingAssumption
    <2>3. outcome = "calling" /\ Head(engines) = "silent"
      BY <1>4 DEF SilentSpeaks, Uses
    <2>4. Last(answers')[1] = "silent"
      BY <2>1, <2>3, SpokeLast DEF Speaks
    <2>5. Len(text) \in Nat /\ Len(text) > 0
      BY <1>a, TextTyped
    <2>6. Anchoring(WholeChunk(text, length), Len(text), length)
      BY <2>2, <2>5, WholeChunkAnchors
    <2>7. WellEstimated(text, length, MarksDocument(EstimateWordMarks(text, WholeChunk(text, length))))
      BY <2>2, <2>5, <2>6, EstimateIsWell
    <2>8. /\ text' = text /\ duration' = length
          /\ marks' = MarksDocument(EstimateWordMarks(text, WholeChunk(text, length)))
      BY <2>1 DEF Speaks
    <2>9. Followed(text', heard', duration', marks', answers')
      BY <2>4, <2>7, <2>8 DEF Followed
    <2> QED
      BY <1>0, <2>9
  <1>5. CASE UNCHANGED speakVars
    <2>1. UNCHANGED <<text, heard, duration, marks, outcome, answers>>
      BY <1>5 DEF speakVars
    <2> QED
      BY <1>0, <2>1, FollowIs
  <1> QED
    BY <1>1, <1>2, <1>3, <1>4, <1>5 DEF SpeakNext

\* Whichever engine spoke, a reader who searches the marks of a chunk by time
\* goes through its text: measured marks are in the order of time, apart, and
\* where the text has the words the engine reported; estimated marks are the
\* words of the text, one after the other within the clip (domain/marks.py).
THEOREM HighlightFollowsText == SpeakSpec => []WordsFollowText
  <1>1. SpeakInit => AskingInv /\ WordsFollowText
    <2>1. SpeakInit => outcome = "calling"
      BY DEF SpeakInit
    <2> QED
      BY <2>1, AskingInit DEF WordsFollowText
  <1>2. AskingInv /\ WordsFollowText /\ [SpeakNext]_speakVars => (AskingInv /\ WordsFollowText)'
    BY AskingStep, FollowStep
  <1> QED
    BY <1>1, <1>2, PTL DEF SpeakSpec
=============================================================================
