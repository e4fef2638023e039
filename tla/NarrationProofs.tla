--------------------------- MODULE NarrationProofs ---------------------------
(***************************************************************************)
(* Proofs about Narration, for any number of chunks, workers, sweepers,    *)
(* retries and faults: what a manifest lists can be played, the pipeline   *)
(* keeps the promise of NarratedBook, and, when no chunk is silent, a key  *)
(* on the book row is never ahead of its object.  With one stitcher that   *)
(* is so for silent chunks too, the manifest and the audio which the row   *)
(* advertises list the same chunks, and the promise of Stitched is kept.   *)
(***************************************************************************)
EXTENDS Narration, TLAPS

Fields  == {"status", "total", "done", "failed", "audioKey", "manifestKey", "reason"}
Working == {"EXTRACTED", "STITCHING"}

\* The types of what the proof looks at; no row is missing.
Shape ==
  /\ DOMAIN book = Fields
  /\ book.status \in Working \cup {"READY", "PARTIAL"}
  /\ book.audioKey \in BOOLEAN /\ book.manifestKey \in BOOLEAN
  /\ chunk \in [Chunks -> ChunkStatus]
  /\ synthPc \in [SynthWorkers -> SynthPcs]
  /\ synthMsg \in [SynthWorkers -> SynthMsgs \cup {NoSynthMsg}]
  /\ stitchPc \in [StitchWorkers -> StitchPcs]
  /\ plan \in [StitchWorkers -> Plans]

\* A DONE row has both objects, and so has a row that is about to be DONE.
Recorded ==
  /\ \A c \in Chunks : chunk[c] = "DONE" => c \in clips /\ c \in markDocs
  /\ \A w \in SynthWorkers :
       /\ synthPc[w] = "putMarks" => ChunkOf(w) \in clips
       /\ synthPc[w] = "finishDone" => ChunkOf(w) \in clips /\ ChunkOf(w) \in markDocs

\* What a stitcher has planned when it stands at `here`: the chunks it lists
\* are DONE, the others are missing, and it offers the audio of what it lists.
Sound(p, here) ==
  /\ p.segments \subseteq Done
  /\ p.audio => p.segments # {}
  /\ here \in {"concat", "putManifest", "finish"} => p.segments \cup p.missing = Chunks
  /\ here \in {"putManifest", "finish"} /\ ~p.degraded => p.audio = (p.segments # {})

Published ==
  /\ \A w \in StitchWorkers : Sound(plan[w], stitchPc[w])
  /\ manifest.segments \subseteq Done
  /\ book.audioKey => Done # {}

SoundInv == Shape /\ Recorded /\ Published

LEMMA NarrationInit == Init => SoundInv
  <1> SUFFICES ASSUME Init PROVE SoundInv
    OBVIOUS
  <1>1. /\ book = ExtractedBook(MaxChunks)
        /\ chunk = [c \in Chunks |-> "PENDING"]
    <2>1. \A c \in Chunks : c < MaxChunks
      BY StoreAssumption DEF Chunks
    <2> QED
      BY <2>1 DEF Init, StoreExtracted
  <1>2. Done = {}
    BY <1>1 DEF Done
  <1>3. Shape
    BY <1>1 DEF Init, Shape, Fields, Working, ExtractedBook, NewBook, ChunkStatus, SynthInit, SynthPcs,
                StitchInit, StitchPcs, Plans, NoPlan
  <1>4. Recorded
    BY <1>1 DEF Init, Recorded, SynthInit
  <1>5. Published
    BY <1>1, <1>2 DEF Init, Published, Sound, StitchInit, NoPlan, NoManifest, ExtractedBook, NewBook
  <1> QED
    BY <1>3, <1>4, <1>5 DEF SoundInv

-----------------------------------------------------------------------------
(* What the steps of each component leave alone *)

SameBook ==
  /\ DOMAIN book' = Fields
  /\ book'.status = book.status
  /\ book'.audioKey = book.audioKey /\ book'.manifestKey = book.manifestKey

\* Nothing happens to the rows, or an unfinished one gets this status.
OneRow(c, status) ==
  \/ UNCHANGED chunk
  \/ chunk[c] \in NonTerminalChunkStatuses /\ chunk' = [chunk EXCEPT ![c] = status]

LEMMA CountedBook ==
  ASSUME Shape, NEW m, NEW n, book' = [book EXCEPT !.done = m, !.failed = n]
  PROVE  SameBook
  BY DEF Shape, SameBook, Fields

\* A row that changes between unfinished statuses leaves the DONE ones alone.
LEMMA RowsKept ==
  ASSUME Shape, NEW c, NEW status \in ChunkStatus, OneRow(c, status)
  PROVE  /\ chunk' \in [Chunks -> ChunkStatus]
         /\ Done \subseteq Done' /\ Done' \subseteq Done \cup {c}
         /\ status # "DONE" => Done' = Done
  <1>1. CASE UNCHANGED chunk
    BY <1>1 DEF Shape, Done
  <1>2. CASE chunk[c] \in NonTerminalChunkStatuses /\ chunk' = [chunk EXCEPT ![c] = status]
    <2>1. chunk' \in [Chunks -> ChunkStatus]
      BY <1>2 DEF Shape
    <2>2. \A d \in Chunks : d # c => chunk'[d] = chunk[d]
      BY <1>2 DEF Shape
    <2>3. c \in Chunks => chunk'[c] = status /\ chunk[c] # "DONE"
      BY <1>2 DEF Shape, NonTerminalChunkStatuses
    <2> QED
      BY <2>1, <2>2, <2>3 DEF Done
  <1> QED
    BY <1>1, <1>2 DEF OneRow

\* A synthesizer changes no output key, takes no object away, and makes at
\* most one chunk DONE, from the step after its two puts.
SynthFrame ==
  /\ SameBook
  /\ clips \subseteq clips' /\ markDocs \subseteq markDocs'
  /\ chunk' \in [Chunks -> ChunkStatus]
  /\ synthPc' \in [SynthWorkers -> SynthPcs]
  /\ synthMsg' \in [SynthWorkers -> SynthMsgs \cup {NoSynthMsg}]
  /\ \/ Done' = Done
     \/ \E w \in SynthWorkers :
          synthPc[w] = "finishDone" /\ Done \subseteq Done' /\ Done' \subseteq Done \cup {ChunkOf(w)}
  /\ \A w \in SynthWorkers :
       /\ synthPc'[w] = "putMarks" =>
            ChunkOf(w)' = ChunkOf(w) /\ (synthPc[w] = "putMarks" \/ ChunkOf(w) \in clips')
       /\ synthPc'[w] = "finishDone" =>
            /\ ChunkOf(w)' = ChunkOf(w)
            /\ synthPc[w] = "finishDone" \/ (synthPc[w] = "putMarks" /\ ChunkOf(w) \in markDocs')

LEMMA SynthSteps == ASSUME Shape, SynthNext PROVE SynthFrame
  <1> PICK w \in SynthWorkers : SynthHandler(w) \/ SynthEnvironment(w)
    BY DEF SynthNext
  <1>0. /\ synthPc \in [SynthWorkers -> SynthPcs]
        /\ synthMsg \in [SynthWorkers -> SynthMsgs \cup {NoSynthMsg}]
        /\ chunk \in [Chunks -> ChunkStatus]
    BY DEF Shape
  <1> USE DEF ChunkOf, SynthAt, SynthGoto, storeVars, tableVars, objectVars
  <1> DEFINE Elsewhere == SynthPcs \ {"putMarks", "finishDone"}
  <1>a. UNCHANGED book => SameBook
    BY DEF Shape, SameBook
  <1>b. UNCHANGED chunk => chunk' \in [Chunks -> ChunkStatus] /\ Done' = Done
    BY <1>0 DEF Done
  <1>1. CASE SynthReceive(w)
    <2>1. \A b \in SynthBodies : Delivered(b) \in SynthMsgs
      BY StoreAssumption DEF SynthBodies, Delivered, SynthMsgs
    <2>2. UNCHANGED <<book, chunk, clips, markDocs>> /\ synthPc' = [synthPc EXCEPT ![w] = "get"]
      BY <1>1 DEF SynthReceive
    <2>3. \E b \in SynthBodies : synthMsg' = [synthMsg EXCEPT ![w] = Delivered(b)]
      BY <1>1 DEF SynthReceive
    <2> QED
      BY <1>0, <1>a, <1>b, <2>1, <2>2, <2>3 DEF SynthPcs, SynthFrame
  <1>2. CASE SynthGet(w) \/ SynthRecheck(w) \/ SynthEngine(w)
    <2>1. UNCHANGED <<book, chunk, clips, markDocs, synthMsg>>
      BY <1>2 DEF SynthGet, SynthRecheck, SynthEngine
    <2>2. \E next \in Elsewhere : synthPc' = [synthPc EXCEPT ![w] = next]
      BY <1>2 DEF SynthGet, SynthRecheck, SynthEngine, AfterTransient, SynthPcs
    <2> QED
      BY <1>0, <1>a, <1>b, <2>1, <2>2 DEF SynthFrame
  <1>3. CASE SynthPutAudio(w)
    <2>1. UNCHANGED <<book, chunk, markDocs, synthMsg>>
      BY <1>3 DEF SynthPutAudio
    <2> QED
      BY <1>0, <1>3, <1>a, <1>b, <2>1 DEF SynthPutAudio, AfterTransient, SynthPcs, SynthFrame
  <1>4. CASE SynthPutMarks(w)
    <2>1. UNCHANGED <<book, chunk, clips, synthMsg>>
      BY <1>4 DEF SynthPutMarks
    <2> QED
      BY <1>0, <1>4, <1>a, <1>b, <2>1 DEF SynthPutMarks, AfterTransient, SynthPcs, SynthFrame
  <1>5. CASE SynthClaim(w) \/ SynthFinishFailed(w)
    <2>1. UNCHANGED <<book, clips, markDocs, synthMsg>>
      BY <1>5 DEF SynthClaim, SynthFinishFailed, SynthFinish
    <2>2. \E next \in Elsewhere : synthPc' = [synthPc EXCEPT ![w] = next]
      BY <1>5 DEF SynthClaim, SynthFinishFailed, SynthFinish, SynthPcs
    <2>3. OneRow(ChunkOf(w), "SYNTHESIZING") \/ OneRow(ChunkOf(w), "FAILED")
      BY <1>5 DEF SynthClaim, SynthFinishFailed, SynthFinish, OneRow
    <2>4. chunk' \in [Chunks -> ChunkStatus] /\ Done' = Done
      BY <2>3, RowsKept DEF ChunkStatus
    <2> QED
      BY <1>0, <1>a, <2>1, <2>2, <2>4 DEF SynthFrame
  <1>6. CASE SynthFinishDone(w)
    <2>1. UNCHANGED <<book, clips, markDocs, synthMsg>> /\ synthPc[w] = "finishDone"
      BY <1>6 DEF SynthFinishDone, SynthFinish
    <2>2. \E next \in Elsewhere : synthPc' = [synthPc EXCEPT ![w] = next]
      BY <1>6 DEF SynthFinishDone, SynthFinish, SynthPcs
    <2>3. OneRow(ChunkOf(w), "DONE")
      BY <1>6 DEF SynthFinishDone, SynthFinish, OneRow
    <2>4. /\ chunk' \in [Chunks -> ChunkStatus]
          /\ Done \subseteq Done' /\ Done' \subseteq Done \cup {ChunkOf(w)}
      BY <2>3, RowsKept DEF ChunkStatus
    <2> QED
      BY <1>0, <1>a, <2>1, <2>2, <2>4 DEF SynthFrame
  <1>7. CASE SynthRelease(w)
    <2>1. UNCHANGED <<book, clips, markDocs>>
      BY <1>7 DEF SynthRelease
    <2>2. /\ synthPc' \in {[synthPc EXCEPT ![w] = "idle"], [synthPc EXCEPT ![w] = "ack"]}
          /\ synthMsg' \in {synthMsg, [synthMsg EXCEPT ![w] = NoSynthMsg]}
      BY <1>7 DEF SynthRelease, SynthRaise, SynthStop
    <2>3. OneRow(ChunkOf(w), "PENDING")
      BY <1>7 DEF SynthRelease, OneRow, NonTerminalChunkStatuses
    <2>4. chunk' \in [Chunks -> ChunkStatus] /\ Done' = Done
      BY <2>3, RowsKept DEF ChunkStatus
    <2> QED
      BY <1>0, <1>a, <2>1, <2>2, <2>4 DEF SynthPcs, SynthFrame
  <1>8. CASE SynthCountDone(w) \/ SynthCountFailed(w)
    <2>1. UNCHANGED <<chunk, clips, markDocs, synthMsg>>
      BY <1>8 DEF SynthCountDone, SynthCountFailed, SynthCount
    <2>2. \E next \in Elsewhere : synthPc' = [synthPc EXCEPT ![w] = next]
      BY <1>8 DEF SynthCountDone, SynthCountFailed, SynthCount, SynthPcs
    <2>3. \/ book' = book
          \/ book' = [book EXCEPT !.done = @ + 1, !.failed = @ + 0]
          \/ book' = [book EXCEPT !.done = @ + 1, !.failed = @ + 1]
      BY <1>8 DEF SynthCountDone, SynthCountFailed, SynthCount
    <2>4. SameBook
      BY <1>a, <2>3, CountedBook
    <2> QED
      BY <1>0, <1>b, <2>1, <2>2, <2>4 DEF SynthFrame
  <1>9. CASE SynthPublish(w) \/ SynthPublishFails(w) \/ SynthAck(w) \/ SynthCrash(w) \/ SynthDuplicate(w)
    <2>1. UNCHANGED <<book, chunk, clips, markDocs>>
      BY <1>9 DEF SynthPublish, SynthPublishFails, SynthAck, SynthCrash, SynthDuplicate
    <2>2. \/ UNCHANGED synthVars
          \/ synthPc' = [synthPc EXCEPT ![w] = "ack"] /\ UNCHANGED synthMsg
          \/ synthPc' = [synthPc EXCEPT ![w] = "idle"] /\ synthMsg' = [synthMsg EXCEPT ![w] = NoSynthMsg]
      BY <1>9 DEF SynthPublish, SynthPublishFails, SynthAck, SynthCrash, SynthDuplicate, SynthRaise, SynthStop
    <2> QED
      BY <1>0, <1>a, <1>b, <2>1, <2>2 DEF synthVars, SynthPcs, SynthFrame
  <1> QED
    BY <1>1, <1>2, <1>3, <1>4, <1>5, <1>6, <1>7, <1>8, <1>9 DEF SynthHandler, SynthEnvironment

\* The sweeper makes no chunk DONE and changes nothing that can be heard.
TableFrame ==
  /\ chunk' \in [Chunks -> ChunkStatus]
  /\ Done' = Done
  /\ UNCHANGED objectVars

LEMMA SweepSteps == ASSUME Shape, SweepNext PROVE TableFrame /\ SameBook
  <1> PICK w \in Sweepers : SweepHandler(w) \/ SweepCrash(w)
    BY DEF SweepNext
  <1> USE DEF storeVars, tableVars
  <1>a. UNCHANGED book => SameBook
    BY DEF Shape, SameBook
  <1>b. UNCHANGED chunk => chunk' \in [Chunks -> ChunkStatus] /\ Done' = Done
    BY DEF Shape, Done
  <1>1. CASE SweepFinalize(w)
    <2>1. OneRow(sweepChunk[w], "FAILED") /\ UNCHANGED <<book, objectVars>>
      BY <1>1 DEF SweepFinalize, OneRow
    <2>2. chunk' \in [Chunks -> ChunkStatus] /\ Done' = Done
      BY <2>1, RowsKept DEF ChunkStatus
    <2> QED
      BY <1>a, <2>1, <2>2 DEF TableFrame
  <1>2. CASE SweepCount(w)
    <2>1. /\ UNCHANGED <<chunk, objectVars>>
          /\ \/ book' = book
             \/ book' = [book EXCEPT !.done = @ + 1, !.failed = @ + 1]
      BY <1>2 DEF SweepCount
    <2>2. SameBook
      BY <1>a, <2>1, CountedBook
    <2> QED
      BY <1>b, <2>1, <2>2 DEF TableFrame
  <1>3. CASE SweepReceive(w) \/ SweepGet(w) \/ SweepRecheck(w) \/ SweepPublish(w)
    <2>1. UNCHANGED <<book, chunk, objectVars>>
      BY <1>3 DEF SweepReceive, SweepGet, SweepRecheck, SweepPublish
    <2> QED
      BY <1>a, <1>b, <2>1 DEF TableFrame
  <1>4. CASE SweepPublishFails(w) \/ SweepAck(w) \/ SweepCrash(w)
    <2>1. UNCHANGED <<book, chunk, objectVars>>
      BY <1>4 DEF SweepPublishFails, SweepAck, SweepCrash
    <2> QED
      BY <1>a, <1>b, <2>1 DEF TableFrame
  <1> QED
    BY <1>1, <1>2, <1>3, <1>4 DEF SweepHandler

\* A retry takes a PARTIAL book up again, with its outputs withdrawn.
TakenUp ==
  /\ DOMAIN book' = Fields
  /\ book.status = "PARTIAL" /\ book'.status = "EXTRACTED"
  /\ book'.audioKey = FALSE /\ book'.manifestKey = FALSE

LEMMA RetrySteps == ASSUME Shape, RetryNext PROVE TableFrame /\ (SameBook \/ TakenUp)
  <1> PICK r \in Retriers : RetryStart(r) \/ RetryStep(r) \/ RetryCrash(r)
    BY DEF RetryNext
  <1> USE DEF storeVars, tableVars
  <1>a. UNCHANGED book => SameBook
    BY DEF Shape, SameBook
  <1>b. UNCHANGED chunk => chunk' \in [Chunks -> ChunkStatus] /\ Done' = Done
    BY DEF Shape, Done
  <1>1. CASE RetryResetChunk(r)
    <2>1. UNCHANGED <<book, objectVars>> /\ \E c \in retryTodo[r] : OneRow(c, "PENDING")
      BY <1>1 DEF RetryResetChunk, OneRow, RetryableChunkStatuses, NonTerminalChunkStatuses
    <2>2. chunk' \in [Chunks -> ChunkStatus] /\ Done' = Done
      BY <2>1, RowsKept DEF ChunkStatus
    <2> QED
      BY <1>a, <2>1, <2>2 DEF TableFrame
  <1>2. CASE RetryRewind(r)
    <2>1. /\ UNCHANGED <<chunk, objectVars>>
          /\ UNCHANGED book \/ (book.status = "PARTIAL" /\ book' = Rewound(r))
      BY <1>2 DEF RetryRewind
    <2>2. ASSUME NEW kept
          PROVE  LET row == [book EXCEPT !.status = "EXTRACTED", !.done = IF kept < 0 THEN 0 ELSE kept,
                                         !.failed = 0, !.audioKey = FALSE, !.manifestKey = FALSE,
                                         !.reason = "none"]
                 IN  DOMAIN row = Fields /\ row.status = "EXTRACTED" /\ row.audioKey = FALSE /\ row.manifestKey = FALSE
      BY DEF Shape, Fields
    <2>3. book' = Rewound(r) => /\ DOMAIN book' = Fields /\ book'.status = "EXTRACTED"
                                /\ book'.audioKey = FALSE /\ book'.manifestKey = FALSE
      BY <2>2 DEF Rewound
    <2> QED
      BY <1>a, <1>b, <2>1, <2>3 DEF TableFrame, TakenUp
  <1>3. CASE RetryStart(r) \/ RetryList(r) \/ RetryPublish(r) \/ RetryPublishFails(r) \/ RetryCrash(r)
    <2>1. UNCHANGED <<book, chunk, objectVars>>
      BY <1>3 DEF RetryStart, RetryList, RetryPublish, RetryPublishFails, RetryCrash
    <2> QED
      BY <1>a, <1>b, <2>1 DEF TableFrame
  <1> QED
    BY <1>1, <1>2, <1>3 DEF RetryStep

-----------------------------------------------------------------------------
(* What a stitcher does *)

\* A claim or a release moves the book between the two working statuses.
Moved ==
  /\ DOMAIN book' = Fields
  /\ book.status \in Working /\ book'.status \in Working
  /\ book'.audioKey = book.audioKey /\ book'.manifestKey = book.manifestKey

\* The terminal update.
Finished(w) ==
  /\ stitchPc[w] = "finish"
  /\ DOMAIN book' = Fields
  /\ book.status = "STITCHING" /\ book'.status = FinalStatus(w)
  /\ book'.audioKey = (book.audioKey \/ plan[w].audio)
  /\ book'.manifestKey = (book.manifestKey \/ plan[w].manifestKey)

\* It leaves rows and clips alone, plans soundly, and lists only DONE chunks.
StitchFrame ==
  /\ UNCHANGED <<chunk, objectVars>>
  /\ stitchPc' \in [StitchWorkers -> StitchPcs]
  /\ plan' \in [StitchWorkers -> Plans]
  /\ \A w \in StitchWorkers : Sound(plan'[w], stitchPc'[w])
  /\ manifest'.segments \subseteq Done
  /\ SameBook \/ Moved \/ \E w \in StitchWorkers : Finished(w)

\* One stitcher's plan and place change, the others' do not.
LEMMA PlanStep ==
  ASSUME Shape, Published, NEW w \in StitchWorkers, NEW p \in Plans, NEW here \in StitchPcs,
         plan' = [plan EXCEPT ![w] = p], stitchPc' = [stitchPc EXCEPT ![w] = here], Sound(p, here)
  PROVE  /\ stitchPc' \in [StitchWorkers -> StitchPcs]
         /\ plan' \in [StitchWorkers -> Plans]
         /\ \A v \in StitchWorkers : Sound(plan'[v], stitchPc'[v])
  <1>1. plan'[w] = p /\ stitchPc'[w] = here
    BY DEF Shape
  <1>2. \A v \in StitchWorkers : v # w => plan'[v] = plan[v] /\ stitchPc'[v] = stitchPc[v]
    BY DEF Shape
  <1>3. \A v \in StitchWorkers : Sound(plan'[v], stitchPc'[v])
    BY <1>1, <1>2 DEF Published
  <1> QED
    BY <1>3 DEF Shape

LEMMA SamePlan ==
  ASSUME Shape, NEW w \in StitchWorkers, UNCHANGED plan
  PROVE  plan' = [plan EXCEPT ![w] = plan[w]] /\ plan[w] \in Plans
  BY DEF Shape

\* A plan is sound at any place before it is made, and at one that asks nothing.
LEMMA SoundElsewhere ==
  ASSUME NEW p, NEW here, NEW there, Sound(p, here), there \notin {"concat", "putManifest", "finish"}
  PROVE  Sound(p, there)
  BY DEF Sound

LEMMA NothingPlanned == NoPlan \in Plans /\ Sound(NoPlan, "idle")
  BY DEF NoPlan, Plans, Sound

LEMMA StitchSteps == ASSUME Shape, Published, StitchNext PROVE StitchFrame
  <1> PICK w \in StitchWorkers : StitchHandler(w) \/ StitchEnvironment(w)
    BY DEF StitchNext
  <1>0. /\ plan[w] \in Plans /\ Sound(plan[w], stitchPc[w])
        /\ plan \in [StitchWorkers -> Plans] /\ stitchPc \in [StitchWorkers -> StitchPcs]
        /\ manifest.segments \subseteq Done
    BY DEF Shape, Published
  <1> USE DEF storeVars, tableVars, outputVars, StitchAt, StitchGoto
  <1>a. UNCHANGED book => SameBook
    BY DEF Shape, SameBook
  <1>b. plan' = plan => plan' = [plan EXCEPT ![w] = plan[w]]
    BY SamePlan DEF Shape
  <1>c. ASSUME NEW p \in Plans, NEW here \in StitchPcs, plan' = [plan EXCEPT ![w] = p],
               stitchPc' = [stitchPc EXCEPT ![w] = here], Sound(p, here)
        PROVE  /\ stitchPc' \in [StitchWorkers -> StitchPcs] /\ plan' \in [StitchWorkers -> Plans]
               /\ \A v \in StitchWorkers : Sound(plan'[v], stitchPc'[v])
    BY <1>c, PlanStep
  <1>1. CASE StitchReceive(w) \/ StitchGet(w)
    <2>1. UNCHANGED <<book, chunk, objectVars, plan, manifest>>
      BY <1>1 DEF StitchReceive, StitchGet
    <2>2. \E here \in {"get", "claim", "ack"} : stitchPc' = [stitchPc EXCEPT ![w] = here]
      BY <1>1 DEF StitchReceive, StitchGet
    <2>3. \A here \in {"get", "claim", "ack"} : here \in StitchPcs /\ Sound(plan[w], here)
      BY <1>0, SoundElsewhere DEF StitchPcs
    <2> QED
      BY <1>0, <1>a, <1>b, <1>c, <2>1, <2>2, <2>3 DEF StitchFrame
  <1>2. CASE StitchClaim(w)
    <2>1. UNCHANGED <<chunk, objectVars, plan, manifest>>
      BY <1>2 DEF StitchClaim
    <2>2. \E here \in {"list", "ack"} : stitchPc' = [stitchPc EXCEPT ![w] = here]
      BY <1>2 DEF StitchClaim
    <2>3. \A here \in {"list", "ack"} : here \in StitchPcs /\ Sound(plan[w], here)
      BY <1>0, SoundElsewhere DEF StitchPcs
    <2>4. UNCHANGED book \/ (book.status \in Working /\ book' = [book EXCEPT !.status = "STITCHING"])
      BY <1>2 DEF StitchClaim, StitchableBookStatuses, Working
    <2>5. SameBook \/ Moved
      BY <1>a, <2>4 DEF Moved, Shape, Fields, Working
    <2> QED
      BY <1>0, <1>b, <1>c, <2>1, <2>2, <2>3, <2>5 DEF StitchFrame
  <1>3. CASE StitchList(w)
    <2>1. UNCHANGED <<book, chunk, objectVars, manifest>>
      BY <1>3 DEF StitchList
    <2>2. PICK unseen \in SUBSET Lagging : plan' = [plan EXCEPT ![w] = Listed(FALSE, unseen)]
      BY <1>3 DEF StitchList
    <2>3. stitchPc' = [stitchPc EXCEPT ![w] = "concat"]
      BY <1>3 DEF StitchList
    <2>4. Rows = Chunks
      BY DEF Rows, Shape, ChunkStatus, Absent
    <2> DEFINE heard == Done \ unseen
               p     == [NoPlan EXCEPT !.segments = heard, !.missing = Chunks \ heard, !.degraded = FALSE]
    <2>5. Listed(FALSE, unseen) = p
      BY <2>4 DEF Listed, Done
    <2>6. p \in Plans /\ Sound(p, "concat")
      <3>1. heard \in SUBSET Chunks /\ Chunks \ heard \in SUBSET Chunks /\ heard \cup (Chunks \ heard) = Chunks
        BY DEF Done
      <3>2. NoPlan \in Plans /\ ~NoPlan.audio
        BY NothingPlanned DEF NoPlan
      <3>3. heard \subseteq Done
        OBVIOUS
      <3> HIDE DEF heard
      <3>4. /\ p \in Plans /\ p.segments = heard /\ p.missing = Chunks \ heard
            /\ p.audio = NoPlan.audio
        BY <3>1, <3>2 DEF Plans
      <3> HIDE DEF p
      <3> QED
        BY <3>1, <3>2, <3>3, <3>4 DEF Sound
    <2> QED
      BY <1>0, <1>a, <1>c, <2>1, <2>2, <2>3, <2>5, <2>6 DEF StitchFrame, StitchPcs
  <1>4. CASE Concatenate(w)
    <2>1. UNCHANGED <<book, chunk, objectVars, manifest>> /\ stitchPc[w] = "concat"
      BY <1>4 DEF Concatenate
    <2>2. stitchPc' = [stitchPc EXCEPT ![w] = "putManifest"]
      BY <1>4 DEF Concatenate
    <2> DEFINE heard == plan[w].segments \ Silent
               lost  == plan[w].missing \cup (plan[w].segments \cap Silent)
               p     == [plan[w] EXCEPT !.segments = heard, !.missing = lost, !.audio = heard # {}]
    <2>3. plan' = [plan EXCEPT ![w] = p]
      <3>1. plan' = [plan EXCEPT ![w].segments = heard, ![w].missing = @ \cup (plan[w].segments \cap Silent),
                                 ![w].audio = heard # {}]
        BY <1>4 DEF Concatenate
      <3> QED
        BY <1>0, <3>1 DEF Plans
    <2>4. heard \in SUBSET Chunks /\ lost \in SUBSET Chunks /\ heard \subseteq Done /\ heard \cup lost = Chunks
      BY <1>0, <2>1 DEF Sound, Plans
    <2>5. p \in Plans /\ Sound(p, "putManifest")
      <3> HIDE DEF heard, lost
      <3>1. /\ p \in Plans /\ p.segments = heard /\ p.missing = lost
            /\ p.audio = (heard # {})
        BY <1>0, <2>4 DEF Plans
      <3> HIDE DEF p
      <3> QED
        BY <2>4, <3>1 DEF Sound
    <2> QED
      BY <1>0, <1>a, <1>c, <2>1, <2>2, <2>3, <2>5 DEF StitchFrame, StitchPcs
  <1>5. CASE ConcatenateFails(w)
    <2>1. UNCHANGED <<book, chunk, objectVars, manifest>> /\ stitchPc[w] = "concat"
      BY <1>5 DEF ConcatenateFails
    <2>2. CASE stitchPc' = [stitchPc EXCEPT ![w] = "release"] /\ UNCHANGED plan
      <3>1. Sound(plan[w], "release")
        BY <1>0, SoundElsewhere
      <3> QED
        BY <1>0, <1>a, <1>b, <1>c, <2>1, <2>2, <3>1 DEF StitchFrame, StitchPcs
    <2>3. CASE /\ stitchPc' = [stitchPc EXCEPT ![w] = "putManifest"]
               /\ plan' = [plan EXCEPT ![w].degraded = TRUE]
      <3> DEFINE p == [plan[w] EXCEPT !.degraded = TRUE]
      <3>1. plan' = [plan EXCEPT ![w] = p]
        BY <2>3
      <3>2. p \in Plans /\ Sound(p, "putManifest")
        BY <1>0, <2>1 DEF Plans, Sound
      <3> QED
        BY <1>0, <1>a, <1>c, <2>1, <2>3, <3>1, <3>2 DEF StitchFrame, StitchPcs
    <2> QED
      BY <1>5, <2>2, <2>3 DEF ConcatenateFails
  <1>6. CASE StitchRelease(w) \/ StitchAck(w) \/ StitchCrash(w)
    <2>1. /\ UNCHANGED <<chunk, objectVars, manifest>>
          /\ plan' = [plan EXCEPT ![w] = NoPlan] /\ stitchPc' = [stitchPc EXCEPT ![w] = "idle"]
      BY <1>6 DEF StitchRelease, StitchAck, StitchCrash, StitchRaise, StitchStop
    <2>2. UNCHANGED book \/ (book.status \in Working /\ book' = [book EXCEPT !.status = "EXTRACTED"])
      BY <1>6 DEF StitchRelease, StitchAck, StitchCrash, Working
    <2>3. SameBook \/ Moved
      BY <1>a, <2>2 DEF Moved, Shape, Fields, Working
    <2> QED
      BY <1>0, <1>c, <2>1, <2>3, NothingPlanned DEF StitchFrame, StitchPcs
  <1>7. CASE PutManifest(w)
    <2>1. UNCHANGED <<book, chunk, objectVars>> /\ stitchPc[w] = "putManifest"
      BY <1>7 DEF PutManifest
    <2>2. /\ manifest'.segments = plan[w].segments
          /\ stitchPc' = [stitchPc EXCEPT ![w] = "finish"]
      BY <1>7 DEF PutManifest, ManifestOf
    <2> DEFINE p == [plan[w] EXCEPT !.manifestKey = TRUE]
    <2>3. plan' = [plan EXCEPT ![w] = p]
      BY <1>7 DEF PutManifest
    <2>4. p \in Plans /\ Sound(p, "finish") /\ plan[w].segments \subseteq Done
      BY <1>0, <2>1 DEF Plans, Sound
    <2> QED
      BY <1>0, <1>a, <1>c, <2>1, <2>2, <2>3, <2>4 DEF StitchFrame, StitchPcs
  <1>8. CASE PutManifestFails(w)
    <2>1. UNCHANGED <<book, chunk, objectVars>> /\ stitchPc[w] = "putManifest"
      BY <1>8 DEF PutManifestFails
    <2>2. manifest'.segments \subseteq Done
      <3>1. manifest' = manifest \/ manifest'.segments = plan[w].segments
        BY <1>8 DEF PutManifestFails, ManifestOf
      <3> QED
        BY <1>0, <2>1, <3>1 DEF Sound
    <2>3. CASE stitchPc' = [stitchPc EXCEPT ![w] = "finish"] /\ UNCHANGED plan
      <3>1. Sound(plan[w], "finish")
        BY <1>0, <2>1 DEF Sound
      <3> QED
        BY <1>0, <1>a, <1>b, <1>c, <2>1, <2>2, <2>3, <3>1 DEF StitchFrame, StitchPcs
    <2>4. CASE stitchPc' = [stitchPc EXCEPT ![w] = "idle"] /\ plan' = [plan EXCEPT ![w] = NoPlan]
      BY <1>0, <1>a, <1>c, <2>1, <2>2, <2>4, NothingPlanned DEF StitchFrame, StitchPcs
    <2> QED
      BY <1>8, <2>3, <2>4 DEF PutManifestFails, StitchRaise, StitchStop
  <1>9. CASE StitchFinish(w)
    <2>1. /\ UNCHANGED <<chunk, objectVars, manifest, plan>> /\ stitchPc[w] = "finish"
          /\ stitchPc' = [stitchPc EXCEPT ![w] = "ack"]
      BY <1>9 DEF StitchFinish
    <2>2. \/ UNCHANGED book
          \/ /\ book.status = "STITCHING"
             /\ book' = [book EXCEPT !.status = FinalStatus(w), !.audioKey = @ \/ plan[w].audio,
                                     !.manifestKey = @ \/ plan[w].manifestKey, !.reason = FinalReason(w)]
      BY <1>9 DEF StitchFinish
    <2>3. SameBook \/ Finished(w)
      BY <1>a, <2>1, <2>2 DEF Finished, Shape, Fields
    <2>4. Sound(plan[w], "ack")
      BY <1>0, SoundElsewhere
    <2> QED
      BY <1>0, <1>b, <1>c, <2>1, <2>3, <2>4 DEF StitchFrame, StitchPcs
  <1>10. CASE StitchDuplicate(w)
    <2>1. UNCHANGED <<book, chunk, objectVars, manifest, plan, stitchPc>>
      BY <1>10 DEF StitchDuplicate, stitchVars
    <2> QED
      BY <1>0, <1>a, <2>1 DEF StitchFrame, Published
  <1> QED
    BY <1>1, <1>2, <1>3, <1>4, <1>5, <1>6, <1>7, <1>8, <1>9, <1>10 DEF StitchHandler, StitchEnvironment

-----------------------------------------------------------------------------
(* The invariant *)

\* The book leaves its working statuses with Sound plans and comes back with
\* its audio withdrawn; in between the row keeps its shape.
BookStep ==
  \/ SameBook
  \/ Moved
  \/ TakenUp
  \/ \E w \in StitchWorkers : Finished(w)

LEMMA RowShape ==
  ASSUME Shape, BookStep
  PROVE  /\ DOMAIN book' = Fields
         /\ book'.status \in Working \cup {"READY", "PARTIAL"}
         /\ book'.audioKey \in BOOLEAN /\ book'.manifestKey \in BOOLEAN
  <1>1. CASE SameBook \/ Moved \/ TakenUp
    BY <1>1 DEF Shape, SameBook, Moved, TakenUp, Working
  <1>2. ASSUME NEW w \in StitchWorkers, Finished(w)
        PROVE  /\ DOMAIN book' = Fields
               /\ book'.status \in {"READY", "PARTIAL"}
               /\ book'.audioKey \in BOOLEAN /\ book'.manifestKey \in BOOLEAN
    BY <1>2 DEF Shape, Finished, FinalStatus, Plans
  <1> QED
    BY <1>1, <1>2 DEF BookStep

\* The row offers audio only if it did, or if a stitcher finished with some.
LEMMA AudioOfSome ==
  ASSUME Shape, Published, BookStep, book'.audioKey
  PROVE  Done # {}
  <1>1. CASE SameBook \/ Moved \/ TakenUp
    BY <1>1 DEF SameBook, Moved, TakenUp, Published
  <1>2. ASSUME NEW w \in StitchWorkers, Finished(w)
        PROVE  Done # {}
    BY <1>2 DEF Finished, Published, Sound
  <1> QED
    BY <1>1, <1>2 DEF BookStep

\* Nothing that is DONE stops being DONE, so what was published stays sound.
LEMMA PublishedGrows ==
  ASSUME Shape, Published, BookStep, Done \subseteq Done', UNCHANGED <<stitchPc, plan, manifest>>
  PROVE  Published'
  <1>1. ASSUME NEW w \in StitchWorkers PROVE Sound(plan[w], stitchPc[w])'
    BY DEF Published, Sound
  <1>2. book'.audioKey => (Done # {})'
    BY AudioOfSome
  <1> QED
    BY <1>1, <1>2 DEF Published

LEMMA RecordedStep == ASSUME Shape, Recorded, SynthFrame PROVE Recorded'
  <1>1. ASSUME NEW c \in Chunks, chunk'[c] = "DONE"
        PROVE  c \in clips' /\ c \in markDocs'
    <2>1. c \in Done'
      BY <1>1 DEF Done
    <2>2. CASE c \in Done
      BY <2>2 DEF Done, Recorded, SynthFrame
    <2>3. CASE c \notin Done
      <3> PICK w \in SynthWorkers : synthPc[w] = "finishDone" /\ Done' \subseteq Done \cup {ChunkOf(w)}
        BY <2>1, <2>3 DEF SynthFrame
      <3>1. c = ChunkOf(w)
        BY <2>1, <2>3
      <3> QED
        BY <3>1 DEF Recorded, SynthFrame
    <2> QED
      BY <2>2, <2>3
  <1>2. ASSUME NEW w \in SynthWorkers, synthPc'[w] = "putMarks"
        PROVE  ChunkOf(w)' \in clips'
    BY <1>2 DEF Recorded, SynthFrame
  <1>3. ASSUME NEW w \in SynthWorkers, synthPc'[w] = "finishDone"
        PROVE  ChunkOf(w)' \in clips' /\ ChunkOf(w)' \in markDocs'
    <2>1. CASE synthPc[w] = "finishDone"
      BY <1>3, <2>1 DEF Recorded, SynthFrame
    <2>2. CASE synthPc[w] = "putMarks" /\ ChunkOf(w) \in markDocs'
      BY <1>3, <2>2 DEF Recorded, SynthFrame
    <2> QED
      BY <1>3, <2>1, <2>2 DEF SynthFrame
  <1> QED
    BY <1>1, <1>2, <1>3 DEF Recorded

LEMMA NarrationStep == ASSUME SoundInv, [Next]_vars PROVE SoundInv'
  <1> USE DEF SoundInv
  <1>1. CASE SynthNext /\ UNCHANGED <<stitcherVars, sweepVars, retryVars>>
    <2>1. SynthFrame /\ BookStep /\ Done \subseteq Done'
      BY <1>1, SynthSteps DEF SynthFrame, BookStep
    <2>2. UNCHANGED <<stitchPc, plan, manifest>>
      BY <1>1 DEF stitcherVars, stitchVars, outputVars
    <2>3. Shape'
      BY <2>1, <2>2, RowShape DEF Shape, SynthFrame
    <2> QED
      BY <2>1, <2>2, <2>3, RecordedStep, PublishedGrows
  <1>2. CASE StitchNext /\ UNCHANGED <<synthVars, sweepVars, retryVars>>
    <2>1. StitchFrame /\ BookStep
      BY <1>2, StitchSteps DEF StitchFrame, BookStep
    <2>2. UNCHANGED <<chunk, clips, markDocs, synthPc, synthMsg>> /\ Done' = Done
      BY <1>2, <2>1 DEF StitchFrame, objectVars, synthVars, Done
    <2>3. Shape'
      BY <2>1, <2>2, RowShape DEF Shape, StitchFrame
    <2>4. Recorded'
      BY <2>2 DEF Recorded, ChunkOf
    <2>5. ASSUME NEW w \in StitchWorkers PROVE Sound(plan[w], stitchPc[w])'
      BY <2>1, <2>2 DEF StitchFrame, Sound
    <2>6. manifest'.segments \subseteq Done' /\ (book'.audioKey => (Done # {})')
      BY <2>1, <2>2, AudioOfSome DEF StitchFrame
    <2> QED
      BY <2>3, <2>4, <2>5, <2>6 DEF Published
  <1>3. CASE \/ SweepNext /\ UNCHANGED <<synthVars, stitcherVars, retryVars>>
             \/ RetryNext /\ UNCHANGED <<synthVars, stitcherVars, sweepVars>>
    <2>1. TableFrame /\ BookStep
      BY <1>3, SweepSteps, RetrySteps DEF BookStep
    <2>2. UNCHANGED <<clips, markDocs, synthPc, synthMsg, stitchPc, plan, manifest>>
      BY <1>3, <2>1 DEF TableFrame, objectVars, synthVars, stitcherVars, stitchVars, outputVars
    <2>3. Shape'
      BY <2>1, <2>2, RowShape DEF Shape, TableFrame
    <2>4. Recorded'
      BY <2>1, <2>2 DEF Recorded, ChunkOf, TableFrame, Done
    <2>5. Published'
      BY <2>1, <2>2, PublishedGrows DEF TableFrame
    <2> QED
      BY <2>3, <2>4, <2>5
  <1>4. CASE UNCHANGED vars
    <2>1. UNCHANGED <<book, chunk, clips, markDocs, synthPc, synthMsg, stitchPc, plan, manifest>>
      BY <1>4 DEF vars, storeVars, tableVars, objectVars, synthVars, stitcherVars, stitchVars, outputVars
    <2> QED
      BY <2>1 DEF Shape, Recorded, Published, Sound, Done, ChunkOf
  <1> QED
    BY <1>1, <1>2, <1>3, <1>4 DEF Next

\* Along every behaviour of the pipeline, with any number of invocations,
\* retries and faults, what the stitchers plan and publish is sound.
THEOREM SoundAlways == Spec => []SoundInv
  <1>1. Init => SoundInv
    BY NarrationInit
  <1>2. SoundInv /\ [Next]_vars => SoundInv'
    BY NarrationStep
  <1> QED
    BY <1>1, <1>2, PTL DEF Spec

\* Every segment of whatever manifest is in the bucket can be played: its row
\* is DONE and its two objects exist (stitching.py:168-170, 286-300).
THEOREM PlayableManifest == Spec => []ManifestIsPlayable
  <1>1. SoundInv => ManifestIsPlayable
    BY DEF SoundInv, Published, Recorded, Done, ManifestIsPlayable
  <1> QED
    BY <1>1, SoundAlways, PTL

-----------------------------------------------------------------------------
(* The promise *)

\* What NarratedBook is told of a status.
Phase(status) ==
  CASE status \in {"EXTRACTED", "STITCHING"} -> "working"
    [] status = "READY"                      -> "ready"
    [] OTHER                                 -> "partial"

\* A step of the promise, or one that it does not notice.
Kept ==
  \/ Promise!Next
  \/ Phase(book'.status) = Phase(book.status) /\ Done' = Done /\ book'.audioKey = book.audioKey

LEMMA PromiseInit == Init => Promise!Init
  <1> SUFFICES ASSUME Init PROVE Promise!Init
    OBVIOUS
  <1>1. /\ book = ExtractedBook(MaxChunks)
        /\ chunk = [c \in Chunks |-> "PENDING"]
    <2>1. \A c \in Chunks : c < MaxChunks
      BY StoreAssumption DEF Chunks
    <2> QED
      BY <2>1 DEF Init, StoreExtracted
  <1>2. Done = {}
    BY <1>1 DEF Done
  <1>3. book.status = "EXTRACTED" /\ book.audioKey = FALSE
    BY <1>1 DEF ExtractedBook, NewBook
  <1> QED
    BY <1>2, <1>3 DEF Promise!Init

\* A synthesizer tells at most one chunk.
LEMMA SynthKeeps == ASSUME SynthFrame PROVE Kept
  <1>0. book'.status = book.status /\ book'.audioKey = book.audioKey
    BY DEF SynthFrame, SameBook
  <1>1. CASE Done' = Done
    BY <1>0, <1>1 DEF Kept
  <1>2. CASE Done' # Done
    <2> PICK w \in SynthWorkers : Done \subseteq Done' /\ Done' \subseteq Done \cup {ChunkOf(w)}
      BY <1>2 DEF SynthFrame
    <2>1. ChunkOf(w) \in Chunks /\ ChunkOf(w) \notin Done /\ Done' = Done \cup {ChunkOf(w)}
      BY <1>2 DEF Done
    <2>2. Promise!Tell(ChunkOf(w))
      BY <1>0, <2>1 DEF Promise!Tell
    <2> QED
      BY <2>1, <2>2 DEF Kept, Promise!Next
  <1> QED
    BY <1>1, <1>2

\* The book is finished as READY only by a plan that lists every chunk.
LEMMA FinishKeeps ==
  ASSUME Shape, Published, NEW w \in StitchWorkers, Finished(w), Done' = Done
  PROVE  Kept
  <1>0. /\ book.status = "STITCHING" /\ book'.status = FinalStatus(w)
        /\ book'.audioKey = (book.audioKey \/ plan[w].audio)
        /\ Sound(plan[w], "finish") /\ plan[w] \in Plans
    BY DEF Finished, Shape, Published
  <1>1. CASE FinalStatus(w) = "READY"
    <2>1. ~plan[w].degraded /\ plan[w].segments # {} /\ plan[w].missing = {}
      BY <1>1 DEF FinalStatus
    <2>2. plan[w].audio /\ plan[w].segments = Chunks
      BY <1>0, <2>1 DEF Sound, Plans
    <2>3. Done = Chunks
      BY <1>0, <2>2 DEF Sound, Done
    <2>4. book'.audioKey = TRUE
      BY <1>0, <2>2
    <2>5. Promise!Complete
      BY <1>0, <1>1, <2>3, <2>4 DEF Promise!Complete
    <2> QED
      BY <2>5 DEF Kept, Promise!Next
  <1>2. CASE FinalStatus(w) = "PARTIAL"
    <2>1. book'.audioKey => Done # {}
      BY <1>0 DEF Sound, Published
    <2>2. book'.audioKey \in BOOLEAN
      BY <1>0
    <2>3. book'.audioKey \in {FALSE, Done # {}}
      BY <2>1, <2>2
    <2>4. Promise!GiveUp
      BY <1>0, <1>2, <2>3 DEF Promise!GiveUp
    <2> QED
      BY <2>4 DEF Kept, Promise!Next
  <1> QED
    BY <1>1, <1>2 DEF FinalStatus

LEMMA BookKeeps ==
  ASSUME Shape, Published, BookStep, Done' = Done
  PROVE  Kept
  <1>1. CASE SameBook
    BY <1>1 DEF SameBook, Kept
  <1>2. CASE Moved
    BY <1>2 DEF Moved, Working, Phase, Kept
  <1>3. CASE TakenUp
    <2>1. Promise!TakeUpAgain
      BY <1>3 DEF TakenUp, Promise!TakeUpAgain
    <2> QED
      BY <2>1 DEF Kept, Promise!Next
  <1> QED
    BY <1>1, <1>2, <1>3, FinishKeeps DEF BookStep

LEMMA PromiseStep == ASSUME SoundInv, [Next]_vars PROVE Kept
  <1> USE DEF SoundInv
  <1>1. CASE SynthNext
    BY <1>1, SynthSteps, SynthKeeps
  <1>2. CASE StitchNext
    <2>1. BookStep /\ Done' = Done
      BY <1>2, StitchSteps DEF StitchFrame, BookStep, Done
    <2> QED
      BY <2>1, BookKeeps
  <1>3. CASE SweepNext \/ RetryNext
    <2>1. BookStep /\ Done' = Done
      BY <1>3, SweepSteps, RetrySteps DEF TableFrame, BookStep
    <2> QED
      BY <2>1, BookKeeps
  <1>4. CASE UNCHANGED vars
    BY <1>4 DEF vars, storeVars, tableVars, Done, Kept
  <1> QED
    BY <1>1, <1>2, <1>3, <1>4 DEF Next

\* The pipeline implements NarratedBook: READY is reached only with every chunk
\* DONE and is never left, DONE chunks stay DONE, and only a retry reopens a
\* PARTIAL book, whose audio it withdraws (stitching.py:313-385,
\* resynthesis.py:91-131).
THEOREM PipelineKeepsPromise == Spec => KeepsPromise
  <1>1. Init => Promise!Init
    BY PromiseInit
  <1>2. SoundInv /\ [Next]_vars =>
          [Promise!Next]_<<CASE book.status \in {"EXTRACTED", "STITCHING"} -> "working"
                             [] book.status = "READY"                      -> "ready"
                             [] OTHER                                      -> "partial",
                           Done, book.audioKey>>
    BY PromiseStep DEF Kept, Phase
  <1> QED
    BY <1>1, <1>2, SoundAlways, PTL DEF Spec, KeepsPromise, Promise!Spec

-----------------------------------------------------------------------------
(* The objects behind the keys of the row *)

\* Objects are never taken away, and a plan that offers one has written it.
Stored ==
  /\ book.audioKey => bookMp3.exists
  /\ book.manifestKey => manifest.exists
  /\ \A w \in StitchWorkers : /\ plan[w].audio => bookMp3.exists
                              /\ plan[w].manifestKey => manifest.exists
  /\ Silent = {} /\ bookMp3.exists => bookMp3.parts # {}

LEMMA StoredStitch == ASSUME Shape, Stored, StitchNext PROVE Stored'
  <1> PICK w \in StitchWorkers : StitchHandler(w) \/ StitchEnvironment(w)
    BY DEF StitchNext
  <1> USE DEF outputVars, storeVars, tableVars
  <1>0. /\ DOMAIN book = Fields /\ plan[w] \in Plans /\ plan \in [StitchWorkers -> Plans]
    BY DEF Shape
  <1>1. CASE Concatenate(w)
    <2> DEFINE heard == plan[w].segments \ Silent
    <2>1. UNCHANGED <<book, manifest>>
      BY <1>1 DEF Concatenate
    <2>2. plan' = [plan EXCEPT ![w].segments = heard, ![w].missing = @ \cup (plan[w].segments \cap Silent),
                               ![w].audio = heard # {}]
      BY <1>1 DEF Concatenate
    <2>3. /\ plan'[w].audio = (heard # {}) /\ plan'[w].manifestKey = plan[w].manifestKey
          /\ \A v \in StitchWorkers : v # w => plan'[v] = plan[v]
      BY <1>0, <2>2 DEF Plans
    <2>4. bookMp3' = IF plan[w].segments = {} THEN bookMp3 ELSE [exists |-> TRUE, parts |-> heard]
      BY <1>1 DEF Concatenate, JoinClips
    <2>5. CASE plan[w].segments = {}
      BY <2>1, <2>3, <2>4, <2>5 DEF Stored
    <2>6. CASE plan[w].segments # {}
      <3>1. bookMp3'.exists /\ bookMp3'.parts = heard
        BY <2>4, <2>6
      <3> QED
        BY <2>1, <2>3, <2>6, <3>1 DEF Stored
    <2> QED
      BY <2>5, <2>6
  <1>2. CASE PutManifest(w)
    <2>1. UNCHANGED <<book, bookMp3>> /\ manifest'.exists /\ plan' = [plan EXCEPT ![w].manifestKey = TRUE]
      BY <1>2 DEF PutManifest, ManifestOf
    <2>2. plan'[w].audio = plan[w].audio /\ \A v \in StitchWorkers : v # w => plan'[v] = plan[v]
      BY <1>0, <2>1 DEF Plans
    <2> QED
      BY <2>1, <2>2 DEF Stored
  <1>3. CASE StitchFinish(w)
    <2>1. UNCHANGED <<plan, bookMp3, manifest>>
      BY <1>3 DEF StitchFinish
    <2>2. book'.audioKey => book.audioKey \/ plan[w].audio
      BY <1>0, <1>3 DEF StitchFinish, Fields
    <2>3. book'.manifestKey => book.manifestKey \/ plan[w].manifestKey
      BY <1>0, <1>3 DEF StitchFinish, Fields
    <2> QED
      BY <2>1, <2>2, <2>3 DEF Stored
  <1>4. CASE StitchClaim(w) \/ StitchRelease(w)
    <2>1. UNCHANGED <<bookMp3, manifest>> /\ (UNCHANGED plan \/ plan' = [plan EXCEPT ![w] = NoPlan])
      BY <1>4 DEF StitchClaim, StitchRelease, StitchRaise, StitchStop
    <2>2. book'.audioKey = book.audioKey /\ book'.manifestKey = book.manifestKey
      BY <1>0, <1>4 DEF StitchClaim, StitchRelease, Fields
    <2> QED
      BY <1>0, <2>1, <2>2 DEF Stored, NoPlan
  <1>5. CASE StitchList(w)
    <2>1. UNCHANGED <<book, bookMp3, manifest>>
      BY <1>5 DEF StitchList
    <2> PICK unseen \in SUBSET Lagging : plan' = [plan EXCEPT ![w] = Listed(FALSE, unseen)]
      BY <1>5 DEF StitchList
    <2>2. ~Listed(FALSE, unseen).audio /\ ~Listed(FALSE, unseen).manifestKey
      BY DEF Listed, NoPlan
    <2> QED
      BY <1>0, <2>1, <2>2 DEF Stored
  <1>6. CASE ConcatenateFails(w)
    <2>1. /\ UNCHANGED <<book, manifest>>
          /\ UNCHANGED plan \/ plan' = [plan EXCEPT ![w].degraded = TRUE]
      BY <1>6 DEF ConcatenateFails
    <2>2. \A v \in StitchWorkers : plan'[v].audio = plan[v].audio /\ plan'[v].manifestKey = plan[v].manifestKey
      BY <1>0, <2>1 DEF Plans
    <2>3. \/ UNCHANGED bookMp3
          \/ bookMp3'.exists /\ bookMp3'.parts = plan[w].segments \ Silent /\ plan[w].segments # {}
      BY <1>6 DEF ConcatenateFails, JoinClips
    <2> QED
      BY <2>1, <2>2, <2>3 DEF Stored
  <1>7. CASE \/ StitchReceive(w) \/ StitchGet(w) \/ PutManifestFails(w) \/ StitchAck(w)
             \/ StitchCrash(w) \/ StitchDuplicate(w)
    <2>1. /\ UNCHANGED <<book, bookMp3>>
          /\ UNCHANGED plan \/ plan' = [plan EXCEPT ![w] = NoPlan]
          /\ UNCHANGED manifest \/ manifest' = ManifestOf(w)
      BY <1>7 DEF StitchReceive, StitchGet, PutManifestFails, StitchAck, StitchCrash, StitchDuplicate,
                  StitchRaise, StitchStop, stitchVars
    <2>2. UNCHANGED manifest \/ manifest'.exists
      BY <2>1 DEF ManifestOf
    <2>3. CASE UNCHANGED plan
      BY <2>1, <2>2, <2>3 DEF Stored
    <2>4. CASE plan' = [plan EXCEPT ![w] = NoPlan]
      <3>1. ~plan'[w].audio /\ ~plan'[w].manifestKey
        BY <1>0, <2>4 DEF NoPlan
      <3>2. \A v \in StitchWorkers : v # w => plan'[v] = plan[v]
        BY <1>0, <2>4
      <3> QED
        BY <2>1, <2>2, <3>1, <3>2 DEF Stored
    <2> QED
      BY <2>1, <2>3, <2>4
  <1> QED
    BY <1>1, <1>2, <1>3, <1>4, <1>5, <1>6, <1>7 DEF StitchHandler, StitchEnvironment

LEMMA StoredStep == ASSUME SoundInv, Stored, [Next]_vars PROVE Stored'
  <1> USE DEF SoundInv
  <1>1. CASE StitchNext
    BY <1>1, StoredStitch
  <1>2. CASE \/ SynthNext /\ UNCHANGED <<stitcherVars, sweepVars, retryVars>>
             \/ SweepNext /\ UNCHANGED <<synthVars, stitcherVars, retryVars>>
             \/ RetryNext /\ UNCHANGED <<synthVars, stitcherVars, sweepVars>>
             \/ UNCHANGED vars
    <2>1. UNCHANGED <<plan, bookMp3, manifest>>
      BY <1>2 DEF vars, stitcherVars, stitchVars, outputVars
    <2>2. SameBook \/ TakenUp \/ UNCHANGED book
      BY <1>2, SynthSteps, SweepSteps, RetrySteps DEF SynthFrame, vars, storeVars, tableVars
    <2>3. (book'.audioKey => book.audioKey) /\ (book'.manifestKey => book.manifestKey)
      BY <2>2 DEF SameBook, TakenUp
    <2> QED
      BY <2>1, <2>3 DEF Stored
  <1> QED
    BY <1>1, <1>2 DEF Next

LEMMA StoredAlways == Spec => []Stored
  <1>1. Init => Stored
    BY DEF Init, StoreExtracted, ExtractedBook, NewBook, StitchInit, NoPlan, NoMp3, NoManifest, Stored
  <1>2. SoundInv /\ Stored /\ [Next]_vars => Stored'
    BY StoredStep
  <1> QED
    BY <1>1, <1>2, SoundAlways, PTL DEF Spec

\* When every chunk has a frame to play, a key on the book row is never ahead
\* of its object, and the audio it advertises is not empty, however many
\* stitchers run (stitching.py:23-25).
THEOREM AdvertisedOutputsExist == ASSUME Silent = {} PROVE Spec => []OutputsExist
  <1>1. Stored => OutputsExist
    BY DEF Stored, OutputsExist
  <1> QED
    BY <1>1, StoredAlways, PTL

-----------------------------------------------------------------------------
(* One stitcher at a time: the manifest and the audio are those of one plan *)

OneStitcher == \A v, w \in StitchWorkers : v = w

\* Where a stitcher that has claimed the book may stand.
Claimed == {"list", "concat", "release", "putManifest", "finish"}

\* A plan that offers audio was not given up, and the objects of the steps it
\* has behind it are its own.
Agreed(p, here) ==
  /\ p.degraded => ~p.audio
  /\ here = "concat" => ~p.audio /\ ~p.degraded
  /\ here \in {"putManifest", "finish"} /\ p.audio => bookMp3.parts = p.segments
  /\ here = "finish" /\ p.audio /\ p.manifestKey => manifest.audio /\ manifest.segments = p.segments

\* While the book is worked on its row advertises nothing, so that what is
\* advertised when it is finished is what this one plan has written; and its
\* one stitcher writes nothing once it is finished.
Withdrawn == book.status \in Working => ~book.audioKey /\ ~book.manifestKey

\* What the row advertises can be heard and is what the manifest describes.
Fitting == OutputsAgree /\ (book.audioKey => bookMp3.parts # {})

Together ==
  /\ Withdrawn
  /\ \A w \in StitchWorkers : /\ stitchPc[w] \in Claimed => book.status = "STITCHING"
                              /\ Agreed(plan[w], stitchPc[w])
  /\ Fitting

LEMMA TogetherAt ==
  ASSUME OneStitcher, NEW w \in StitchWorkers, Withdrawn', Fitting',
         stitchPc'[w] \in Claimed => book'.status = "STITCHING", Agreed(plan[w], stitchPc[w])'
  PROVE  Together'
  BY DEF OneStitcher, Together

\* Away from the two steps that write, and from the last one, a plan is asked
\* only not to offer what was given up.
LEMMA AgreedElsewhere ==
  ASSUME NEW p, NEW here, NEW there, Agreed(p, here), there \notin {"concat", "putManifest", "finish"}
  PROVE  Agreed(p, there)
  BY DEF Agreed

LEMMA TogetherStitch == ASSUME OneStitcher, Shape, Published, Together, StitchNext PROVE Together'
  <1> PICK w \in StitchWorkers : StitchHandler(w) \/ StitchEnvironment(w)
    BY DEF StitchNext
  <1>0. /\ DOMAIN book = Fields /\ book.audioKey \in BOOLEAN /\ book.manifestKey \in BOOLEAN
        /\ plan[w] \in Plans /\ plan \in [StitchWorkers -> Plans]
        /\ stitchPc \in [StitchWorkers -> StitchPcs]
    BY DEF Shape
  <1>1. /\ Withdrawn /\ Fitting
        /\ stitchPc[w] \in Claimed => book.status = "STITCHING"
        /\ Agreed(plan[w], stitchPc[w])
    BY DEF Together
  <1> USE DEF outputVars, storeVars, tableVars, StitchAt, StitchGoto
  <1>a. UNCHANGED book => Withdrawn'
    BY <1>1 DEF Withdrawn
  <1>b. UNCHANGED <<book, bookMp3, manifest>> => Fitting'
    BY <1>1 DEF Fitting, OutputsAgree
  <1>c. Withdrawn' /\ book'.status \in Working => Fitting'
    <2>1. \A s \in Working : s \notin {"READY", "PARTIAL"}
      BY DEF Working
    <2> QED
      BY <2>1 DEF Withdrawn, Fitting, OutputsAgree
  <1>2. CASE StitchReceive(w) \/ StitchGet(w)
    <2>1. UNCHANGED <<book, plan, bookMp3, manifest>>
      BY <1>2 DEF StitchReceive, StitchGet
    <2>2. stitchPc'[w] \in {"get", "claim", "ack"}
      BY <1>0, <1>2 DEF StitchReceive, StitchGet
    <2>3. Agreed(plan[w], stitchPc'[w])
      BY <1>1, <2>2, AgreedElsewhere
    <2>4. Agreed(plan[w], stitchPc[w])'
      BY <2>1, <2>3 DEF Agreed
    <2>5. stitchPc'[w] \notin Claimed
      BY <2>2 DEF Claimed
    <2> QED
      BY <1>a, <1>b, <2>1, <2>4, <2>5, TogetherAt
  <1>3. CASE StitchClaim(w)
    <2>1. UNCHANGED <<plan, bookMp3, manifest>>
      BY <1>3 DEF StitchClaim
    <2>2. CASE stitchPc'[w] = "ack" /\ UNCHANGED book
      <3>1. Agreed(plan[w], stitchPc[w])'
        BY <1>1, <2>1, <2>2 DEF Agreed
      <3> QED
        BY <1>a, <1>b, <2>1, <2>2, <3>1, TogetherAt DEF Claimed
    <2>3. CASE /\ stitchPc'[w] = "list" /\ book.status \in Working
               /\ book' = [book EXCEPT !.status = "STITCHING"]
      <3>1. /\ book'.status = "STITCHING"
            /\ book'.audioKey = book.audioKey /\ book'.manifestKey = book.manifestKey
        BY <1>0, <2>3 DEF Fields
      <3>2. Withdrawn' /\ Fitting'
        BY <1>1, <1>c, <2>3, <3>1 DEF Withdrawn, Working
      <3>3. Agreed(plan[w], stitchPc[w])'
        BY <1>1, <2>1, <2>3 DEF Agreed
      <3> QED
        BY <3>1, <3>2, <3>3, TogetherAt
    <2> QED
      BY <1>0, <1>3, <2>2, <2>3 DEF StitchClaim, StitchableBookStatuses, Working
  <1>4. CASE StitchList(w)
    <2>1. UNCHANGED <<book, bookMp3, manifest>> /\ stitchPc[w] = "list" /\ stitchPc'[w] = "concat"
      BY <1>0, <1>4 DEF StitchList
    <2>2. PICK unseen \in SUBSET Lagging : plan' = [plan EXCEPT ![w] = Listed(FALSE, unseen)]
      BY <1>4 DEF StitchList
    <2>3. ~Listed(FALSE, unseen).audio /\ ~Listed(FALSE, unseen).degraded
      BY DEF Listed, NoPlan
    <2>4. Agreed(plan[w], stitchPc[w])'
      BY <1>0, <2>1, <2>2, <2>3 DEF Agreed
    <2> QED
      BY <1>1, <1>a, <1>b, <2>1, <2>4, TogetherAt DEF Claimed
  <1>5. CASE Concatenate(w)
    <2> DEFINE heard == plan[w].segments \ Silent
    <2>1. UNCHANGED <<book, manifest>> /\ stitchPc[w] = "concat" /\ stitchPc'[w] = "putManifest"
      BY <1>0, <1>5 DEF Concatenate
    <2>2. book.status = "STITCHING" /\ ~plan[w].degraded
      BY <1>1, <2>1 DEF Claimed, Agreed
    <2>3. plan' = [plan EXCEPT ![w].segments = heard, ![w].missing = @ \cup (plan[w].segments \cap Silent),
                               ![w].audio = heard # {}]
      BY <1>5 DEF Concatenate
    <2>4. /\ plan'[w].segments = heard /\ plan'[w].audio = (heard # {})
          /\ plan'[w].degraded = plan[w].degraded
      BY <1>0, <2>3 DEF Plans
    <2>5. plan[w].segments # {} => bookMp3'.parts = heard
      BY <1>5 DEF Concatenate, JoinClips
    <2>6. Agreed(plan[w], stitchPc[w])'
      BY <2>1, <2>2, <2>4, <2>5 DEF Agreed
    <2> QED
      BY <1>a, <1>c, <2>1, <2>2, <2>6, TogetherAt DEF Working
  <1>6. CASE ConcatenateFails(w)
    <2>1. UNCHANGED <<book, manifest>> /\ stitchPc[w] = "concat"
      BY <1>6 DEF ConcatenateFails
    <2>2. book.status = "STITCHING" /\ ~plan[w].audio /\ ~plan[w].degraded
      BY <1>1, <2>1 DEF Claimed, Agreed
    <2>3. \/ stitchPc'[w] = "release" /\ UNCHANGED plan
          \/ stitchPc'[w] = "putManifest" /\ plan' = [plan EXCEPT ![w].degraded = TRUE]
      BY <1>0, <1>6 DEF ConcatenateFails
    <2>4. plan'[w].audio = plan[w].audio
      BY <1>0, <2>3 DEF Plans
    <2>5. Agreed(plan[w], stitchPc[w])'
      BY <2>2, <2>3, <2>4 DEF Agreed
    <2> QED
      BY <1>a, <1>c, <2>1, <2>2, <2>5, TogetherAt DEF Working
  <1>7. CASE StitchAck(w) \/ StitchCrash(w)
    <2>1. /\ UNCHANGED <<book, bookMp3, manifest>>
          /\ plan'[w] = NoPlan /\ stitchPc'[w] = "idle"
      BY <1>0, <1>7 DEF StitchAck, StitchCrash, StitchRaise, StitchStop
    <2>2. Agreed(plan[w], stitchPc[w])'
      BY <2>1 DEF Agreed, NoPlan
    <2> QED
      BY <1>a, <1>b, <2>1, <2>2, TogetherAt DEF Claimed
  <1>8. CASE StitchRelease(w)
    <2>1. /\ UNCHANGED <<bookMp3, manifest>> /\ stitchPc[w] = "release"
          /\ plan'[w] = NoPlan /\ stitchPc'[w] = "idle"
      BY <1>0, <1>8 DEF StitchRelease, StitchRaise, StitchStop
    <2>2. book.status = "STITCHING"
      BY <1>1, <2>1 DEF Claimed
    <2>3. /\ book'.status = "EXTRACTED"
          /\ book'.audioKey = book.audioKey /\ book'.manifestKey = book.manifestKey
      BY <1>0, <1>8, <2>2 DEF StitchRelease, Fields
    <2>4. Withdrawn'
      BY <1>1, <2>2, <2>3 DEF Withdrawn, Working
    <2>5. Agreed(plan[w], stitchPc[w])'
      BY <2>1 DEF Agreed, NoPlan
    <2> QED
      BY <1>c, <2>1, <2>3, <2>4, <2>5, TogetherAt DEF Claimed, Working
  <1>9. CASE PutManifest(w)
    <2>1. UNCHANGED <<book, bookMp3>> /\ stitchPc[w] = "putManifest" /\ stitchPc'[w] = "finish"
      BY <1>0, <1>9 DEF PutManifest
    <2>2. manifest'.audio = plan[w].audio /\ manifest'.segments = plan[w].segments
      BY <1>9 DEF PutManifest, ManifestOf
    <2>3. /\ plan'[w].audio = plan[w].audio /\ plan'[w].segments = plan[w].segments
          /\ plan'[w].degraded = plan[w].degraded
      BY <1>0, <1>9 DEF PutManifest, Plans
    <2>4. Agreed(plan[w], stitchPc[w])'
      BY <1>1, <2>1, <2>2, <2>3 DEF Agreed
    <2>5. book.status = "STITCHING"
      BY <1>1, <2>1 DEF Claimed
    <2> QED
      BY <1>a, <1>c, <2>1, <2>4, <2>5, TogetherAt DEF Working
  <1>10. CASE PutManifestFails(w)
    <2>1. UNCHANGED <<book, bookMp3>> /\ stitchPc[w] = "putManifest"
      BY <1>10 DEF PutManifestFails
    <2>2. book.status = "STITCHING"
      BY <1>1, <2>1 DEF Claimed
    <2>3. CASE plan[w].degraded /\ stitchPc'[w] = "finish" /\ UNCHANGED plan
      <3>1. ~plan[w].audio
        BY <1>1, <2>1, <2>3 DEF Agreed
      <3>2. Agreed(plan[w], stitchPc[w])'
        BY <1>1, <2>3, <3>1 DEF Agreed
      <3> QED
        BY <1>a, <1>c, <2>1, <2>2, <3>2, TogetherAt DEF Working
    <2>4. CASE plan'[w] = NoPlan /\ stitchPc'[w] = "idle"
      <3>1. Agreed(plan[w], stitchPc[w])'
        BY <2>4 DEF Agreed, NoPlan
      <3> QED
        BY <1>a, <1>c, <2>1, <2>2, <2>4, <3>1, TogetherAt DEF Claimed, Working
    <2> QED
      BY <1>0, <1>10, <2>3, <2>4 DEF PutManifestFails, StitchRaise, StitchStop
  <1>11. CASE StitchFinish(w)
    <2>1. UNCHANGED <<plan, bookMp3, manifest>> /\ stitchPc[w] = "finish" /\ stitchPc'[w] = "ack"
      BY <1>0, <1>11 DEF StitchFinish
    <2>2. book.status = "STITCHING" /\ ~book.audioKey /\ ~book.manifestKey
      BY <1>1, <2>1 DEF Claimed, Withdrawn, Working
    <2>3. /\ book'.status = FinalStatus(w)
          /\ book'.audioKey = (book.audioKey \/ plan[w].audio)
          /\ book'.manifestKey = (book.manifestKey \/ plan[w].manifestKey)
      BY <1>0, <1>11, <2>2 DEF StitchFinish, Fields
    <2>4. Withdrawn'
      BY <2>3 DEF Withdrawn, FinalStatus, Working
    <2>5. Fitting'
      <3>1. OutputsAgree'
        BY <1>1, <2>1, <2>2, <2>3 DEF Agreed, OutputsAgree
      <3>2. plan[w].audio => bookMp3.parts # {}
        BY <1>1, <2>1 DEF Agreed, Published, Sound
      <3> QED
        BY <2>1, <2>2, <2>3, <3>1, <3>2 DEF Fitting
    <2>6. Agreed(plan[w], stitchPc[w])'
      BY <1>1, <2>1 DEF Agreed
    <2> QED
      BY <2>1, <2>4, <2>5, <2>6, TogetherAt DEF Claimed
  <1>12. CASE StitchDuplicate(w)
    <2>1. UNCHANGED <<book, plan, stitchPc, bookMp3, manifest>>
      BY <1>12 DEF StitchDuplicate, stitchVars
    <2> QED
      BY <1>1, <1>a, <1>b, <2>1, TogetherAt DEF Agreed
  <1> QED
    BY <1>2, <1>3, <1>4, <1>5, <1>6, <1>7, <1>8, <1>9, <1>10, <1>11, <1>12 DEF StitchHandler, StitchEnvironment

LEMMA TogetherStep == ASSUME OneStitcher, SoundInv, Together, [Next]_vars PROVE Together'
  <1> USE DEF SoundInv
  <1>1. CASE StitchNext
    BY <1>1, TogetherStitch
  <1>2. CASE \/ SynthNext /\ UNCHANGED <<stitcherVars, sweepVars, retryVars>>
             \/ SweepNext /\ UNCHANGED <<synthVars, stitcherVars, retryVars>>
             \/ RetryNext /\ UNCHANGED <<synthVars, stitcherVars, sweepVars>>
             \/ UNCHANGED vars
    <2>1. UNCHANGED <<stitchPc, plan, bookMp3, manifest>>
      BY <1>2 DEF vars, stitcherVars, stitchVars, outputVars
    <2>2. SameBook \/ TakenUp \/ UNCHANGED book
      BY <1>2, SynthSteps, SweepSteps, RetrySteps DEF SynthFrame, vars, storeVars, tableVars
    <2>3. CASE SameBook \/ UNCHANGED book
      BY <2>1, <2>3 DEF SameBook, Together, Withdrawn, Agreed, Fitting, OutputsAgree
    <2>4. CASE TakenUp
      <3>1. \A w \in StitchWorkers : stitchPc'[w] \notin Claimed
        BY <2>1, <2>4 DEF TakenUp, Together
      <3> QED
        BY <2>1, <2>4, <3>1 DEF TakenUp, Together, Withdrawn, Agreed, Fitting, OutputsAgree
    <2> QED
      BY <2>2, <2>3, <2>4
  <1> QED
    BY <1>1, <1>2 DEF Next

LEMMA TogetherAlways == ASSUME OneStitcher PROVE Spec => []Together
  <1>1. Init => Together
    BY DEF Init, StoreExtracted, ExtractedBook, NewBook, StitchInit, NoPlan, Together, Withdrawn, Agreed,
           Fitting, OutputsAgree, Claimed
  <1>2. SoundInv /\ Together /\ [Next]_vars => Together'
    BY TogetherStep
  <1> QED
    BY <1>1, <1>2, SoundAlways, PTL DEF Spec

\* With one stitcher at a time, however often it dies, is retried, finds other
\* rows or loses a write, the manifest of a finished book describes the very
\* book.mp3 its row advertises (stitching.py:12-14, 369-371).
THEOREM OutputsFitTogether == ASSUME OneStitcher PROVE Spec => []OutputsAgree
  <1>1. Together => OutputsAgree
    BY DEF Together, Fitting
  <1> QED
    BY <1>1, TogetherAlways, PTL

\* With one stitcher at a time a key is never ahead of its object, and the
\* audio that is advertised is not empty, even when chunks of the book have no
\* frame to play (stitching.py:23-25, 168-170).
THEOREM OneStitcherOutputsExist == ASSUME OneStitcher PROVE Spec => []OutputsExist
  <1>1. Stored /\ Together => OutputsExist
    BY DEF Stored, Together, Fitting, OutputsExist
  <1> QED
    BY <1>1, StoredAlways, TogetherAlways, PTL

-----------------------------------------------------------------------------
(* The promise of Stitched *)

\* What is missing from a plan is all that it does not list.
Exhaustive ==
  \A w \in StitchWorkers :
    stitchPc[w] \in {"concat", "putManifest", "finish"} => plan[w].missing = Chunks \ plan[w].segments

LEMMA ExhaustiveStitch == ASSUME OneStitcher, Shape, Exhaustive, StitchNext PROVE Exhaustive'
  <1> PICK w \in StitchWorkers : StitchHandler(w) \/ StitchEnvironment(w)
    BY DEF StitchNext
  <1>0. /\ plan[w] \in Plans /\ plan \in [StitchWorkers -> Plans]
        /\ stitchPc \in [StitchWorkers -> StitchPcs]
    BY DEF Shape
  <1> SUFFICES stitchPc'[w] \in {"concat", "putManifest", "finish"} => plan'[w].missing = Chunks \ plan'[w].segments
    BY DEF OneStitcher, Exhaustive
  <1> USE DEF StitchAt, StitchGoto
  <1>1. CASE StitchList(w)
    <2>1. PICK unseen \in SUBSET Lagging : plan' = [plan EXCEPT ![w] = Listed(FALSE, unseen)]
      BY <1>1 DEF StitchList
    <2>2. Rows = Chunks
      BY DEF Rows, Shape, ChunkStatus, Absent
    <2> DEFINE narrated == {c \in Rows : chunk[c] = "DONE"} \ unseen
               p == [NoPlan EXCEPT !.segments = narrated, !.missing = Rows \ narrated, !.degraded = FALSE]
    <2>3. plan'[w] = p
      BY <1>0, <2>1 DEF Listed
    <2> HIDE DEF narrated
    <2>4. p.missing = Rows \ narrated /\ p.segments = narrated
      BY DEF NoPlan
    <2> QED
      BY <2>2, <2>3, <2>4
  <1>2. CASE Concatenate(w)
    <2> DEFINE heard == plan[w].segments \ Silent
               lost  == plan[w].missing \cup (plan[w].segments \cap Silent)
    <2>1. stitchPc[w] = "concat"
      BY <1>2 DEF Concatenate
    <2>2. plan' = [plan EXCEPT ![w].segments = heard, ![w].missing = lost, ![w].audio = heard # {}]
      BY <1>0, <1>2 DEF Concatenate
    <2>3. heard \subseteq Chunks /\ lost = Chunks \ heard
      BY <1>0, <2>1 DEF Exhaustive, Plans
    <2> HIDE DEF heard, lost
    <2>4. plan'[w].segments = heard /\ plan'[w].missing = lost
      BY <1>0, <2>2 DEF Plans
    <2> QED
      BY <2>3, <2>4
  <1>3. CASE ConcatenateFails(w)
    <2>1. stitchPc[w] = "concat" /\ (UNCHANGED plan \/ plan' = [plan EXCEPT ![w].degraded = TRUE])
      BY <1>3 DEF ConcatenateFails
    <2>2. plan'[w].segments = plan[w].segments /\ plan'[w].missing = plan[w].missing
      BY <1>0, <2>1 DEF Plans
    <2> QED
      BY <2>1, <2>2 DEF Exhaustive
  <1>4. CASE PutManifest(w)
    <2>1. stitchPc[w] = "putManifest" /\ plan' = [plan EXCEPT ![w].manifestKey = TRUE]
      BY <1>4 DEF PutManifest
    <2>2. plan'[w].segments = plan[w].segments /\ plan'[w].missing = plan[w].missing
      BY <1>0, <2>1 DEF Plans
    <2> QED
      BY <2>1, <2>2 DEF Exhaustive
  <1>5. CASE PutManifestFails(w)
    <2>1. /\ stitchPc[w] = "putManifest"
          /\ UNCHANGED plan \/ stitchPc' = [stitchPc EXCEPT ![w] = "idle"]
      BY <1>5 DEF PutManifestFails, StitchRaise, StitchStop
    <2> QED
      BY <1>0, <2>1 DEF Exhaustive
  <1>6. CASE StitchDuplicate(w)
    BY <1>6 DEF StitchDuplicate, stitchVars, Exhaustive
  <1>7. CASE StitchReceive(w) \/ StitchGet(w) \/ StitchClaim(w) \/ StitchFinish(w)
    <2>1. \E here \in {"get", "claim", "ack", "list"} : stitchPc' = [stitchPc EXCEPT ![w] = here]
      BY <1>7 DEF StitchReceive, StitchGet, StitchClaim, StitchFinish
    <2> QED
      BY <1>0, <2>1
  <1>8. CASE StitchRelease(w) \/ StitchAck(w) \/ StitchCrash(w)
    <2>1. stitchPc' = [stitchPc EXCEPT ![w] = "idle"]
      BY <1>8 DEF StitchRelease, StitchAck, StitchCrash, StitchRaise, StitchStop
    <2> QED
      BY <1>0, <2>1
  <1> QED
    BY <1>1, <1>2, <1>3, <1>4, <1>5, <1>6, <1>7, <1>8 DEF StitchHandler, StitchEnvironment

LEMMA ExhaustiveStep == OneStitcher /\ SoundInv /\ Exhaustive /\ [Next]_vars => Exhaustive'
  <1> SUFFICES ASSUME OneStitcher, SoundInv, Exhaustive, [Next]_vars PROVE Exhaustive'
    OBVIOUS
  <1>1. CASE StitchNext
    BY <1>1, ExhaustiveStitch DEF SoundInv
  <1>2. CASE UNCHANGED stitcherVars \/ UNCHANGED vars
    BY <1>2 DEF vars, stitcherVars, stitchVars, Exhaustive
  <1> QED
    BY <1>1, <1>2 DEF Next

\* What Stitched is shown of a plan.
OfferMade(p) == [segments |-> p.segments, missing |-> p.missing, audio |-> p.audio, degraded |-> p.degraded]

\* Where the one stitcher is decides what it offers.
Seen ==
  \A w \in StitchWorkers :
    /\ stitchPc[w] = "putManifest" => StitchStage = "describing" /\ StitchOffer = OfferMade(plan[w])
    /\ stitchPc[w] = "finish" => StitchStage = "finishing" /\ StitchOffer = OfferMade(plan[w])
    /\ stitchPc[w] \notin {"putManifest", "finish"} =>
         StitchStage = "joining" /\ StitchOffer = OneByOne!NoOffer

LEMMA SeenAlways == OneStitcher => Seen
  <1> SUFFICES ASSUME OneStitcher, NEW w \in StitchWorkers
      PROVE  /\ stitchPc[w] = "putManifest" => StitchStage = "describing" /\ StitchOffer = OfferMade(plan[w])
             /\ stitchPc[w] = "finish" => StitchStage = "finishing" /\ StitchOffer = OfferMade(plan[w])
             /\ stitchPc[w] \notin {"putManifest", "finish"} =>
                  StitchStage = "joining" /\ StitchOffer = OneByOne!NoOffer
    BY DEF Seen
  <1>1. \A v \in StitchWorkers : v = w
    BY DEF OneStitcher
  <1>2. (CHOOSE v \in StitchWorkers : TRUE) = w
    BY <1>1
  <1>3. /\ stitchPc[w] = "putManifest" => StitchStage = "describing"
        /\ stitchPc[w] = "finish" => StitchStage = "finishing"
        /\ stitchPc[w] \notin {"putManifest", "finish"} => StitchStage = "joining"
    BY <1>1 DEF StitchStage
  <1>4. OfferMade(NoPlan) = OneByOne!NoOffer
    BY DEF OfferMade, NoPlan, OneByOne!NoOffer
  <1>5. StitchOffer = IF StitchStage = "joining" THEN OneByOne!NoOffer ELSE OfferMade(plan[w])
    BY <1>2, <1>4 DEF StitchOffer, OfferMade
  <1> QED
    BY <1>3, <1>5

LEMMA SeenNext == ASSUME OneStitcher PROVE Seen /\ Seen'
  <1>1. Seen
    BY SeenAlways
  <1> QED
    BY <1>1, PTL

Told == [OneByOne!Next]_(OneByOne!vars)

\* Stitcher, plans and outputs that stay are not noticed.
LEMMA ToldNothing ==
  ASSUME Done' = Done, UNCHANGED <<StitchStage, StitchOffer, bookMp3, manifest>>
  PROVE  Told
  BY DEF Told, OneByOne!vars, Document

\* Leaving any place but the two that publish forgets nothing; leaving those
\* forgets what was offered.
LEMMA ToldOfLeaving ==
  ASSUME OneStitcher, NEW w \in StitchWorkers, Done' = Done, UNCHANGED <<bookMp3, manifest>>,
         stitchPc'[w] \notin {"putManifest", "finish"}
  PROVE  Told
  <1>1. OneByOne!Again
    BY SeenNext DEF Seen, OneByOne!Again, OneByOne!NoOffer
  <1>2. OneByOne!Leave
    BY <1>1 DEF OneByOne!Leave, Document
  <1> QED
    BY <1>2 DEF Told, OneByOne!Next

LEMMA ToldStitch ==
  ASSUME OneStitcher, SoundInv, Together, Exhaustive, StitchNext
  PROVE  Told
  <1> PICK w \in StitchWorkers : StitchHandler(w) \/ StitchEnvironment(w)
    BY DEF StitchNext
  <1>0. /\ plan[w] \in Plans /\ plan \in [StitchWorkers -> Plans]
        /\ stitchPc \in [StitchWorkers -> StitchPcs]
        /\ Sound(plan[w], stitchPc[w]) /\ Agreed(plan[w], stitchPc[w])
    BY DEF SoundInv, Shape, Published, Together
  <1>d. Done' = Done
    BY StitchSteps DEF SoundInv, StitchFrame, Done
  <1> USE DEF StitchAt, StitchGoto, storeVars, tableVars, outputVars
  <1>1. CASE \/ StitchReceive(w) \/ StitchGet(w) \/ StitchClaim(w) \/ StitchList(w) \/ StitchFinish(w)
             \/ StitchRelease(w) \/ StitchAck(w) \/ StitchCrash(w)
    <2>1. /\ UNCHANGED <<bookMp3, manifest>>
          /\ \E here \in {"get", "claim", "ack", "list", "concat", "idle"} :
               stitchPc' = [stitchPc EXCEPT ![w] = here]
      BY <1>1 DEF StitchReceive, StitchGet, StitchClaim, StitchList, StitchFinish, StitchRelease, StitchAck,
                  StitchCrash, StitchRaise, StitchStop
    <2>2. stitchPc'[w] \in {"get", "claim", "ack", "list", "concat", "idle"}
      BY <1>0, <2>1
    <2> QED
      BY <1>d, <2>1, <2>2, ToldOfLeaving
  <1>2. CASE StitchDuplicate(w)
    <2>1. UNCHANGED <<stitchPc, plan, bookMp3, manifest>>
      BY <1>2 DEF StitchDuplicate, stitchVars
    <2> QED
      BY <1>d, <2>1, ToldNothing DEF StitchStage, StitchOffer
  <1>3. CASE Concatenate(w)
    <2> DEFINE list  == plan[w].segments
               heard == list \ Silent
               lost  == plan[w].missing \cup (list \cap Silent)
    <2>1. /\ UNCHANGED manifest /\ stitchPc[w] = "concat" /\ stitchPc'[w] = "putManifest"
          /\ bookMp3' = IF list = {} THEN bookMp3 ELSE OneByOne!Joined(list)
      BY <1>0, <1>3 DEF Concatenate, JoinClips, OneByOne!Joined
    <2>2. /\ ~plan[w].degraded /\ list \in SUBSET Done
          /\ lost = Chunks \ heard
      BY <1>0, <2>1 DEF Agreed, Sound, Exhaustive, Plans
    <2>3. plan' = [plan EXCEPT ![w].segments = heard, ![w].missing = lost, ![w].audio = heard # {}]
      BY <1>0, <1>3 DEF Concatenate
    <2> HIDE DEF list, heard, lost
    <2>4. /\ plan'[w].segments = heard /\ plan'[w].missing = lost
          /\ plan'[w].audio = (heard # {}) /\ plan'[w].degraded = FALSE
      BY <1>0, <2>2, <2>3 DEF Plans
    <2>5. OfferMade(plan[w])' = OneByOne!Offered(heard, FALSE)
      BY <2>2, <2>4 DEF OfferMade, OneByOne!Offered
    <2>6. /\ StitchStage = "joining" /\ StitchStage' = "describing"
          /\ StitchOffer' = OneByOne!Offered(heard, FALSE)
      BY <2>1, <2>5, SeenNext DEF Seen
    <2>7. OneByOne!Join
      BY <1>d, <2>1, <2>2, <2>6 DEF OneByOne!Join, Document, heard
    <2> QED
      BY <2>7 DEF Told, OneByOne!Next
  <1>4. CASE ConcatenateFails(w)
    <2> DEFINE list == plan[w].segments
    <2>1. /\ UNCHANGED manifest /\ stitchPc[w] = "concat" /\ list # {}
          /\ bookMp3' \in {bookMp3, OneByOne!Joined(list)}
      BY <1>4 DEF ConcatenateFails, JoinClips, OneByOne!Joined
    <2>2. /\ ~plan[w].audio /\ list \in (SUBSET Done) \ {{}}
          /\ plan[w].missing = Chunks \ list
      BY <1>0, <2>1 DEF Agreed, Sound, Exhaustive
    <2>3. \/ stitchPc'[w] = "release"
          \/ stitchPc'[w] = "putManifest" /\ plan' = [plan EXCEPT ![w].degraded = TRUE]
      BY <1>0, <1>4 DEF ConcatenateFails
    <2> HIDE DEF list
    <2>4. \/ OneByOne!Again
          \/ StitchStage' = "describing" /\ StitchOffer' = OneByOne!Offered(list, TRUE)
      <3>1. CASE stitchPc'[w] = "release"
        BY <3>1, SeenNext DEF Seen, OneByOne!Again, OneByOne!NoOffer
      <3>2. CASE stitchPc'[w] = "putManifest" /\ plan' = [plan EXCEPT ![w].degraded = TRUE]
        <4>1. /\ plan'[w].segments = list /\ plan'[w].missing = plan[w].missing
              /\ plan'[w].audio = FALSE /\ plan'[w].degraded = TRUE
          BY <1>0, <2>2, <3>2 DEF Plans, list
        <4>2. OfferMade(plan[w])' = OneByOne!Offered(list, TRUE)
          BY <2>2, <4>1 DEF OfferMade, OneByOne!Offered
        <4> QED
          BY <3>2, <4>2, SeenNext DEF Seen
      <3> QED
        BY <2>3, <3>1, <3>2
    <2>5. StitchStage = "joining"
      BY <2>1, SeenNext DEF Seen
    <2>6. OneByOne!JoinFails
      BY <1>d, <2>1, <2>2, <2>4, <2>5 DEF OneByOne!JoinFails, Document
    <2> QED
      BY <2>6 DEF Told, OneByOne!Next
  <1>5. CASE PutManifest(w)
    <2>1. /\ UNCHANGED bookMp3 /\ stitchPc[w] = "putManifest" /\ stitchPc'[w] = "finish"
          /\ manifest' = ManifestOf(w) /\ plan' = [plan EXCEPT ![w].manifestKey = TRUE]
      BY <1>0, <1>5 DEF PutManifest
    <2>2. OfferMade(plan[w])' = OfferMade(plan[w])
      BY <1>0, <2>1 DEF OfferMade, Plans
    <2>3. /\ StitchStage = "describing" /\ StitchStage' = "finishing"
          /\ StitchOffer = OfferMade(plan[w]) /\ StitchOffer' = StitchOffer
      BY <2>1, <2>2, SeenNext DEF Seen
    <2>4. Document' = OneByOne!Described(StitchOffer)
      BY <2>1, <2>3 DEF Document, ManifestOf, OfferMade, OneByOne!Described
    <2>5. OneByOne!Describe
      BY <1>d, <2>1, <2>3, <2>4 DEF OneByOne!Describe
    <2> QED
      BY <2>5 DEF Told, OneByOne!Next
  <1>6. CASE PutManifestFails(w)
    <2>1. /\ UNCHANGED bookMp3 /\ stitchPc[w] = "putManifest"
          /\ manifest' \in {manifest, ManifestOf(w)}
          /\ \/ plan[w].degraded /\ stitchPc'[w] = "finish" /\ UNCHANGED plan
             \/ stitchPc'[w] = "idle"
      BY <1>0, <1>6 DEF PutManifestFails, StitchRaise, StitchStop
    <2>2. StitchStage = "describing" /\ StitchOffer = OfferMade(plan[w])
      BY <2>1, SeenNext DEF Seen
    <2>3. Document' \in {Document, OneByOne!Described(StitchOffer)}
      BY <2>1, <2>2 DEF Document, ManifestOf, OfferMade, OneByOne!Described
    <2>4. \/ OneByOne!Again
          \/ StitchOffer.degraded /\ StitchStage' = "finishing" /\ UNCHANGED StitchOffer
      <3>1. CASE plan[w].degraded /\ stitchPc'[w] = "finish" /\ UNCHANGED plan
        BY <2>2, <3>1, SeenNext DEF Seen, OfferMade
      <3>2. CASE stitchPc'[w] = "idle"
        BY <3>2, SeenNext DEF Seen, OneByOne!Again, OneByOne!NoOffer
      <3> QED
        BY <2>1, <3>1, <3>2
    <2>5. OneByOne!DescribeFails
      BY <1>d, <2>1, <2>2, <2>3, <2>4 DEF OneByOne!DescribeFails
    <2> QED
      BY <2>5 DEF Told, OneByOne!Next
  <1> QED
    BY <1>1, <1>2, <1>3, <1>4, <1>5, <1>6 DEF StitchHandler, StitchEnvironment

LEMMA ToldStep == ASSUME OneStitcher, SoundInv, Together, Exhaustive, [Next]_vars PROVE Told
  <1>1. CASE StitchNext
    BY <1>1, ToldStitch
  <1>2. CASE \/ SynthNext /\ UNCHANGED <<stitcherVars, sweepVars, retryVars>>
             \/ SweepNext /\ UNCHANGED <<synthVars, stitcherVars, retryVars>>
             \/ RetryNext /\ UNCHANGED <<synthVars, stitcherVars, sweepVars>>
             \/ UNCHANGED vars
    <2>1. UNCHANGED <<stitchPc, plan, bookMp3, manifest>>
      BY <1>2 DEF vars, stitcherVars, stitchVars, outputVars
    <2>2. UNCHANGED <<StitchStage, StitchOffer, bookMp3, Document>>
      BY <2>1 DEF StitchStage, StitchOffer, Document
    <2>3. Done \subseteq Done' /\ Done' \subseteq Chunks
      BY <1>2, SynthSteps, SweepSteps, RetrySteps
         DEF SynthFrame, TableFrame, SoundInv, Done, vars, storeVars, tableVars
    <2>4. OneByOne!Tell
      BY <2>2, <2>3 DEF OneByOne!Tell
    <2> QED
      BY <2>4 DEF Told, OneByOne!Next
  <1> QED
    BY <1>1, <1>2 DEF Next

\* With one stitcher at a time the pipeline implements Stitched: whatever the
\* other handlers do, book.mp3 and the manifest are made of one list of DONE
\* chunks, the manifest last, or no audio is offered (stitching.py:168-353).
THEOREM OneStitcherKeepsPromise == ASSUME OneStitcher PROVE Spec => StitchesAsPromised
  <1>1. Init => Exhaustive
    BY DEF Init, StitchInit, Exhaustive
  <1>2. SoundInv /\ Exhaustive /\ [Next]_vars => Exhaustive'
    BY ExhaustiveStep
  <1>3. Init => OneByOne!Init
    <2> SUFFICES ASSUME Init PROVE OneByOne!Init
      OBVIOUS
    <2>1. Done \subseteq Chunks /\ Silent \subseteq Chunks
      BY SilentAssumption DEF Done
    <2>2. \A w \in StitchWorkers : stitchPc[w] = "idle"
      BY DEF Init, StitchInit
    <2>3. StitchStage = "joining"
      BY <2>2 DEF StitchStage
    <2>4. StitchOffer = OneByOne!NoOffer
      BY <2>3 DEF StitchOffer, NoPlan, OneByOne!NoOffer
    <2>5. bookMp3 = OneByOne!NoMp3 /\ Document = OneByOne!NoDocument
      BY DEF Init, StitchInit, NoMp3, NoManifest, Document, OneByOne!NoMp3, OneByOne!NoDocument
    <2> QED
      BY <2>1, <2>3, <2>4, <2>5 DEF OneByOne!Init
  <1>4. SoundInv /\ Together /\ Exhaustive /\ [Next]_vars => [OneByOne!Next]_(OneByOne!vars)
    BY ToldStep DEF Told
  <1> QED
    BY <1>1, <1>2, <1>3, <1>4, SoundAlways, TogetherAlways, PTL DEF Spec, StitchesAsPromised, OneByOne!Spec
=============================================================================
