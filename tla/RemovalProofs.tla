---------------------------- MODULE RemovalProofs ----------------------------
(***************************************************************************)
(* Proofs about Removal, for any book, any number of workers, readers and  *)
(* faults: a deleted book stays deleted whatever the workers still do, a   *)
(* reader misses an object whose key was advertised to it only when the    *)
(* book is gone, and a deletion that went through leaves nothing behind    *)
(* that was there when it began, that a row told of and a query showed.     *)
(***************************************************************************)
EXTENDS Removal, TLAPS

Gone == book.status = Absent

-----------------------------------------------------------------------------
(* Gone is final *)

LEMMA GoneExtract == ASSUME Gone, ExtractNext PROVE Gone'
  <1> PICK w \in ExtractWorkers : ExtractHandler(w) \/ ExtractCrash(w)
    BY DEF ExtractNext
  <1> USE DEF Gone, storeVars, tableVars
  <1>1. CASE ExtractReceive(w) \/ ExtractGet(w) \/ ExtractRead(w) \/ ExtractList(w) \/ ExtractWipeRow(w)
    BY <1>1 DEF ExtractReceive, ExtractGet, ExtractRead, ExtractList, ExtractWipeRow
  <1>2. CASE ExtractWiped(w) \/ ExtractSaveRow(w) \/ ExtractTransient(w) \/ ExtractAck(w) \/ ExtractCrash(w)
    BY <1>2 DEF ExtractWiped, ExtractSaveRow, ExtractTransient, ExtractAck, ExtractCrash
  <1>3. CASE ExtractEnqueue(w) \/ ExtractEnqueueFails(w)
    BY <1>3 DEF ExtractEnqueue, ExtractEnqueueFails
  <1>4. CASE ExtractClaim(w)
    BY <1>4 DEF ExtractClaim, ClaimableStatuses, Absent
  <1>5. CASE ExtractFlip(w) \/ ExtractFail(w) \/ ExtractRelease(w)
    BY <1>5 DEF ExtractFlip, ExtractFail, ExtractRelease
  <1> QED
    BY <1>1, <1>2, <1>3, <1>4, <1>5 DEF ExtractHandler

LEMMA GoneSynth == ASSUME Gone, SynthNext PROVE Gone'
  <1> PICK w \in SynthWorkers : SynthHandler(w) \/ SynthEnvironment(w)
    BY DEF SynthNext
  <1> USE DEF Gone, storeVars, tableVars
  <1>1. CASE SynthCountDone(w) \/ SynthCountFailed(w)
    BY <1>1 DEF SynthCountDone, SynthCountFailed, SynthCount
  <1>2. CASE SynthReceive(w) \/ SynthGet(w) \/ SynthRecheck(w) \/ SynthClaim(w) \/ SynthEngine(w)
    BY <1>2 DEF SynthReceive, SynthGet, SynthRecheck, SynthClaim, SynthEngine
  <1>3. CASE SynthPutAudio(w) \/ SynthPutMarks(w) \/ SynthRelease(w) \/ SynthFinishDone(w) \/ SynthFinishFailed(w)
    BY <1>3 DEF SynthPutAudio, SynthPutMarks, SynthRelease, SynthFinishDone, SynthFinishFailed, SynthFinish
  <1>4. CASE SynthPublish(w) \/ SynthPublishFails(w) \/ SynthAck(w) \/ SynthCrash(w) \/ SynthDuplicate(w)
    BY <1>4 DEF SynthPublish, SynthPublishFails, SynthAck, SynthCrash, SynthDuplicate
  <1> QED
    BY <1>1, <1>2, <1>3, <1>4 DEF SynthHandler, SynthEnvironment

LEMMA GoneStitch == ASSUME Gone, StitchNext PROVE Gone'
  <1> PICK w \in StitchWorkers : StitchHandler(w) \/ StitchEnvironment(w)
    BY DEF StitchNext
  <1> USE DEF Gone, storeVars, tableVars
  <1>1. CASE StitchClaim(w) \/ StitchRelease(w) \/ StitchFinish(w)
    BY <1>1 DEF StitchClaim, StitchRelease, StitchFinish, StitchableBookStatuses, Absent
  <1>2. CASE StitchReceive(w) \/ StitchGet(w) \/ StitchList(w) \/ Concatenate(w) \/ ConcatenateFails(w)
    BY <1>2 DEF StitchReceive, StitchGet, StitchList, Concatenate, ConcatenateFails
  <1>3. CASE PutManifest(w) \/ PutManifestFails(w) \/ StitchAck(w) \/ StitchCrash(w) \/ StitchDuplicate(w)
    BY <1>3 DEF PutManifest, PutManifestFails, StitchAck, StitchCrash, StitchDuplicate
  <1> QED
    BY <1>1, <1>2, <1>3 DEF StitchHandler, StitchEnvironment

LEMMA GoneRemove == ASSUME Gone, RemoveNext PROVE Gone'
  <1> USE DEF Gone, storeVars, tableVars
  <1>1. CASE RemoveRow
    BY <1>1 DEF RemoveRow, NewBook
  <1>2. CASE RemoveStart \/ RemoveList \/ RemovePdf \/ RemoveMp3 \/ RemoveClips \/ RemoveManifest
    BY <1>2 DEF RemoveStart, RemoveList, RemovePdf, RemoveMp3, RemoveClips, RemoveManifest
  <1>3. CASE RemoveMarks \/ RemoveQuery \/ (\E c \in Chunks : RemoveChunkRow(c)) \/ RemoveEnds \/ RemoveCrash
    BY <1>3 DEF RemoveMarks, RemoveQuery, RemoveChunkRow, RemoveEnds, RemoveCrash
  <1> QED
    BY <1>1, <1>2, <1>3 DEF RemoveNext

LEMMA GoneStays == ASSUME Gone, [Next]_vars PROVE Gone'
  <1> USE DEF Gone, storeVars, tableVars
  <1>1. CASE UploadNext
    BY <1>1 DEF UploadNext, ReissueBookUpload, FormExpires, UploadPdf, RepeatEvent
  <1>2. CASE ReadNext /\ UNCHANGED storeVars
    BY <1>2
  <1>3. CASE UNCHANGED vars
    BY <1>3 DEF vars
  <1> QED
    BY <1>1, <1>2, <1>3, GoneExtract, GoneSynth, GoneStitch, GoneRemove DEF Next, Step

\* No update of a worker, however late, brings the row of a deleted book back.
THEOREM DeletedForGood == Spec => BookStaysDeleted
  <1>1. [Next]_vars => [book.status = Absent => book'.status = Absent]_book
    BY GoneStays DEF Gone
  <1> QED
    BY <1>1, PTL DEF Spec, BookStaysDeleted

-----------------------------------------------------------------------------
(* The shape of what the proof looks at *)

LooseRows == [status : BookStatus \cup {Absent}, total : Int, done : Int, failed : Int,
              audioKey : BOOLEAN, manifestKey : BOOLEAN, reason : FailureReasons]

Shape ==
  /\ book \in LooseRows
  /\ chunk \in [Chunks -> ChunkStatus \cup {Absent}]
  /\ pdf \in Int
  /\ extractSize \in [ExtractWorkers -> Int]
  /\ synthPc \in [SynthWorkers -> SynthPcs]
  /\ synthMsg \in [SynthWorkers -> SynthMsgs \cup {NoSynthMsg}]
  /\ plan \in [StitchWorkers -> Plans]
  /\ readPc \in [Readers -> {"idle", "chunk", "fetch"}]
  /\ wanted \in [Readers -> BookWishes \cup ChunkWishes \cup {NoWish}]

LEMMA NewRow == NewBook \in LooseRows /\ \A n \in Int : ExtractedBook(n) \in LooseRows
  <1>1. NewBook \in LooseRows
    BY DEF NewBook, LooseRows, BookStatus, FailureReasons
  <1>2. ASSUME NEW n \in Int PROVE ExtractedBook(n) \in LooseRows
    BY <1>1 DEF ExtractedBook, LooseRows, BookStatus
  <1> QED
    BY <1>1, <1>2

LEMMA ShapeInit == Init => Shape
  <1> SUFFICES ASSUME Init PROVE Shape
    OBVIOUS
  <1>1. book \in LooseRows
    BY NewRow DEF Init
  <1>2. chunk \in [Chunks -> ChunkStatus \cup {Absent}] /\ pdf \in Int /\ extractSize \in [ExtractWorkers -> Int]
    BY DEF Init, UploadInit, NoPdf, ExtractInit
  <1>3. synthPc \in [SynthWorkers -> SynthPcs] /\ synthMsg \in [SynthWorkers -> SynthMsgs \cup {NoSynthMsg}]
    BY DEF Init, SynthInit, SynthPcs
  <1>4. plan \in [StitchWorkers -> Plans]
    BY DEF Init, StitchInit, Plans, NoPlan
  <1>5. /\ readPc \in [Readers -> {"idle", "chunk", "fetch"}]
        /\ wanted \in [Readers -> BookWishes \cup ChunkWishes \cup {NoWish}]
    BY DEF Init, ReadInit
  <1> QED
    BY <1>1, <1>2, <1>3, <1>4, <1>5 DEF Shape

LEMMA ShapeUpload ==
  ASSUME Shape, UploadNext, UNCHANGED <<workerVars, outputVars, removeVars>>
  PROVE  Shape' /\ UNCHANGED <<storeVars, workerVars, outputVars, removeVars>>
  <1>1. UNCHANGED storeVars /\ pdf' \in Int
    BY StoreAssumption DEF UploadNext, ReissueBookUpload, FormExpires, UploadPdf, RepeatEvent, Pdfs, Shape
  <1> QED
    BY <1>1 DEF Shape, workerVars, storeVars, tableVars, extractVars, heldVars, synthVars, stitchVars, readVars

\* An extractor never gives the book an output key, nor a chunk its audio.
ExtractFrame ==
  /\ book'.audioKey => book.audioKey
  /\ book'.manifestKey => book.manifestKey
  /\ \A c \in Chunks : chunk'[c] = "DONE" => chunk[c] = "DONE"
  /\ UNCHANGED objectVars

LEMMA ShapeExtract ==
  ASSUME Shape, ExtractNext, UNCHANGED <<synthVars, stitcherVars, readVars, removeVars>>
  PROVE  Shape' /\ ExtractFrame
  <1> PICK w \in ExtractWorkers : ExtractHandler(w) \/ ExtractCrash(w)
    BY DEF ExtractNext
  <1> SUFFICES /\ book' \in LooseRows
               /\ chunk' \in [Chunks -> ChunkStatus \cup {Absent}]
               /\ pdf' \in Int
               /\ extractSize' \in [ExtractWorkers -> Int]
               /\ ExtractFrame
    BY DEF Shape, synthVars, stitcherVars, stitchVars, readVars
  <1> USE DEF Shape, ExtractFrame, storeVars, tableVars, heldVars, uploadVars, ExtractStop, ExtractRaise
  <1>1. CASE ExtractReceive(w) \/ ExtractTransient(w)
    BY <1>1 DEF ExtractReceive, ExtractTransient
  <1>2. CASE ExtractGet(w) \/ ExtractRead(w) \/ ExtractList(w) \/ ExtractWiped(w)
    <2>1. book.total \in Int
      BY DEF LooseRows
    <2> QED
      BY <1>2, <2>1 DEF ExtractGet, ExtractRead, ExtractList, ExtractWiped
  <1>3. CASE ExtractWipeRow(w) \/ ExtractSaveRow(w)
    BY <1>3 DEF ExtractWipeRow, ExtractSaveRow, ChunkStatus, Absent
  <1>4. CASE ExtractEnqueue(w) \/ ExtractEnqueueFails(w)
    BY <1>4 DEF ExtractEnqueue, ExtractEnqueueFails
  <1>5. CASE ExtractClaim(w)
    BY <1>5 DEF ExtractClaim, LooseRows, BookStatus
  <1>6. CASE ExtractFlip(w)
    <2>1. /\ book' = book \/ book' = ExtractedBook(extractSize[w])
          /\ UNCHANGED <<chunk, pdf, objectVars>>
          /\ extractSize' \in [ExtractWorkers -> Int]
      BY <1>6 DEF ExtractFlip
    <2>2. ~ExtractedBook(extractSize[w]).audioKey /\ ~ExtractedBook(extractSize[w]).manifestKey
      BY DEF ExtractedBook, NewBook
    <2> QED
      BY <2>1, <2>2, NewRow
  <1>7. CASE ExtractFail(w) \/ ExtractRelease(w)
    <2>1. /\ UNCHANGED <<chunk, objectVars, pdf>>
          /\ extractSize' \in [ExtractWorkers -> Int]
      BY <1>7 DEF ExtractFail, ExtractRelease
    <2>2. \/ book' = book
          \/ book' = [book EXCEPT !.status = "FAILED", !.reason = "EXTRACTION"]
          \/ book' = [book EXCEPT !.status = "UPLOADED"]
      BY <1>7 DEF ExtractFail, ExtractRelease
    <2>3. book' \in LooseRows /\ book'.audioKey = book.audioKey /\ book'.manifestKey = book.manifestKey
      BY <2>2 DEF LooseRows, BookStatus, FailureReasons
    <2> QED
      BY <2>1, <2>3
  <1>8. CASE ExtractAck(w) \/ ExtractCrash(w)
    <2>1. UNCHANGED <<book, chunk, objectVars, pdf>>
      BY <1>8 DEF ExtractAck, ExtractCrash
    <2>2. extractSize' = [extractSize EXCEPT ![w] = 0]
      BY <1>8 DEF ExtractAck, ExtractCrash
    <2> QED
      BY <2>1, <2>2
  <1> QED
    BY <1>1, <1>2, <1>3, <1>4, <1>5, <1>6, <1>7, <1>8 DEF ExtractHandler

\* A synthesizer changes no output key, takes no object away, and makes a
\* chunk DONE only from the step before.
SynthFrame ==
  /\ book'.audioKey = book.audioKey /\ book'.manifestKey = book.manifestKey
  /\ clips \subseteq clips' /\ markDocs \subseteq markDocs'
  /\ \A c \in Chunks : chunk'[c] = "DONE" =>
       chunk[c] = "DONE" \/ \E w \in SynthWorkers : synthPc[w] = "finishDone" /\ ChunkOf(w) = c
  /\ \A w \in SynthWorkers :
       /\ synthPc'[w] = "putMarks" =>
            ChunkOf(w)' = ChunkOf(w) /\ (synthPc[w] = "putMarks" \/ ChunkOf(w) \in clips')
       /\ synthPc'[w] = "finishDone" =>
            /\ ChunkOf(w)' = ChunkOf(w)
            /\ synthPc[w] = "finishDone" \/ (synthPc[w] = "putMarks" /\ ChunkOf(w) \in markDocs')

LEMMA ShapeSynth ==
  ASSUME Shape, SynthNext, UNCHANGED <<uploadVars, extractVars, stitcherVars, readVars, removeVars>>
  PROVE  Shape' /\ SynthFrame
  <1> PICK w \in SynthWorkers : SynthHandler(w) \/ SynthEnvironment(w)
    BY DEF SynthNext
  <1>0. /\ synthPc \in [SynthWorkers -> SynthPcs]
        /\ synthMsg \in [SynthWorkers -> SynthMsgs \cup {NoSynthMsg}]
        /\ chunk \in [Chunks -> ChunkStatus \cup {Absent}]
        /\ book \in LooseRows
        /\ ChunkOf(w) \in Chunks
    <2>1. NoSynthMsg.chunk \in Chunks
      BY StoreAssumption DEF NoSynthMsg, Chunks
    <2> QED
      BY <2>1 DEF Shape, ChunkOf, SynthMsgs
  <1> SUFFICES /\ book' \in LooseRows
               /\ chunk' \in [Chunks -> ChunkStatus \cup {Absent}]
               /\ synthPc' \in [SynthWorkers -> SynthPcs]
               /\ synthMsg' \in [SynthWorkers -> SynthMsgs \cup {NoSynthMsg}]
               /\ SynthFrame
    BY DEF Shape, uploadVars, extractVars, heldVars, stitcherVars, stitchVars, readVars
  <1> USE DEF SynthFrame, ChunkOf, SynthAt, SynthGoto, storeVars, tableVars, objectVars
  <1>1. CASE SynthReceive(w)
    <2>1. \A b \in SynthBodies : Delivered(b) \in SynthMsgs
      BY StoreAssumption DEF SynthBodies, Delivered, SynthMsgs
    <2>2. UNCHANGED <<book, chunk, clips, markDocs>> /\ synthPc' = [synthPc EXCEPT ![w] = "get"]
      BY <1>1 DEF SynthReceive
    <2>3. \E b \in SynthBodies : synthMsg' = [synthMsg EXCEPT ![w] = Delivered(b)]
      BY <1>1 DEF SynthReceive
    <2> QED
      BY <1>0, <2>1, <2>2, <2>3 DEF SynthPcs
  <1>2. CASE SynthGet(w) \/ SynthRecheck(w) \/ SynthEngine(w)
    <2>1. UNCHANGED <<book, chunk, clips, markDocs, synthMsg>>
      BY <1>2 DEF SynthGet, SynthRecheck, SynthEngine
    <2>2. \E next \in SynthPcs \ {"putMarks", "finishDone"} : synthPc' = [synthPc EXCEPT ![w] = next]
      BY <1>2 DEF SynthGet, SynthRecheck, SynthEngine, AfterTransient, SynthPcs
    <2> QED
      BY <1>0, <2>1, <2>2
  <1>3. CASE SynthPutAudio(w)
    BY <1>0, <1>3 DEF SynthPutAudio, AfterTransient, SynthPcs
  <1>4. CASE SynthPutMarks(w)
    BY <1>0, <1>4 DEF SynthPutMarks, AfterTransient, SynthPcs
  <1>5. CASE SynthClaim(w) \/ SynthFinishFailed(w)
    <2>1. UNCHANGED <<book, clips, markDocs, synthMsg>>
      BY <1>5 DEF SynthClaim, SynthFinishFailed, SynthFinish
    <2>2. \E next \in SynthPcs \ {"putMarks", "finishDone"} : synthPc' = [synthPc EXCEPT ![w] = next]
      BY <1>5 DEF SynthClaim, SynthFinishFailed, SynthFinish, SynthPcs
    <2>3. chunk' \in {chunk, [chunk EXCEPT ![ChunkOf(w)] = "SYNTHESIZING"], [chunk EXCEPT ![ChunkOf(w)] = "FAILED"]}
      BY <1>5 DEF SynthClaim, SynthFinishFailed, SynthFinish
    <2> QED
      BY <1>0, <2>1, <2>2, <2>3 DEF ChunkStatus
  <1>6. CASE SynthFinishDone(w)
    <2>1. UNCHANGED <<book, clips, markDocs, synthMsg>> /\ synthPc[w] = "finishDone"
      BY <1>6 DEF SynthFinishDone, SynthFinish
    <2>2. \E next \in SynthPcs \ {"putMarks", "finishDone"} : synthPc' = [synthPc EXCEPT ![w] = next]
      BY <1>6 DEF SynthFinishDone, SynthFinish, SynthPcs
    <2>3. chunk' \in {chunk, [chunk EXCEPT ![ChunkOf(w)] = "DONE"]}
      BY <1>6 DEF SynthFinishDone, SynthFinish
    <2> QED
      BY <1>0, <2>1, <2>2, <2>3 DEF ChunkStatus
  <1>7. CASE SynthRelease(w)
    <2>1. UNCHANGED <<book, clips, markDocs>>
      BY <1>7 DEF SynthRelease
    <2>2. /\ chunk' \in {chunk, [chunk EXCEPT ![ChunkOf(w)] = "PENDING"]}
          /\ synthPc' \in {[synthPc EXCEPT ![w] = "idle"], [synthPc EXCEPT ![w] = "ack"]}
          /\ synthMsg' \in {synthMsg, [synthMsg EXCEPT ![w] = NoSynthMsg]}
      BY <1>7 DEF SynthRelease, SynthRaise, SynthStop
    <2> QED
      BY <1>0, <2>1, <2>2 DEF ChunkStatus, SynthPcs
  <1>8. CASE SynthCountDone(w) \/ SynthCountFailed(w)
    <2>1. UNCHANGED <<chunk, clips, markDocs, synthMsg>>
      BY <1>8 DEF SynthCountDone, SynthCountFailed, SynthCount
    <2>2. \E next \in SynthPcs \ {"putMarks", "finishDone"} : synthPc' = [synthPc EXCEPT ![w] = next]
      BY <1>8 DEF SynthCountDone, SynthCountFailed, SynthCount, SynthPcs
    <2>3. \/ book' = book
          \/ book' = [book EXCEPT !.done = @ + 1, !.failed = @ + 0]
          \/ book' = [book EXCEPT !.done = @ + 1, !.failed = @ + 1]
      BY <1>8 DEF SynthCountDone, SynthCountFailed, SynthCount
    <2>4. book.done \in Int /\ book.failed \in Int
      BY <1>0 DEF LooseRows
    <2>5. ASSUME NEW m \in Int, NEW n \in Int, book' = [book EXCEPT !.done = m, !.failed = n]
          PROVE  book' \in LooseRows /\ book'.audioKey = book.audioKey /\ book'.manifestKey = book.manifestKey
      BY <1>0, <2>5 DEF LooseRows
    <2>6. book' \in LooseRows /\ book'.audioKey = book.audioKey /\ book'.manifestKey = book.manifestKey
      <3>1. CASE book' = book
        BY <1>0, <3>1
      <3>2. CASE book' = [book EXCEPT !.done = @ + 1, !.failed = @ + 0]
        <4>1. book.done + 1 \in Int /\ book.failed + 0 \in Int
          BY <2>4
        <4> QED
          BY <3>2, <4>1, <2>5
      <3>3. CASE book' = [book EXCEPT !.done = @ + 1, !.failed = @ + 1]
        <4>1. book.done + 1 \in Int /\ book.failed + 1 \in Int
          BY <2>4
        <4> QED
          BY <3>3, <4>1, <2>5
      <3> QED
        BY <2>3, <3>1, <3>2, <3>3
    <2> QED
      BY <1>0, <2>1, <2>2, <2>6
  <1>9. CASE SynthPublish(w) \/ SynthPublishFails(w) \/ SynthAck(w) \/ SynthCrash(w) \/ SynthDuplicate(w)
    <2>1. UNCHANGED <<book, chunk, clips, markDocs>>
      BY <1>9 DEF SynthPublish, SynthPublishFails, SynthAck, SynthCrash, SynthDuplicate
    <2>2. \/ UNCHANGED synthVars
          \/ synthPc' = [synthPc EXCEPT ![w] = "ack"] /\ UNCHANGED synthMsg
          \/ synthPc' = [synthPc EXCEPT ![w] = "idle"] /\ synthMsg' = [synthMsg EXCEPT ![w] = NoSynthMsg]
      BY <1>9 DEF SynthPublish, SynthPublishFails, SynthAck, SynthCrash, SynthDuplicate, SynthRaise, SynthStop
    <2> QED
      BY <1>0, <2>1, <2>2 DEF synthVars, SynthPcs
  <1> QED
    BY <1>1, <1>2, <1>3, <1>4, <1>5, <1>6, <1>7, <1>8, <1>9 DEF SynthHandler, SynthEnvironment

\* A stitcher takes no object away, and promises only what it has written.
StitchFrame ==
  /\ bookMp3.exists => bookMp3'.exists
  /\ manifest.exists => manifest'.exists
  /\ book'.audioKey => book.audioKey \/ \E w \in StitchWorkers : plan[w].audio
  /\ book'.manifestKey => book.manifestKey \/ \E w \in StitchWorkers : plan[w].manifestKey
  /\ \A w \in StitchWorkers :
       /\ plan'[w].audio => plan[w].audio \/ bookMp3'.exists
       /\ plan'[w].manifestKey => plan[w].manifestKey \/ manifest'.exists
  /\ UNCHANGED <<chunk, objectVars>>

LEMMA ShapeStitch ==
  ASSUME Shape, StitchNext, UNCHANGED <<uploadVars, extractVars, synthVars, readVars, removeVars>>
  PROVE  Shape' /\ StitchFrame
  <1> PICK w \in StitchWorkers : StitchHandler(w) \/ StitchEnvironment(w)
    BY DEF StitchNext
  <1>0. book \in LooseRows /\ plan \in [StitchWorkers -> Plans] /\ plan[w] \in Plans
    BY DEF Shape
  <1> SUFFICES book' \in LooseRows /\ plan' \in [StitchWorkers -> Plans] /\ StitchFrame
    BY DEF Shape, StitchFrame, uploadVars, extractVars, heldVars, synthVars, readVars
  <1> USE DEF StitchFrame, storeVars, tableVars, outputVars, StitchRaise, StitchStop
  <1>1. CASE StitchReceive(w) \/ StitchGet(w)
    BY <1>0, <1>1 DEF StitchReceive, StitchGet
  <1>2. CASE StitchClaim(w)
    BY <1>0, <1>2 DEF StitchClaim, LooseRows, BookStatus
  <1>3. CASE StitchList(w)
    <2>1. \A unseen \in SUBSET Lagging :
            /\ Listed(FALSE, unseen) \in Plans
            /\ ~Listed(FALSE, unseen).audio /\ ~Listed(FALSE, unseen).manifestKey
      BY DEF Listed, NoPlan, Plans, Rows
    <2>2. UNCHANGED <<book, chunk, objectVars, outputVars>>
          /\ \E unseen \in SUBSET Lagging : plan' = [plan EXCEPT ![w] = Listed(FALSE, unseen)]
      BY <1>3 DEF StitchList
    <2> QED
      BY <1>0, <2>1, <2>2
  <1>4. CASE Concatenate(w)
    <2> PICK heard, lost : /\ heard = plan[w].segments \ Silent
                           /\ lost = plan[w].missing \cup (plan[w].segments \cap Silent)
      OBVIOUS
    <2>1. /\ UNCHANGED <<book, chunk, objectVars, manifest>>
          /\ plan' = [plan EXCEPT ![w].segments = heard, ![w].missing = lost, ![w].audio = (heard # {})]
          /\ bookMp3' = IF plan[w].segments = {} THEN bookMp3 ELSE [exists |-> TRUE, parts |-> heard]
      BY <1>0, <1>4 DEF Concatenate, JoinClips
    <2>2. heard \subseteq Chunks /\ lost \subseteq Chunks /\ heard \subseteq plan[w].segments
      BY <1>0 DEF Plans
    <2>3. plan' \in [StitchWorkers -> Plans] /\ plan'[w].audio = (heard # {})
          /\ plan'[w].manifestKey = plan[w].manifestKey
          /\ \A v \in StitchWorkers : v # w => plan'[v] = plan[v]
      BY <1>0, <2>1, <2>2 DEF Plans
    <2>4. (bookMp3.exists => bookMp3'.exists) /\ (heard # {} => bookMp3'.exists)
      BY <2>1, <2>2
    <2> QED
      BY <1>0, <2>1, <2>3, <2>4
  <1>5. CASE ConcatenateFails(w)
    <2>1. /\ UNCHANGED <<book, chunk, objectVars, manifest>>
          /\ UNCHANGED plan \/ plan' = [plan EXCEPT ![w].degraded = TRUE]
      BY <1>5 DEF ConcatenateFails
    <2>2. UNCHANGED bookMp3 \/ bookMp3'.exists
      <3>1. UNCHANGED bookMp3 \/ bookMp3' = [exists |-> TRUE, parts |-> plan[w].segments \ Silent]
        BY <1>5 DEF ConcatenateFails, JoinClips
      <3> QED
        BY <3>1
    <2>3. /\ plan' \in [StitchWorkers -> Plans]
          /\ \A v \in StitchWorkers : /\ plan'[v].audio = plan[v].audio
                                     /\ plan'[v].manifestKey = plan[v].manifestKey
      BY <1>0, <2>1 DEF Plans
    <2> QED
      BY <1>0, <2>1, <2>2, <2>3
  <1>6. CASE StitchRelease(w) \/ StitchCrash(w) \/ StitchAck(w)
    <2>1. UNCHANGED <<chunk, objectVars, outputVars>> /\ plan' = [plan EXCEPT ![w] = NoPlan]
      BY <1>6 DEF StitchRelease, StitchCrash, StitchAck
    <2>2. book' = book \/ book' = [book EXCEPT !.status = "EXTRACTED"]
      BY <1>6 DEF StitchRelease, StitchCrash, StitchAck
    <2>3. NoPlan \in Plans /\ ~NoPlan.audio /\ ~NoPlan.manifestKey
      BY DEF NoPlan, Plans
    <2>4. book' \in LooseRows /\ book'.audioKey = book.audioKey /\ book'.manifestKey = book.manifestKey
      BY <1>0, <2>2 DEF LooseRows, BookStatus
    <2> QED
      BY <1>0, <2>1, <2>3, <2>4
  <1>7. CASE PutManifest(w)
    <2>1. /\ UNCHANGED <<book, chunk, objectVars, bookMp3>> /\ manifest'.exists
          /\ plan' = [plan EXCEPT ![w].manifestKey = TRUE]
      BY <1>7 DEF PutManifest, ManifestOf
    <2> QED
      BY <1>0, <2>1 DEF Plans
  <1>8. CASE PutManifestFails(w)
    <2>1. /\ UNCHANGED <<book, chunk, objectVars, bookMp3>>
          /\ UNCHANGED plan \/ plan' = [plan EXCEPT ![w] = NoPlan]
          /\ manifest.exists => manifest'.exists
      BY <1>8 DEF PutManifestFails, ManifestOf
    <2>2. NoPlan \in Plans /\ ~NoPlan.audio /\ ~NoPlan.manifestKey
      BY DEF NoPlan, Plans
    <2> QED
      BY <1>0, <2>1, <2>2
  <1>9. CASE StitchFinish(w)
    <2>1. /\ UNCHANGED <<chunk, objectVars, outputVars, plan>>
          /\ \/ book' = book
             \/ book' = [book EXCEPT !.status = FinalStatus(w), !.audioKey = @ \/ plan[w].audio,
                                     !.manifestKey = @ \/ plan[w].manifestKey, !.reason = FinalReason(w)]
      BY <1>9 DEF StitchFinish
    <2>2. FinalStatus(w) \in BookStatus /\ FinalReason(w) \in FailureReasons
      BY DEF FinalStatus, FinalReason, BookStatus, FailureReasons
    <2>3. /\ (book.audioKey \/ plan[w].audio) \in BOOLEAN
          /\ (book.manifestKey \/ plan[w].manifestKey) \in BOOLEAN
      BY <1>0 DEF LooseRows, Plans
    <2>4. /\ book' \in LooseRows
          /\ book'.audioKey => book.audioKey \/ plan[w].audio
          /\ book'.manifestKey => book.manifestKey \/ plan[w].manifestKey
      BY <1>0, <2>1, <2>2, <2>3 DEF LooseRows
    <2> QED
      BY <1>0, <2>1, <2>4
  <1>10. CASE StitchDuplicate(w)
    BY <1>0, <1>10 DEF StitchDuplicate, stitchVars
  <1> QED
    BY <1>1, <1>2, <1>3, <1>4, <1>5, <1>6, <1>7, <1>8, <1>9, <1>10 DEF StitchHandler, StitchEnvironment

\* A reader is about to fetch only what was advertised a moment ago.
ReadFrame ==
  \A r \in Readers : readPc'[r] = "fetch" =>
    wanted'[r] \in BookWishes \cup ChunkWishes \cup {NoWish}
      /\ (Advertised(wanted'[r]) \/ (readPc[r] = "fetch" /\ wanted'[r] = wanted[r]))

LEMMA ShapeRead ==
  ASSUME Shape, ReadNext,
         UNCHANGED <<storeVars, uploadVars, extractVars, synthVars, stitcherVars, removeVars>>
  PROVE  Shape' /\ ReadFrame
  <1> PICK r \in Readers : ReadBook(r) \/ ReadChunkRow(r) \/ Fetch(r)
    BY DEF ReadNext
  <1>0. /\ readPc \in [Readers -> {"idle", "chunk", "fetch"}]
        /\ wanted \in [Readers -> BookWishes \cup ChunkWishes \cup {NoWish}]
    BY DEF Shape
  <1> SUFFICES /\ readPc' \in [Readers -> {"idle", "chunk", "fetch"}]
               /\ wanted' \in [Readers -> BookWishes \cup ChunkWishes \cup {NoWish}]
               /\ \A s \in Readers : readPc'[s] = "fetch" =>
                    Advertised(wanted'[s]) \/ (readPc[s] = "fetch" /\ wanted'[s] = wanted[s])
    BY DEF Shape, ReadFrame, storeVars, tableVars, uploadVars, extractVars, heldVars, synthVars,
           stitcherVars, stitchVars
  <1>1. CASE ReadBook(r)
    <2>1. \/ \E wish \in BookWishes :
               Advertised(wish) /\ wanted' = [wanted EXCEPT ![r] = wish] /\ readPc' = [readPc EXCEPT ![r] = "fetch"]
          \/ \E wish \in ChunkWishes :
               wanted' = [wanted EXCEPT ![r] = wish] /\ readPc' = [readPc EXCEPT ![r] = "chunk"]
      BY <1>1 DEF ReadBook
    <2> QED
      BY <1>0, <2>1
  <1>2. CASE ReadChunkRow(r) \/ Fetch(r)
    <2>1. \/ Advertised(wanted[r]) /\ readPc' = [readPc EXCEPT ![r] = "fetch"] /\ UNCHANGED wanted
          \/ readPc' = [readPc EXCEPT ![r] = "idle"] /\ wanted' = [wanted EXCEPT ![r] = NoWish]
      BY <1>2 DEF ReadChunkRow, Fetch, Answered
    <2> QED
      BY <1>0, <2>1
  <1> QED
    BY <1>1, <1>2

\* Before the row of the book goes, the request changes nothing.
LEMMA ShapeRemove ==
  ASSUME Shape, RemoveNext, UNCHANGED workerVars, removePc \in {"idle", "list", "row"}
  PROVE  \/ Gone' /\ Shape'
         \/ /\ removePc' \in {"idle", "list", "row"} /\ Shape'
            /\ UNCHANGED <<tableVars, objectVars, outputVars, workerVars>>
  <1> USE DEF storeVars, tableVars, workerVars, extractVars, heldVars, synthVars, stitchVars, readVars
  <1>1. CASE RemoveStart \/ RemoveList
    BY <1>1 DEF RemoveStart, RemoveList, RemoveAt, RemoveGoto, Shape, uploadVars
  <1>2. CASE RemoveRow
    <2>1. book' = [NewBook EXCEPT !.status = Absent] /\ UNCHANGED <<chunk, pdf>>
      BY <1>2 DEF RemoveRow, uploadVars
    <2>2. book' \in LooseRows /\ book'.status = Absent
      BY <2>1, NewRow DEF LooseRows
    <2> QED
      BY <2>1, <2>2 DEF Shape, Gone
  <1>3. CASE RemoveCrash
    <2>1. UNCHANGED <<tableVars, objectVars, outputVars, pdf>>
          /\ removePc' = (IF book.status = Absent THEN "died" ELSE "idle")
      BY <1>3 DEF RemoveCrash, RemoveGoto, uploadVars
    <2> QED
      BY <2>1 DEF Shape, Gone
  <1>4. ~(RemovePdf \/ RemoveMp3 \/ RemoveClips \/ RemoveManifest \/ RemoveMarks \/ RemoveQuery)
    BY DEF RemovePdf, RemoveMp3, RemoveClips, RemoveManifest, RemoveMarks, RemoveQuery, RemoveAt
  <1>5. ~((\E c \in Chunks : RemoveChunkRow(c)) \/ RemoveEnds)
    BY DEF RemoveChunkRow, RemoveEnds, RemoveAt
  <1> QED
    BY <1>1, <1>2, <1>3, <1>4, <1>5 DEF RemoveNext

-----------------------------------------------------------------------------
(* As long as the book is there, everything advertised is *)

Kept ==
  /\ removePc \in {"idle", "list", "row"}
  /\ book.audioKey => bookMp3.exists
  /\ book.manifestKey => manifest.exists
  /\ \A w \in StitchWorkers :
       (plan[w].audio => bookMp3.exists) /\ (plan[w].manifestKey => manifest.exists)
  /\ \A c \in Chunks : chunk[c] = "DONE" => c \in clips /\ c \in markDocs
  /\ \A w \in SynthWorkers :
       /\ synthPc[w] = "putMarks" => ChunkOf(w) \in clips
       /\ synthPc[w] = "finishDone" => ChunkOf(w) \in clips /\ ChunkOf(w) \in markDocs
  /\ \A r \in Readers : readPc[r] = "fetch" => Stored(wanted[r])

KeepInv == Gone \/ (Shape /\ Kept)

LEMMA KeepInit == Init => KeepInv
  <1> SUFFICES ASSUME Init PROVE Kept
    BY ShapeInit DEF KeepInv
  <1> QED
    BY DEF Init, Kept, NewBook, StitchInit, NoPlan, Absent, SynthInit, ReadInit

LEMMA AdvertisedIsStored ==
  ASSUME Kept, NEW wish \in BookWishes \cup ChunkWishes \cup {NoWish}, Advertised(wish)
  PROVE  Stored(wish)
  <1>1. CASE wish \in BookWishes
    BY <1>1 DEF BookWishes, Advertised, Stored, Kept
  <1>2. CASE wish \in ChunkWishes
    <2>1. PICK kind \in {"chunkAudio", "marks"}, c \in Chunks : wish = <<kind, c>>
      BY <1>2 DEF ChunkWishes
    <2>2. wish[1] = kind /\ wish[2] = c
      BY <2>1
    <2> QED
      BY <2>2 DEF Advertised, Stored, Kept
  <1>3. CASE wish = NoWish
    <2>1. wish[1] = "none" /\ wish[2] = 0 /\ 0 \in Chunks
      BY <1>3, StoreAssumption DEF NoWish, Chunks
    <2> QED
      BY <2>1 DEF Advertised, Stored, Kept
  <1> QED
    BY <1>1, <1>2, <1>3

LEMMA KeepStep == KeepInv /\ [Next]_vars => KeepInv'
  <1> SUFFICES ASSUME Shape, Kept, [Next]_vars, ~Gone' PROVE Shape' /\ Kept'
    BY GoneStays DEF KeepInv
  <1> USE DEF Kept
  <1>0. removePc \in {"idle", "list", "row"}
    OBVIOUS
  <1>1. CASE UploadNext /\ UNCHANGED <<workerVars, outputVars, removeVars>>
    <2>1. Shape' /\ UNCHANGED <<storeVars, workerVars, outputVars, removeVars>>
      BY <1>1, ShapeUpload
    <2> QED
      BY <2>1 DEF storeVars, tableVars, objectVars, workerVars, outputVars, removeVars, synthVars,
                  stitchVars, readVars, ChunkOf, Stored
  <1>2. CASE ExtractNext /\ UNCHANGED <<synthVars, stitcherVars, readVars, removeVars>>
    <2>1. Shape' /\ ExtractFrame
      BY <1>2, ShapeExtract
    <2> QED
      BY <1>2, <2>1 DEF ExtractFrame, objectVars, outputVars, removeVars, synthVars, stitcherVars, stitchVars,
                        readVars, ChunkOf, Stored
  <1>3. CASE SynthNext /\ UNCHANGED <<uploadVars, extractVars, stitcherVars, readVars, removeVars>>
    <2>1. Shape' /\ SynthFrame
      BY <1>3, ShapeSynth
    <2>2. UNCHANGED <<bookMp3, manifest, plan, readPc, wanted, removePc>>
      BY <1>3 DEF stitcherVars, stitchVars, outputVars, readVars, removeVars
    <2>3. \A c \in Chunks : chunk'[c] = "DONE" => c \in clips' /\ c \in markDocs'
      BY <2>1 DEF SynthFrame
    <2>4. \A w \in SynthWorkers :
            /\ synthPc'[w] = "putMarks" => ChunkOf(w)' \in clips'
            /\ synthPc'[w] = "finishDone" => ChunkOf(w)' \in clips' /\ ChunkOf(w)' \in markDocs'
      BY <2>1 DEF SynthFrame
    <2>5. \A r \in Readers : readPc'[r] = "fetch" => Stored(wanted[r])'
      BY <2>1, <2>2 DEF SynthFrame, Stored
    <2> QED
      BY <2>1, <2>2, <2>3, <2>4, <2>5 DEF SynthFrame
  <1>4. CASE StitchNext /\ UNCHANGED <<uploadVars, extractVars, synthVars, readVars, removeVars>>
    <2>1. Shape' /\ StitchFrame
      BY <1>4, ShapeStitch
    <2>2. UNCHANGED <<synthPc, synthMsg, readPc, wanted, removePc, chunk, clips, markDocs>>
      BY <1>4, <2>1 DEF StitchFrame, objectVars, synthVars, readVars, removeVars
    <2>3. \A r \in Readers : readPc'[r] = "fetch" => Stored(wanted[r])'
      BY <2>1, <2>2 DEF StitchFrame, Stored
    <2> QED
      BY <2>1, <2>2, <2>3 DEF StitchFrame, ChunkOf
  <1>5. CASE ReadNext /\ UNCHANGED <<storeVars, uploadVars, extractVars, synthVars, stitcherVars, removeVars>>
    <2>1. Shape' /\ ReadFrame
      BY <1>5, ShapeRead
    <2>2. UNCHANGED <<book, chunk, clips, markDocs, bookMp3, manifest, plan, synthPc, synthMsg, removePc>>
      BY <1>5 DEF storeVars, tableVars, objectVars, synthVars, stitcherVars, stitchVars, outputVars, removeVars
    <2>3. \A r \in Readers : readPc'[r] = "fetch" => Stored(wanted'[r])
      BY <2>1, AdvertisedIsStored DEF ReadFrame
    <2>4. \A r \in Readers : readPc'[r] = "fetch" => Stored(wanted[r])'
      BY <2>2, <2>3 DEF Stored
    <2> QED
      BY <2>1, <2>2, <2>4 DEF ChunkOf
  <1>6. CASE RemoveNext /\ UNCHANGED workerVars
    <2>1. /\ removePc' \in {"idle", "list", "row"} /\ Shape'
          /\ UNCHANGED <<tableVars, objectVars, outputVars, workerVars>>
      BY <1>0, <1>6, ShapeRemove
    <2> QED
      BY <2>1 DEF tableVars, objectVars, outputVars, workerVars, synthVars, stitchVars, readVars, ChunkOf, Stored
  <1>7. CASE UNCHANGED vars
    BY <1>7 DEF vars, storeVars, tableVars, objectVars, uploadVars, extractVars, heldVars, synthVars,
                stitcherVars, stitchVars, outputVars, readVars, removeVars, Shape, ChunkOf, Stored
  <1> QED
    BY <1>1, <1>2, <1>3, <1>4, <1>5, <1>6, <1>7 DEF Next, Step

\* A reader that was given a key and does not find the object learns, when it
\* asks for the book again, that the book was deleted: at any moment of a
\* deletion, whatever is uploaded, narrated or stitched meanwhile.
THEOREM NothingElseMissing == Spec => []MissingMeansDeleted
  <1>1. KeepInv => MissingMeansDeleted
    BY DEF KeepInv, Kept, Gone, MissingMeansDeleted
  <1> QED
    BY <1>1, KeepInit, KeepStep, PTL DEF Spec
-----------------------------------------------------------------------------
(* As long as the book is there, no object is without its row *)

\* The statuses of a book that has not been extracted.
Waiting == {"UPLOADED", "EXTRACTING", "FAILED"}

\* Where an extractor holds the claim of the book.
Claiming == {"read", "list", "wipe", "save", "flip", "fail", "release"}

\* No chunk message has been sent, so that no synthesizer has begun.
NotBegun ==
  /\ clips = {} /\ markDocs = {}
  /\ \A b \in SynthBodies : synthQueue[b] = 0
  /\ \A w \in SynthWorkers : synthPc[w] = "idle"

\* One extractor at a time replaces the rows, and only before any of them has
\* an object; from then on a synthesizer writes objects only for rows it has
\* found, and no row goes.
Rooted ==
  /\ extractPc \in [ExtractWorkers -> ExtractPcs]
  /\ book.status \in Waiting => NotBegun
  /\ \A w \in ExtractWorkers :
       /\ extractPc[w] \in Claiming =>
            book.status = "EXTRACTING" /\ \A v \in ExtractWorkers : extractPc[v] \in Claiming => v = w
       /\ extractPc[w] = "enqueue" => book.status \notin Waiting
  /\ clips \subseteq Rows /\ markDocs \subseteq Rows
  /\ \A w \in SynthWorkers : synthPc[w] \in {"engine", "putAudio", "putMarks"} => ChunkOf(w) \in Rows

RootInv == Gone \/ Rooted

LEMMA RootInit == Init => RootInv
  <1> SUFFICES ASSUME Init PROVE Rooted
    BY DEF RootInv
  <1>1. extractPc = [w \in ExtractWorkers |-> "idle"] /\ synthPc = [w \in SynthWorkers |-> "idle"]
    BY DEF Init, ExtractInit, SynthInit
  <1>2. NotBegun
    BY <1>1 DEF Init, NotBegun
  <1> QED
    BY <1>1, <1>2 DEF Init, Rooted, ExtractPcs, Claiming

\* Nobody writes while the rows are replaced.
LEMMA RootExtract ==
  ASSUME Shape, Rooted, ExtractNext, UNCHANGED <<synthVars, stitcherVars>>, ~Gone, ~Gone'
  PROVE  Rooted'
  <1> PICK w \in ExtractWorkers : ExtractHandler(w) \/ ExtractCrash(w)
    BY DEF ExtractNext
  <1>0. /\ extractPc \in [ExtractWorkers -> ExtractPcs]
        /\ book.status \in Waiting => NotBegun
        /\ \A v \in ExtractWorkers : extractPc[v] \in Claiming =>
             book.status = "EXTRACTING" /\ \A u \in ExtractWorkers : extractPc[u] \in Claiming => u = v
        /\ \A v \in ExtractWorkers : extractPc[v] = "enqueue" => book.status \notin Waiting
        /\ clips \subseteq Rows /\ markDocs \subseteq Rows
        /\ \A v \in SynthWorkers :
             synthPc[v] \in {"engine", "putAudio", "putMarks"} => ChunkOf(v) \in Rows
        /\ book \in LooseRows
    BY DEF Rooted, Shape
  <1>a. UNCHANGED <<synthPc, synthMsg>>
    BY DEF synthVars
  <1> USE DEF storeVars, tableVars, objectVars, ExtractAt, ExtractGoto
  <1> DEFINE Goes(here) == extractPc' = [extractPc EXCEPT ![w] = here]
  \* Nothing in the store but a queue changes, and the claim is not entered.
  <1>b. ASSUME UNCHANGED <<book, chunk, clips, markDocs>>, UNCHANGED synthQueue \/ book.status \notin Waiting,
               NEW here \in ExtractPcs, Goes(here), here \in Claiming => extractPc[w] \in Claiming,
               here = "enqueue" => book.status \notin Waiting
        PROVE  Rooted'
    <2>1. extractPc'[w] = here /\ \A v \in ExtractWorkers : v # w => extractPc'[v] = extractPc[v]
      BY <1>0, <1>b
    <2>2. extractPc' \in [ExtractWorkers -> ExtractPcs]
      BY <1>0, <1>b
    <2>3. (book.status \in Waiting => NotBegun)'
      BY <1>0, <1>a, <1>b DEF NotBegun
    <2>4. ASSUME NEW v \in ExtractWorkers, extractPc'[v] \in Claiming
          PROVE  book'.status = "EXTRACTING" /\ \A u \in ExtractWorkers : extractPc'[u] \in Claiming => u = v
      <3>1. \A u \in ExtractWorkers : extractPc'[u] \in Claiming => extractPc[u] \in Claiming
        BY <1>b, <2>1
      <3> QED
        BY <1>0, <1>b, <2>4, <3>1
    <2>5. \A v \in ExtractWorkers : extractPc'[v] = "enqueue" => book'.status \notin Waiting
      BY <1>0, <1>b, <2>1
    <2> QED
      BY <1>0, <1>a, <1>b, <2>2, <2>3, <2>4, <2>5 DEF Rooted, Rows, ChunkOf
  \* The rows change while nothing has begun.
  <1>c. ASSUME book.status \in Waiting, book'.status \in Waiting, UNCHANGED <<clips, markDocs, synthQueue>>,
               NEW here \in ExtractPcs, Goes(here), here # "enqueue",
               here \in Claiming => book'.status = "EXTRACTING",
               \A v \in ExtractWorkers : extractPc[v] \in Claiming => v = w
        PROVE  Rooted'
    <2>1. extractPc'[w] = here /\ \A v \in ExtractWorkers : v # w => extractPc'[v] = extractPc[v]
      BY <1>0, <1>c
    <2>2. extractPc' \in [ExtractWorkers -> ExtractPcs]
      BY <1>0, <1>c
    <2>3. NotBegun /\ NotBegun'
      BY <1>0, <1>a, <1>c DEF NotBegun
    <2>4. \A v \in ExtractWorkers : extractPc'[v] \in Claiming => v = w /\ here \in Claiming
      BY <1>c, <2>1
    <2>5. \A v \in ExtractWorkers : extractPc'[v] # "enqueue"
      BY <1>0, <1>c, <2>1
    <2> QED
      BY <1>c, <2>2, <2>3, <2>4, <2>5 DEF Rooted, NotBegun
  <1>1. CASE ExtractReceive(w) \/ ExtractGet(w)
    <2>1. UNCHANGED <<book, chunk, clips, markDocs, synthQueue>>
      BY <1>1 DEF ExtractReceive, ExtractGet, queueVars
    <2>2. \E here \in {"get", "claim", "ack", "enqueue"} :
             Goes(here) /\ (here = "enqueue" => book.status = "EXTRACTED")
      BY <1>1 DEF ExtractReceive, ExtractGet
    <2> QED
      BY <1>b, <2>1, <2>2 DEF ExtractPcs, Claiming, Waiting
  <1>2. CASE ExtractClaim(w)
    <2>1. UNCHANGED <<chunk, clips, markDocs, synthQueue>>
      BY <1>2 DEF ExtractClaim, queueVars
    <2>2. CASE UNCHANGED book /\ Goes("ack")
      BY <1>b, <2>1, <2>2 DEF ExtractPcs, Claiming
    <2>3. CASE /\ book.status \in {"UPLOADED", "FAILED"} /\ book' = [book EXCEPT !.status = "EXTRACTING"]
               /\ Goes("read")
      <3>1. \A v \in ExtractWorkers : extractPc[v] \notin Claiming
        BY <1>0, <2>3
      <3>2. book'.status = "EXTRACTING"
        BY <1>0, <2>3 DEF LooseRows
      <3> QED
        BY <1>c, <2>1, <2>3, <3>1, <3>2 DEF ExtractPcs, Waiting
    <2> QED
      BY <1>2, <2>2, <2>3 DEF ExtractClaim, ClaimableStatuses
  <1>3. CASE ExtractRead(w) \/ ExtractList(w) \/ ExtractWiped(w) \/ ExtractTransient(w)
    <2>1. UNCHANGED <<book, chunk, clips, markDocs, synthQueue>>
      BY <1>3 DEF ExtractRead, ExtractList, ExtractWiped, ExtractTransient, queueVars
    <2>2. extractPc[w] \in Claiming
      BY <1>3 DEF ExtractRead, ExtractList, ExtractWiped, ExtractTransient, Claiming
    <2>3. \E here \in Claiming : Goes(here)
      BY <1>3 DEF ExtractRead, ExtractList, ExtractWiped, ExtractTransient, Claiming
    <2> QED
      BY <1>b, <2>1, <2>2, <2>3 DEF ExtractPcs, Claiming
  <1>4. CASE ExtractWipeRow(w) \/ ExtractSaveRow(w)
    <2>1. UNCHANGED <<book, clips, markDocs, synthQueue>>
      BY <1>4 DEF ExtractWipeRow, ExtractSaveRow, queueVars
    <2>2. extractPc[w] \in Claiming
      BY <1>4 DEF ExtractWipeRow, ExtractSaveRow, Claiming
    <2>3. \E here \in {"wipe", "save", "flip"} : Goes(here)
      <3>1. CASE ExtractWipeRow(w)
        <4>1. extractPc' = extractPc /\ extractPc[w] = "wipe"
          BY <3>1 DEF ExtractWipeRow
        <4> QED
          BY <1>0, <4>1
      <3>2. CASE ExtractSaveRow(w)
        BY <3>2 DEF ExtractSaveRow
      <3> QED
        BY <1>4, <3>1, <3>2
    <2> QED
      BY <1>0, <1>c, <2>1, <2>2, <2>3 DEF ExtractPcs, Claiming, Waiting
  <1>5. CASE ExtractFlip(w)
    <2>1. UNCHANGED <<chunk, clips, markDocs>> /\ extractPc[w] = "flip"
      BY <1>5 DEF ExtractFlip
    <2>2. book' = ExtractedBook(extractSize[w]) /\ Goes("enqueue")
      BY <1>5 DEF ExtractFlip, Gone
    <2>3. book'.status = "EXTRACTED"
      BY <2>2 DEF ExtractedBook, NewBook
    <2>4. extractPc'[w] = "enqueue" /\ \A v \in ExtractWorkers : v # w => extractPc'[v] = extractPc[v]
      BY <1>0, <2>2
    <2>5. extractPc' \in [ExtractWorkers -> ExtractPcs]
      BY <1>0, <2>2 DEF ExtractPcs
    <2>6. \A v \in ExtractWorkers : extractPc'[v] \notin Claiming
      BY <1>0, <2>1, <2>4 DEF Claiming
    <2> QED
      BY <1>0, <1>a, <2>1, <2>3, <2>5, <2>6 DEF Rooted, Rows, ChunkOf, Waiting
  <1>6. CASE ExtractFail(w) \/ ExtractRelease(w)
    <2>1. UNCHANGED <<clips, markDocs, synthQueue>> /\ extractPc[w] \in Claiming
      BY <1>6 DEF ExtractFail, ExtractRelease, queueVars, Claiming
    <2>2. Goes("ack") \/ Goes("idle")
      BY <1>6 DEF ExtractFail, ExtractRelease, ExtractRaise, ExtractStop
    <2>3. book'.status \in Waiting
      BY <1>0, <1>6 DEF ExtractFail, ExtractRelease, Gone, LooseRows, Waiting
    <2> QED
      BY <1>0, <1>c, <2>1, <2>2, <2>3 DEF ExtractPcs, Claiming, Waiting
  <1>7. CASE ExtractEnqueue(w) \/ ExtractEnqueueFails(w)
    <2>1. UNCHANGED <<book, chunk, clips, markDocs>> /\ extractPc[w] = "enqueue"
      BY <1>7 DEF ExtractEnqueue, ExtractEnqueueFails
    <2>2. Goes("ack") \/ Goes("idle")
      BY <1>7 DEF ExtractEnqueue, ExtractEnqueueFails, ExtractRaise, ExtractStop
    <2> QED
      BY <1>0, <1>b, <2>1, <2>2 DEF ExtractPcs, Claiming
  <1>8. CASE ExtractAck(w) \/ ExtractCrash(w)
    <2>1. UNCHANGED <<book, chunk, clips, markDocs, synthQueue>>
      BY <1>8 DEF ExtractAck, ExtractCrash, queueVars
    <2>2. Goes("idle")
      BY <1>8 DEF ExtractAck, ExtractCrash, ExtractRaise, ExtractStop
    <2> QED
      BY <1>b, <2>1, <2>2 DEF ExtractPcs, Claiming
  <1> QED
    BY <1>1, <1>2, <1>3, <1>4, <1>5, <1>6, <1>7, <1>8 DEF ExtractHandler

\* A synthesizer takes no row away and writes objects of rows only.
LEMMA RootSynth ==
  ASSUME Shape, Rooted, SynthNext, UNCHANGED extractVars
  PROVE  Rooted'
  <1> PICK w \in SynthWorkers : SynthHandler(w) \/ SynthEnvironment(w)
    BY DEF SynthNext
  <1>0. /\ synthPc \in [SynthWorkers -> SynthPcs]
        /\ synthMsg \in [SynthWorkers -> SynthMsgs \cup {NoSynthMsg}]
        /\ chunk \in [Chunks -> ChunkStatus \cup {Absent}]
        /\ book \in LooseRows
        /\ ChunkOf(w) \in Chunks
    <2>1. NoSynthMsg.chunk \in Chunks
      BY StoreAssumption DEF NoSynthMsg, Chunks
    <2> QED
      BY <2>1 DEF Shape, ChunkOf, SynthMsgs
  <1>1. book.status \notin Waiting
    <2> SUFFICES ASSUME NotBegun PROVE FALSE
      BY DEF Rooted
    <2>1. \A b \in SynthBodies : ~(synthQueue[b] > 0)
      BY DEF NotBegun
    <2>2. synthPc[w] = "idle"
      BY DEF NotBegun
    <2>3. ~SynthReceive(w)
      BY <2>1 DEF SynthReceive
    <2>4. ~(SynthGet(w) \/ SynthRecheck(w) \/ SynthClaim(w) \/ SynthEngine(w) \/ SynthPutAudio(w) \/ SynthPutMarks(w))
      BY <2>2 DEF SynthGet, SynthRecheck, SynthClaim, SynthEngine, SynthPutAudio, SynthPutMarks, SynthAt
    <2>5. ~(SynthRelease(w) \/ SynthFinishDone(w) \/ SynthFinishFailed(w) \/ SynthCountDone(w) \/ SynthCountFailed(w))
      BY <2>2 DEF SynthRelease, SynthFinishDone, SynthFinishFailed, SynthFinish, SynthCountDone, SynthCountFailed,
                  SynthCount, SynthAt
    <2>6. ~(SynthPublish(w) \/ SynthPublishFails(w) \/ SynthAck(w) \/ SynthCrash(w) \/ SynthDuplicate(w))
      BY <2>2 DEF SynthPublish, SynthPublishFails, SynthAck, SynthCrash, SynthDuplicate, SynthAt
    <2> QED
      BY <2>3, <2>4, <2>5, <2>6 DEF SynthHandler, SynthEnvironment
  <1> DEFINE Found == {"engine", "putAudio", "putMarks"}
  \* It is enough that rows stay and that w stays with its row.
  <1>a. ASSUME book'.status = book.status, Rows \subseteq Rows',
               clips' \subseteq Rows', markDocs' \subseteq Rows',
               NEW here \in SynthPcs, synthPc' = [synthPc EXCEPT ![w] = here],
               \A v \in SynthWorkers : v # w => synthMsg'[v] = synthMsg[v],
               here \in Found => synthMsg'[w] = synthMsg[w] /\ ChunkOf(w) \in Rows'
        PROVE  Rooted'
    <2>1. \A v \in SynthWorkers : v # w => synthPc'[v] = synthPc[v]
      BY <1>0, <1>a
    <2>2. synthPc'[w] = here
      BY <1>0, <1>a
    <2>3. ASSUME NEW v \in SynthWorkers, synthPc'[v] \in Found PROVE ChunkOf(v)' \in Rows'
      BY <1>a, <2>1, <2>2, <2>3 DEF Rooted, ChunkOf
    <2> QED
      BY <1>1, <1>a, <2>3 DEF Rooted, extractVars
  <1>b. \A c \in Chunks, s \in ChunkStatus :
          chunk' = [chunk EXCEPT ![c] = s] => Rows \subseteq Rows' /\ c \in Rows'
    BY <1>0 DEF Rows, ChunkStatus, Absent
  <1>c. UNCHANGED chunk => Rows' = Rows
    BY DEF Rows
  <1>d. clips \subseteq Rows /\ markDocs \subseteq Rows /\ (synthPc[w] \in Found => ChunkOf(w) \in Rows)
    BY DEF Rooted
  <1> USE DEF SynthAt, SynthGoto, storeVars, tableVars, objectVars
  <1>2. CASE SynthReceive(w)
    <2>1. UNCHANGED <<book, chunk, clips, markDocs>> /\ synthPc' = [synthPc EXCEPT ![w] = "get"]
      BY <1>2 DEF SynthReceive
    <2>2. \A v \in SynthWorkers : v # w => synthMsg'[v] = synthMsg[v]
      BY <1>0, <1>2 DEF SynthReceive
    <2> QED
      BY <1>a, <1>c, <1>d, <2>1, <2>2 DEF SynthPcs
  <1>3. CASE SynthGet(w) \/ SynthRecheck(w)
    <2>1. UNCHANGED <<book, chunk, clips, markDocs, synthMsg>>
      BY <1>3 DEF SynthGet, SynthRecheck
    <2>2. \E here \in {"ack", "recheck", "claim", "publish"} : synthPc' = [synthPc EXCEPT ![w] = here]
      BY <1>3 DEF SynthGet, SynthRecheck
    <2> QED
      BY <1>a, <1>c, <1>d, <2>1, <2>2 DEF SynthPcs
  <1>4. CASE SynthClaim(w)
    <2>1. UNCHANGED <<book, clips, markDocs, synthMsg>>
      BY <1>4 DEF SynthClaim
    <2>2. CASE chunk' = [chunk EXCEPT ![ChunkOf(w)] = "SYNTHESIZING"] /\ synthPc' = [synthPc EXCEPT ![w] = "engine"]
      <3>1. Rows \subseteq Rows' /\ ChunkOf(w) \in Rows'
        BY <1>0, <1>b, <2>2 DEF ChunkStatus
      <3> QED
        BY <1>a, <1>d, <2>1, <2>2, <3>1 DEF SynthPcs
    <2>3. CASE UNCHANGED chunk /\ synthPc' = [synthPc EXCEPT ![w] = "ack"]
      BY <1>a, <1>c, <1>d, <2>1, <2>3 DEF SynthPcs
    <2> QED
      BY <1>4, <2>2, <2>3 DEF SynthClaim
  <1>5. CASE SynthEngine(w) \/ SynthPutAudio(w) \/ SynthPutMarks(w)
    <2>1. UNCHANGED <<book, chunk, synthMsg>> /\ ChunkOf(w) \in Rows
      BY <1>5, <1>d DEF SynthEngine, SynthPutAudio, SynthPutMarks
    <2>2. clips' \subseteq clips \cup {ChunkOf(w)} /\ markDocs' \subseteq markDocs \cup {ChunkOf(w)}
      BY <1>5 DEF SynthEngine, SynthPutAudio, SynthPutMarks
    <2>3. \E here \in SynthPcs : synthPc' = [synthPc EXCEPT ![w] = here]
      BY <1>5 DEF SynthEngine, SynthPutAudio, SynthPutMarks, AfterTransient, SynthPcs
    <2>4. Rows' = Rows /\ clips' \subseteq Rows' /\ markDocs' \subseteq Rows' /\ ChunkOf(w) \in Rows'
      BY <1>c, <1>d, <2>1, <2>2
    <2> QED
      BY <1>a, <2>1, <2>3, <2>4
  <1>6. CASE SynthFinishDone(w) \/ SynthFinishFailed(w)
    <2>1. UNCHANGED <<book, clips, markDocs, synthMsg>>
      BY <1>6 DEF SynthFinishDone, SynthFinishFailed, SynthFinish
    <2>2. \E here \in {"countDone", "countFailed", "ack"} : synthPc' = [synthPc EXCEPT ![w] = here]
      BY <1>6 DEF SynthFinishDone, SynthFinishFailed, SynthFinish
    <2>3. UNCHANGED chunk \/ \E s \in ChunkStatus : chunk' = [chunk EXCEPT ![ChunkOf(w)] = s]
      BY <1>6 DEF SynthFinishDone, SynthFinishFailed, SynthFinish, ChunkStatus
    <2>4. Rows \subseteq Rows'
      BY <1>0, <1>b, <1>c, <2>3
    <2> QED
      BY <1>a, <1>d, <2>1, <2>2, <2>4 DEF SynthPcs
  <1>7. CASE SynthRelease(w)
    <2>1. UNCHANGED <<book, clips, markDocs>>
      BY <1>7 DEF SynthRelease
    <2>2. /\ UNCHANGED chunk \/ chunk' = [chunk EXCEPT ![ChunkOf(w)] = "PENDING"]
          /\ \E here \in {"idle", "ack"} : synthPc' = [synthPc EXCEPT ![w] = here]
          /\ synthMsg' \in {synthMsg, [synthMsg EXCEPT ![w] = NoSynthMsg]}
      BY <1>7 DEF SynthRelease, SynthRaise, SynthStop
    <2>3. Rows \subseteq Rows'
      BY <1>0, <1>b, <1>c, <2>2 DEF ChunkStatus
    <2>4. \A v \in SynthWorkers : v # w => synthMsg'[v] = synthMsg[v]
      BY <1>0, <2>2
    <2> QED
      BY <1>a, <1>d, <2>1, <2>2, <2>3, <2>4 DEF SynthPcs
  <1>8. CASE SynthCountDone(w) \/ SynthCountFailed(w)
    <2>1. UNCHANGED <<chunk, clips, markDocs, synthMsg>>
      BY <1>8 DEF SynthCountDone, SynthCountFailed, SynthCount
    <2>2. \E here \in {"publish", "ack"} : synthPc' = [synthPc EXCEPT ![w] = here]
      BY <1>8 DEF SynthCountDone, SynthCountFailed, SynthCount
    <2>3. book'.status = book.status
      BY <1>0, <1>8 DEF SynthCountDone, SynthCountFailed, SynthCount, LooseRows
    <2> QED
      BY <1>a, <1>c, <1>d, <2>1, <2>2, <2>3 DEF SynthPcs
  <1>9. CASE SynthPublish(w) \/ SynthPublishFails(w) \/ SynthAck(w) \/ SynthCrash(w)
    <2>1. UNCHANGED <<book, chunk, clips, markDocs>>
      BY <1>9 DEF SynthPublish, SynthPublishFails, SynthAck, SynthCrash
    <2>2. /\ \E here \in {"idle", "ack"} : synthPc' = [synthPc EXCEPT ![w] = here]
          /\ synthMsg' \in {synthMsg, [synthMsg EXCEPT ![w] = NoSynthMsg]}
      BY <1>9 DEF SynthPublish, SynthPublishFails, SynthAck, SynthCrash, SynthRaise, SynthStop
    <2>3. \A v \in SynthWorkers : v # w => synthMsg'[v] = synthMsg[v]
      BY <1>0, <2>2
    <2> QED
      BY <1>a, <1>c, <1>d, <2>1, <2>2, <2>3 DEF SynthPcs
  <1>10. CASE SynthDuplicate(w)
    <2>1. UNCHANGED <<book, chunk, clips, markDocs, synthPc, synthMsg>>
      BY <1>10 DEF SynthDuplicate, synthVars
    <2> QED
      BY <1>1, <2>1 DEF Rooted, Rows, ChunkOf, extractVars
  <1> QED
    BY <1>2, <1>3, <1>4, <1>5, <1>6, <1>7, <1>8, <1>9, <1>10 DEF SynthHandler, SynthEnvironment

\* A stitcher moves a book only between statuses that follow its extraction.
LEMMA RootStitch ==
  ASSUME Shape, Rooted, StitchNext, UNCHANGED <<extractVars, synthVars>>
  PROVE  Rooted'
  <1> PICK w \in StitchWorkers : StitchHandler(w) \/ StitchEnvironment(w)
    BY DEF StitchNext
  <1> USE DEF storeVars, tableVars, objectVars
  <1>0. book \in LooseRows
    BY DEF Shape
  <1>1. UNCHANGED <<chunk, clips, markDocs, synthQueue>>
        /\ (UNCHANGED book \/ (book.status \notin Waiting /\ book'.status \notin Waiting \cup {"EXTRACTING"}))
    <2>1. CASE StitchClaim(w) \/ StitchRelease(w)
      <3>1. \/ UNCHANGED book
            \/ /\ book.status \in {"EXTRACTED", "STITCHING"}
               /\ book' \in {[book EXCEPT !.status = "STITCHING"], [book EXCEPT !.status = "EXTRACTED"]}
        BY <2>1 DEF StitchClaim, StitchRelease, StitchableBookStatuses
      <3> QED
        BY <1>0, <2>1, <3>1 DEF StitchClaim, StitchRelease, LooseRows, Waiting, queueVars
    <2>2. CASE StitchFinish(w)
      <3>1. UNCHANGED book \/ (book.status = "STITCHING" /\ book'.status = FinalStatus(w))
        BY <1>0, <2>2 DEF StitchFinish, LooseRows
      <3> QED
        BY <2>2, <3>1 DEF StitchFinish, FinalStatus, Waiting, queueVars
    <2>3. CASE StitchReceive(w) \/ StitchGet(w) \/ StitchList(w) \/ Concatenate(w) \/ ConcatenateFails(w)
      BY <2>3 DEF StitchReceive, StitchGet, StitchList, Concatenate, ConcatenateFails, queueVars
    <2>4. CASE PutManifest(w) \/ PutManifestFails(w) \/ StitchAck(w) \/ StitchCrash(w) \/ StitchDuplicate(w)
      BY <2>4 DEF PutManifest, PutManifestFails, StitchAck, StitchCrash, StitchDuplicate, queueVars
    <2> QED
      BY <2>1, <2>2, <2>3, <2>4 DEF StitchHandler, StitchEnvironment
  <1>2. UNCHANGED <<extractPc, synthPc, synthMsg>>
    BY DEF extractVars, synthVars
  <1>3. (book.status \in Waiting => NotBegun)'
    BY <1>1, <1>2 DEF Rooted, NotBegun
  <1>4. \A v \in ExtractWorkers :
          /\ extractPc'[v] \in Claiming =>
               book'.status = "EXTRACTING" /\ \A u \in ExtractWorkers : extractPc'[u] \in Claiming => u = v
          /\ extractPc'[v] = "enqueue" => book'.status \notin Waiting
    BY <1>1, <1>2 DEF Rooted, Waiting
  <1> QED
    BY <1>1, <1>2, <1>3, <1>4 DEF Rooted, Rows, ChunkOf

LEMMA RootStep == ASSUME KeepInv, RootInv, [Next]_vars PROVE RootInv'
  <1> SUFFICES ASSUME Shape, Kept, Rooted, ~Gone, ~Gone' PROVE Rooted'
    BY GoneStays DEF KeepInv, RootInv
  <1>1. CASE ExtractNext /\ UNCHANGED <<synthVars, stitcherVars, readVars, removeVars>>
    BY <1>1, RootExtract
  <1>2. CASE SynthNext /\ UNCHANGED <<uploadVars, extractVars, stitcherVars, readVars, removeVars>>
    BY <1>2, RootSynth
  <1>3. CASE StitchNext /\ UNCHANGED <<uploadVars, extractVars, synthVars, readVars, removeVars>>
    BY <1>3, RootStitch
  <1>4. ASSUME UNCHANGED <<book, chunk, clips, markDocs, synthQueue, extractPc, synthPc, synthMsg>>
        PROVE  Rooted'
    BY <1>4 DEF Rooted, NotBegun, Rows, ChunkOf
  <1>5. CASE UploadNext /\ UNCHANGED <<workerVars, outputVars, removeVars>>
    <2>1. UNCHANGED storeVars
      BY <1>5, ShapeUpload
    <2> QED
      BY <1>4, <1>5, <2>1 DEF storeVars, tableVars, objectVars, queueVars, workerVars, extractVars, synthVars
  <1>6. CASE ReadNext /\ UNCHANGED <<storeVars, uploadVars, extractVars, synthVars, stitcherVars, removeVars>>
    BY <1>4, <1>6 DEF storeVars, tableVars, objectVars, queueVars, extractVars, synthVars
  <1>7. CASE RemoveNext /\ UNCHANGED workerVars
    <2>1. UNCHANGED <<tableVars, objectVars>>
      BY <1>7, ShapeRemove DEF Kept
    <2>2. UNCHANGED synthQueue
      BY <1>7 DEF RemoveNext, RemoveStart, RemoveList, RemoveRow, RemovePdf, RemoveMp3, RemoveClips, RemoveManifest,
                  RemoveMarks, RemoveQuery, RemoveChunkRow, RemoveEnds, RemoveCrash, storeVars, queueVars
    <2> QED
      BY <1>4, <1>7, <2>1, <2>2 DEF tableVars, objectVars, workerVars, extractVars, synthVars
  <1>8. CASE UNCHANGED vars
    BY <1>4, <1>8 DEF vars, storeVars, tableVars, objectVars, queueVars, extractVars, synthVars
  <1> QED
    BY <1>1, <1>2, <1>3, <1>5, <1>6, <1>7, <1>8 DEF Next, Step

LEMMA RootAlways == Spec => [](KeepInv /\ RootInv)
  BY KeepInit, KeepStep, RootInit, RootStep, PTL DEF Spec

-----------------------------------------------------------------------------
(* What a request leaves behind *)

LEMMA ShapeStep == Shape /\ [Next]_vars => Shape'
  <1> SUFFICES ASSUME Shape, [Next]_vars PROVE Shape'
    OBVIOUS
  <1>1. CASE RemoveNext /\ UNCHANGED workerVars
    <2> USE DEF storeVars, tableVars, uploadVars, workerVars, extractVars, heldVars, synthVars, stitchVars, readVars
    <2>1. CASE RemoveRow
      <3>1. book' \in LooseRows
        BY <2>1, NewRow DEF RemoveRow, LooseRows
      <3> QED
        BY <1>1, <2>1, <3>1 DEF RemoveRow, Shape
    <2>2. CASE RemovePdf
      BY <1>1, <2>2 DEF RemovePdf, Shape, NoPdf
    <2>3. CASE \E c \in Chunks : RemoveChunkRow(c)
      BY <1>1, <2>3 DEF RemoveChunkRow, Shape
    <2>4. CASE RemoveStart \/ RemoveList \/ RemoveMp3 \/ RemoveClips \/ RemoveManifest
      <3>1. UNCHANGED <<book, chunk, pdf>>
        BY <2>4 DEF RemoveStart, RemoveList, RemoveMp3, RemoveClips, RemoveManifest
      <3> QED
        BY <1>1, <3>1 DEF Shape
    <2>5. CASE RemoveMarks \/ RemoveQuery \/ RemoveEnds \/ RemoveCrash
      <3>1. UNCHANGED <<book, chunk, pdf>>
        BY <2>5 DEF RemoveMarks, RemoveQuery, RemoveEnds, RemoveCrash
      <3> QED
        BY <1>1, <3>1 DEF Shape
    <2> QED
      BY <1>1, <2>1, <2>2, <2>3, <2>4, <2>5 DEF RemoveNext
  <1>2. CASE UNCHANGED vars
    BY <1>2 DEF vars, storeVars, tableVars, uploadVars, extractVars, heldVars, synthVars,
                stitcherVars, stitchVars, readVars, Shape
  <1> QED
    BY <1>1, <1>2, ShapeUpload, ShapeExtract, ShapeSynth, ShapeStitch, ShapeRead DEF Next, Step

\* Only the request deletes the row of the book.
LEMMA ThereStays == ASSUME Shape, [Next]_vars, ~Gone, ~RemoveRow PROVE ~Gone'
  <1>0. book \in LooseRows
    BY DEF Shape
  <1> USE DEF Gone, storeVars, tableVars
  <1>1. CASE ExtractNext
    <2> PICK w \in ExtractWorkers : ExtractHandler(w) \/ ExtractCrash(w)
      BY <1>1 DEF ExtractNext
    <2>1. CASE ExtractReceive(w) \/ ExtractGet(w) \/ ExtractRead(w) \/ ExtractList(w) \/ ExtractWipeRow(w)
      BY <2>1 DEF ExtractReceive, ExtractGet, ExtractRead, ExtractList, ExtractWipeRow
    <2>2. CASE ExtractWiped(w) \/ ExtractSaveRow(w) \/ ExtractTransient(w) \/ ExtractAck(w) \/ ExtractCrash(w)
      BY <2>2 DEF ExtractWiped, ExtractSaveRow, ExtractTransient, ExtractAck, ExtractCrash
    <2>3. CASE ExtractEnqueue(w) \/ ExtractEnqueueFails(w)
      BY <2>3 DEF ExtractEnqueue, ExtractEnqueueFails
    <2>4. CASE ExtractClaim(w) \/ ExtractFail(w) \/ ExtractRelease(w)
      BY <1>0, <2>4 DEF ExtractClaim, ExtractFail, ExtractRelease, LooseRows, Absent
    <2>5. CASE ExtractFlip(w)
      BY <2>5 DEF ExtractFlip, ExtractedBook, NewBook, Absent
    <2> QED
      BY <2>1, <2>2, <2>3, <2>4, <2>5 DEF ExtractHandler
  <1>2. CASE SynthNext
    <2> PICK w \in SynthWorkers : SynthHandler(w) \/ SynthEnvironment(w)
      BY <1>2 DEF SynthNext
    <2>1. CASE SynthCountDone(w) \/ SynthCountFailed(w)
      BY <1>0, <2>1 DEF SynthCountDone, SynthCountFailed, SynthCount, LooseRows
    <2>2. CASE SynthReceive(w) \/ SynthGet(w) \/ SynthRecheck(w) \/ SynthClaim(w) \/ SynthEngine(w)
      BY <2>2 DEF SynthReceive, SynthGet, SynthRecheck, SynthClaim, SynthEngine
    <2>3. CASE SynthPutAudio(w) \/ SynthPutMarks(w) \/ SynthRelease(w) \/ SynthFinishDone(w) \/ SynthFinishFailed(w)
      BY <2>3 DEF SynthPutAudio, SynthPutMarks, SynthRelease, SynthFinishDone, SynthFinishFailed, SynthFinish
    <2>4. CASE SynthPublish(w) \/ SynthPublishFails(w) \/ SynthAck(w) \/ SynthCrash(w) \/ SynthDuplicate(w)
      BY <2>4 DEF SynthPublish, SynthPublishFails, SynthAck, SynthCrash, SynthDuplicate
    <2> QED
      BY <2>1, <2>2, <2>3, <2>4 DEF SynthHandler, SynthEnvironment
  <1>3. CASE StitchNext
    <2> PICK w \in StitchWorkers : StitchHandler(w) \/ StitchEnvironment(w)
      BY <1>3 DEF StitchNext
    <2>1. CASE StitchClaim(w) \/ StitchRelease(w)
      BY <1>0, <2>1 DEF StitchClaim, StitchRelease, LooseRows, Absent
    <2>2. CASE StitchFinish(w)
      <3>1. FinalStatus(w) # Absent
        BY DEF FinalStatus, Absent
      <3>2. UNCHANGED book \/ book'.status = FinalStatus(w)
        BY <1>0, <2>2 DEF StitchFinish, LooseRows
      <3> QED
        BY <3>1, <3>2
    <2>3. CASE StitchReceive(w) \/ StitchGet(w) \/ StitchList(w) \/ Concatenate(w) \/ ConcatenateFails(w)
      BY <2>3 DEF StitchReceive, StitchGet, StitchList, Concatenate, ConcatenateFails
    <2>4. CASE PutManifest(w) \/ PutManifestFails(w) \/ StitchAck(w) \/ StitchCrash(w) \/ StitchDuplicate(w)
      BY <2>4 DEF PutManifest, PutManifestFails, StitchAck, StitchCrash, StitchDuplicate
    <2> QED
      BY <2>1, <2>2, <2>3, <2>4 DEF StitchHandler, StitchEnvironment
  <1>4. CASE RemoveNext
    <2>1. UNCHANGED book
      BY <1>4 DEF RemoveNext, RemoveStart, RemoveList, RemovePdf, RemoveMp3, RemoveClips, RemoveManifest,
                  RemoveMarks, RemoveQuery, RemoveChunkRow, RemoveEnds, RemoveCrash
    <2> QED
      BY <2>1
  <1>5. CASE UploadNext
    BY <1>5 DEF UploadNext, ReissueBookUpload, FormExpires, UploadPdf, RepeatEvent
  <1>6. CASE ReadNext /\ UNCHANGED storeVars
    BY <1>6
  <1>7. CASE UNCHANGED vars
    BY <1>7 DEF vars
  <1> QED
    BY <1>1, <1>2, <1>3, <1>4, <1>5, <1>6, <1>7 DEF Next, Step

\* What was there when the request began, of one kind.
Old(kind) == {x \in Remains \ late : x[1] = kind}

\* What is there, thing by thing.
LEMMA RemainsOf ==
  ASSUME NEW x \in Remains
  PROVE  \/ x[1] = "clip" /\ x[2] \in clips
         \/ x[1] = "marks" /\ x[2] \in markDocs
         \/ x[1] = "row" /\ x[2] \in Rows
         \/ x[1] = "pdf" /\ pdf # NoPdf
         \/ x[1] = "mp3" /\ bookMp3.exists # FALSE /\ x = <<"mp3", 0>>
         \/ x[1] = "manifest" /\ manifest.exists # FALSE /\ x = <<"manifest", 0>>
  <1> DEFINE HasPdf == {"pdf" : p \in {pdf} \ {NoPdf}}
             HasMp3 == {"mp3" : b \in {bookMp3.exists} \ {FALSE}}
             HasManifest == {"manifest" : b \in {manifest.exists} \ {FALSE}}
  <1>1. /\ \A k \in HasPdf : k = "pdf" /\ pdf # NoPdf
        /\ \A k \in HasMp3 : k = "mp3" /\ bookMp3.exists # FALSE
        /\ \A k \in HasManifest : k = "manifest" /\ manifest.exists # FALSE
    OBVIOUS
  <1>2. \/ x \in {<<"clip", c>> : c \in clips} \/ x \in {<<"marks", c>> : c \in markDocs}
        \/ x \in {<<"row", c>> : c \in Rows} \/ x \in {<<k, 0>> : k \in HasPdf \cup HasMp3 \cup HasManifest}
    BY DEF Remains
  <1> HIDE DEF HasPdf, HasMp3, HasManifest
  <1>3. CASE x \in {<<"clip", c>> : c \in clips}
    <2> PICK c \in clips : x = <<"clip", c>>
      BY <1>3
    <2>1. x[1] = "clip" /\ x[2] = c
      OBVIOUS
    <2> QED
      BY <2>1
  <1>4. CASE x \in {<<"marks", c>> : c \in markDocs}
    <2> PICK c \in markDocs : x = <<"marks", c>>
      BY <1>4
    <2>1. x[1] = "marks" /\ x[2] = c
      OBVIOUS
    <2> QED
      BY <2>1
  <1>5. CASE x \in {<<"row", c>> : c \in Rows}
    <2> PICK c \in Rows : x = <<"row", c>>
      BY <1>5
    <2>1. x[1] = "row" /\ x[2] = c
      OBVIOUS
    <2> QED
      BY <2>1
  <1>6. CASE x \in {<<k, 0>> : k \in HasPdf \cup HasMp3 \cup HasManifest}
    <2> PICK k \in HasPdf \cup HasMp3 \cup HasManifest : x = <<k, 0>>
      BY <1>6
    <2>1. x[1] = k
      OBVIOUS
    <2> QED
      BY <1>1, <2>1
  <1> QED
    BY <1>2, <1>3, <1>4, <1>5, <1>6

\* An old thing is still in its place.
Present ==
  /\ \A x \in Old("clip") : x[2] \in clips
  /\ \A x \in Old("marks") : x[2] \in markDocs
  /\ \A x \in Old("row") : x[2] \in Rows
  /\ Old("pdf") # {} => pdf # NoPdf
  /\ Old("mp3") # {} => bookMp3.exists # FALSE
  /\ Old("manifest") # {} => manifest.exists # FALSE

LEMMA OldIsThere == Present
  <1>1. ASSUME NEW kind, NEW x \in Old(kind)
        PROVE  /\ kind = "clip" => x[2] \in clips
               /\ kind = "marks" => x[2] \in markDocs
               /\ kind = "row" => x[2] \in Rows
               /\ kind = "pdf" => pdf # NoPdf
               /\ kind = "mp3" => bookMp3.exists # FALSE
               /\ kind = "manifest" => manifest.exists # FALSE
    <2>1. x \in Remains /\ x[1] = kind
      BY DEF Old
    <2> QED
      BY ONLY <2>1, RemainsOf
  <1> QED
    BY <1>1 DEF Present

\* Nothing that is there is of another kind.
LEMMA Kinds ==
  ASSUME NEW x \in Remains
  PROVE  /\ x[1] \in {"clip", "marks", "row", "pdf", "mp3", "manifest"}
         /\ x[1] \in {"mp3", "manifest"} => x = <<x[1], 0>>
  BY ONLY RemainsOf

\* What is there is a pair.
LEMMA Pairs == ASSUME NEW x \in Remains PROVE x = <<x[1], x[2]>>
  <1> SUFFICES \E k, c : x = <<k, c>>
    OBVIOUS
  <1> DEFINE ObjectKinds == {"pdf" : p \in {pdf} \ {NoPdf}} \cup {"mp3" : b \in {bookMp3.exists} \ {FALSE}}
                              \cup {"manifest" : b \in {manifest.exists} \ {FALSE}}
  <1>1. \/ x \in {<<"clip", c>> : c \in clips} \/ x \in {<<"marks", c>> : c \in markDocs}
        \/ x \in {<<"row", c>> : c \in Rows} \/ x \in {<<k, 0>> : k \in ObjectKinds}
    BY DEF Remains
  <1> HIDE DEF ObjectKinds
  <1> QED
    BY <1>1

\* What comes while a request is under way is late; what is old was old.
LEMMA OldShrinks ==
  ASSUME [Next]_vars, removePc' # "idle", NEW kind
  PROVE  Old(kind)' \subseteq Old(kind)
  <1>1. CASE Next
    <2>1. late' = Remains' \ (Remains \ late)
      BY <1>1 DEF Next
    <2> QED
      BY <2>1 DEF Old
  <1>2. CASE UNCHANGED vars
    <2>1. Remains' = Remains /\ late' = late
      BY <1>2 DEF vars, storeVars, tableVars, objectVars, uploadVars, stitcherVars, outputVars, Remains, Rows
    <2> QED
      BY <2>1 DEF Old
  <1> QED
    BY <1>1, <1>2

\* How far the request is: the calls it has still to make.
ToRow == {"idle", "list", "row"}
ToPdf == {"pdf"} \cup ToRow
ToMp3 == {"mp3"} \cup ToPdf
ToClips == {"clips"} \cup ToMp3
ToManifest == {"manifest"} \cup ToClips
ToMarks == {"marks"} \cup ToManifest

\* What the request has left behind of each kind when it is past the call that
\* deletes it.  A key that S3 refused, that no row advertised, or whose chunk a
\* query did not show, may be left.
Passed(calls) == removePc \notin calls \cup {"died"}
Knew == Passed({"idle", "list"}) => \A x \in Old("clip") \cup Old("marks") : x[2] \in seen.chunks \cup seen.keysMissed
PdfGone == Passed(ToPdf) => Old("pdf") = {}
Mp3Gone == Passed(ToMp3) /\ seen.audioKey => Old("mp3") = {}
ClipsGone == Passed(ToClips) /\ ~unclean => \A x \in Old("clip") : x[2] \in seen.keysMissed
ManifestGone == Passed(ToManifest) /\ seen.manifestKey => Old("manifest") = {}
MarksGone == Passed(ToMarks) /\ ~unclean => \A x \in Old("marks") : x[2] \in seen.keysMissed
RowsGone ==
  /\ removePc = "wipe" => \A x \in Old("row") : x[2] \in removeTodo \cup seen.rowsMissed
  /\ removePc = "over" => \A x \in Old("row") : x[2] \in seen.rowsMissed

Progress ==
  /\ Shape
  /\ removePc \in RemovePcs
  /\ seen \in Sights
  /\ removePc \in ToRow => ~Gone
  /\ Knew /\ PdfGone /\ Mp3Gone /\ ClipsGone /\ ManifestGone /\ MarksGone /\ RowsGone

LEMMA ProgressInit == Init => Progress
  <1> SUFFICES ASSUME Init PROVE Progress
    OBVIOUS
  <1>1. removePc = "idle" /\ seen = NothingSeen /\ book = NewBook
    BY DEF Init
  <1>2. ~Gone
    BY <1>1 DEF Gone, NewBook, Absent
  <1> QED
    BY <1>1, <1>2, ShapeInit DEF Progress, RemovePcs, NothingSeen, Sights, Passed, ToRow, ToPdf, ToMp3, ToClips,
          ToManifest, ToMarks, Knew, PdfGone, Mp3Gone, ClipsGone, ManifestGone, MarksGone, RowsGone

\* Nothing that anybody else does brings an old thing back.
LEMMA ProgressElsewhere ==
  ASSUME Progress, [Next]_vars, UNCHANGED removeVars PROVE Progress'
  <1> USE DEF removeVars
  <1>1. Shape'
    BY ShapeStep DEF Progress
  <1>2. (removePc \in ToRow => ~Gone)'
    <2>1. ASSUME removePc \in ToRow PROVE ~RemoveRow
      BY DEF RemoveRow, RemoveGoto, RemoveAt
    <2> QED
      BY <2>1, ThereStays DEF Progress
  <1>3. CASE removePc = "idle"
    BY <1>1, <1>2, <1>3 DEF Progress, Passed, ToRow, ToPdf, ToMp3, ToClips, ToManifest, ToMarks,
          Knew, PdfGone, Mp3Gone, ClipsGone, ManifestGone, MarksGone, RowsGone
  <1>4. CASE removePc # "idle"
    <2>1. \A kind : Old(kind)' \subseteq Old(kind)
      BY <1>4, OldShrinks
    <2>2. /\ Old("clip")' \subseteq Old("clip") /\ Old("marks")' \subseteq Old("marks")
          /\ Old("row")' \subseteq Old("row") /\ Old("pdf")' \subseteq Old("pdf")
          /\ Old("mp3")' \subseteq Old("mp3") /\ Old("manifest")' \subseteq Old("manifest")
      BY <2>1
    <2>3. Knew' /\ PdfGone' /\ Mp3Gone'
      BY <2>2 DEF Progress, Passed, Knew, PdfGone, Mp3Gone
    <2>4. ClipsGone' /\ ManifestGone' /\ MarksGone' /\ RowsGone'
      BY <2>2 DEF Progress, Passed, ClipsGone, ManifestGone, MarksGone, RowsGone
    <2> QED
      BY <1>1, <1>2, <2>3, <2>4 DEF Progress
  <1> QED
    BY <1>3, <1>4

LEMMA ProgressStep ==
  ASSUME Progress, KeepInv, RootInv, [Next]_vars PROVE Progress'
  <1> USE DEF RemoveAt, RemoveGoto
  <1>1. CASE UNCHANGED removeVars
    BY <1>1, ProgressElsewhere
  <1>2. CASE Next /\ RemoveNext
    <2>1. Shape'
      BY ShapeStep DEF Progress
    <2>2. Present /\ Present'
      BY OldIsThere, PTL
    <2>3. ASSUME removePc' # "idle"
          PROVE  /\ Old("clip")' \subseteq Old("clip") /\ Old("marks")' \subseteq Old("marks")
                 /\ Old("row")' \subseteq Old("row") /\ Old("pdf")' \subseteq Old("pdf")
                 /\ Old("mp3")' \subseteq Old("mp3") /\ Old("manifest")' \subseteq Old("manifest")
      <3>1. \A kind : Old(kind)' \subseteq Old(kind)
        BY <2>3, OldShrinks
      <3> QED
        BY <3>1
    <2> USE DEF Progress, RemovePcs, Passed, ToRow, ToPdf, ToMp3, ToClips, ToManifest, ToMarks
    <2>4. CASE RemoveStart
      <3>1. removePc' = "list" /\ ~Gone' /\ seen' \in Sights
        BY <2>4 DEF RemoveStart, Sights, Shape, LooseRows, storeVars, tableVars, Gone
      <3> QED
        BY <2>1, <3>1 DEF Knew, PdfGone, Mp3Gone, ClipsGone, ManifestGone, MarksGone, RowsGone
    <2>5. CASE RemoveList
      <3> PICK unseen \in Unseen : seen' = [seen EXCEPT !.chunks = Rows \ unseen, !.keysMissed = unseen]
        BY <2>5 DEF RemoveList, ListedChunks
      <3>0. unseen \subseteq Rows /\ Rows \subseteq Chunks
        BY DEF Unseen, Rows
      <3>1. /\ removePc' = "row" /\ UNCHANGED book
            /\ seen'.chunks \cup seen'.keysMissed = Rows
            /\ seen' \in Sights
        BY <2>5, <3>0 DEF RemoveList, Sights, storeVars, tableVars
      <3>2. ~Gone /\ ~Gone'
        BY <2>5, <3>1 DEF RemoveList, Gone
      <3>3. clips \cup markDocs \subseteq Rows
        BY <3>2 DEF RootInv, Rooted
      <3>4. Knew'
        BY <2>2, <2>3, <3>1, <3>3 DEF Knew, Present
      <3> QED
        BY <2>1, <3>1, <3>2, <3>4 DEF PdfGone, Mp3Gone, ClipsGone, ManifestGone, MarksGone, RowsGone
    <2>6. CASE RemoveRow
      <3>1. removePc = "row" /\ removePc' = "pdf" /\ UNCHANGED <<seen, removeTodo, unclean>>
        BY <2>6 DEF RemoveRow
      <3> QED
        BY <2>1, <2>3, <3>1 DEF Knew, PdfGone, Mp3Gone, ClipsGone, ManifestGone, MarksGone, RowsGone
    <2>7. CASE RemovePdf
      <3>1. removePc = "pdf" /\ removePc' = "mp3" /\ pdf' = NoPdf /\ UNCHANGED <<seen, removeTodo, unclean>>
        BY <2>7 DEF RemovePdf
      <3> QED
        BY <2>1, <2>2, <2>3, <3>1 DEF Present, Knew, PdfGone, Mp3Gone, ClipsGone, ManifestGone, MarksGone, RowsGone
    <2>8. CASE RemoveMp3
      <3>1. removePc = "mp3" /\ removePc' = "clips" /\ UNCHANGED <<seen, removeTodo, unclean>>
            /\ (seen.audioKey => bookMp3'.exists = FALSE)
        BY <2>8 DEF RemoveMp3, NoMp3
      <3> QED
        BY <2>1, <2>2, <2>3, <3>1 DEF Present, Knew, PdfGone, Mp3Gone, ClipsGone, ManifestGone, MarksGone, RowsGone
    <2>9. CASE RemoveClips
      <3>1. removePc = "clips" /\ removePc' = "manifest" /\ UNCHANGED <<seen, removeTodo>>
            /\ (~unclean' => ~unclean /\ clips' = clips \ seen.chunks)
        BY <2>9 DEF RemoveClips, Deleted
      <3>2. ClipsGone'
        BY <2>2, <2>3, <3>1 DEF Present, Knew, ClipsGone, Sights
      <3> QED
        BY <2>1, <2>3, <3>1, <3>2 DEF Knew, PdfGone, Mp3Gone, ManifestGone, MarksGone, RowsGone
    <2>10. CASE RemoveManifest
      <3>1. removePc = "manifest" /\ removePc' = "marks" /\ UNCHANGED <<seen, removeTodo, unclean>>
            /\ (seen.manifestKey => manifest'.exists = FALSE)
        BY <2>10 DEF RemoveManifest, NoManifest
      <3> QED
        BY <2>1, <2>2, <2>3, <3>1 DEF Present, Knew, PdfGone, Mp3Gone, ClipsGone, ManifestGone, MarksGone, RowsGone
    <2>11. CASE RemoveMarks
      <3>1. removePc = "marks" /\ removePc' = "query" /\ UNCHANGED <<seen, removeTodo>>
            /\ (~unclean' => ~unclean /\ markDocs' = markDocs \ seen.chunks)
        BY <2>11 DEF RemoveMarks, Deleted
      <3>2. MarksGone'
        BY <2>2, <2>3, <3>1 DEF Present, Knew, MarksGone
      <3> QED
        BY <2>1, <2>3, <3>1, <3>2 DEF Knew, PdfGone, Mp3Gone, ClipsGone, ManifestGone, RowsGone
    <2>12. CASE RemoveQuery
      <3> PICK unseen \in Unseen : removeTodo' = Rows \ unseen /\ seen' = [seen EXCEPT !.rowsMissed = unseen]
        BY <2>12 DEF RemoveQuery
      <3>0. unseen \subseteq Chunks
        BY DEF Unseen, Rows
      <3>1. /\ removePc = "query" /\ removePc' = "wipe" /\ UNCHANGED unclean
            /\ removeTodo' \cup seen'.rowsMissed = Rows \cup unseen
            /\ seen' \in Sights /\ seen'.audioKey = seen.audioKey /\ seen'.manifestKey = seen.manifestKey
            /\ seen'.chunks = seen.chunks /\ seen'.keysMissed = seen.keysMissed
        BY <2>12, <3>0 DEF RemoveQuery, Sights
      <3> QED
        BY <2>1, <2>2, <2>3, <3>1 DEF Present, Knew, PdfGone, Mp3Gone, ClipsGone, ManifestGone, MarksGone, RowsGone
    <2>13. CASE \E c \in Chunks : RemoveChunkRow(c)
      <3> PICK c \in Chunks : RemoveChunkRow(c)
        BY <2>13
      <3>1. removePc = "wipe" /\ removePc' = "wipe" /\ UNCHANGED <<seen, unclean>>
            /\ removeTodo' = removeTodo \ {c} /\ c \notin Rows'
        BY DEF RemoveChunkRow, Rows, Shape
      <3>2. RowsGone'
        BY <2>2, <2>3, <3>1 DEF Present, RowsGone
      <3> QED
        BY <2>1, <2>3, <3>1, <3>2 DEF Knew, PdfGone, Mp3Gone, ClipsGone, ManifestGone, MarksGone
    <2>14. CASE RemoveEnds
      <3>1. removePc = "wipe" /\ removePc' = "over" /\ removeTodo = {} /\ UNCHANGED <<seen, removeTodo, unclean>>
        BY <2>14 DEF RemoveEnds
      <3> QED
        BY <2>1, <2>3, <3>1 DEF Knew, PdfGone, Mp3Gone, ClipsGone, ManifestGone, MarksGone, RowsGone
    <2>15. CASE RemoveCrash
      <3>1. removePc' = (IF Gone THEN "died" ELSE "idle") /\ seen' = NothingSeen /\ UNCHANGED book
        BY <2>15 DEF RemoveCrash, Gone, tableVars
      <3>2. seen' \in Sights
        BY <3>1 DEF NothingSeen, Sights
      <3>3. removePc' \in {"died", "idle"} /\ (removePc' = "idle" => ~Gone')
        BY <3>1 DEF Gone
      <3> QED
        BY <2>1, <3>2, <3>3 DEF Knew, PdfGone, Mp3Gone, ClipsGone, ManifestGone, MarksGone, RowsGone
    <2> QED
      BY <1>2, <2>4, <2>5, <2>6, <2>7, <2>8, <2>9, <2>10, <2>11, <2>12, <2>13, <2>14, <2>15 DEF RemoveNext
  <1> QED
    BY <1>1, <1>2 DEF Next, Step, vars

\* However many workers, chunks, crashes and lagging reads: what is left when a
\* deletion has gone through was written after it began, is an output that no
\* row had advertised, or belongs to a chunk that a query did not show.
THEOREM LeftoversFound == Spec => []LeftoversAccountedFor
  <1>1. Init => Progress
    BY ProgressInit
  <1>2. ASSUME Progress, KeepInv /\ RootInv, [Next]_vars PROVE Progress'
    BY <1>2, ProgressStep
  <1>3. ASSUME Progress PROVE LeftoversAccountedFor
    <2> DEFINE Untold == {<<"mp3", 0>> : b \in {seen.audioKey} \ {TRUE}}
                           \cup {<<"manifest", 0>> : b \in {seen.manifestKey} \ {TRUE}}
               Missed == ({"clip", "marks"} \X seen.keysMissed) \cup ({"row"} \X seen.rowsMissed)
    <2> SUFFICES ASSUME removePc = "over", ~unclean, NEW x \in Remains, x \notin late
                 PROVE  x \in Untold \cup Missed
      BY DEF LeftoversAccountedFor
    <2>1. x \in Old(x[1])
      BY DEF Old
    <2>2. /\ \A y \in Old("clip") \cup Old("marks") : y[2] \in seen.keysMissed
          /\ \A y \in Old("row") : y[2] \in seen.rowsMissed
          /\ Old("pdf") = {}
          /\ seen.audioKey => Old("mp3") = {}
          /\ seen.manifestKey => Old("manifest") = {}
      BY <1>3 DEF Progress, Passed, ToRow, ToPdf, ToMp3, ToClips, ToManifest, ToMarks,
                  PdfGone, Mp3Gone, ClipsGone, ManifestGone, MarksGone, RowsGone
    <2>3. \/ x[1] \in {"clip", "marks"} /\ x[2] \in seen.keysMissed
          \/ x[1] = "row" /\ x[2] \in seen.rowsMissed
          \/ x = <<"mp3", 0>> /\ ~seen.audioKey
          \/ x = <<"manifest", 0>> /\ ~seen.manifestKey
      BY <2>1, <2>2, Kinds
    <2>4. (~seen.audioKey => seen.audioKey # TRUE) /\ (~seen.manifestKey => seen.manifestKey # TRUE)
      OBVIOUS
    <2>5. x[1] \in {"clip", "marks", "row"} => x = <<x[1], x[2]>>
      BY Pairs
    <2> QED
      BY <2>3, <2>4, <2>5
  <1> QED
    BY <1>1, <1>2, <1>3, RootAlways, PTL DEF Spec, LeftoversAccountedFor
=============================================================================
