-------------------------- MODULE ExtractionProofs --------------------------
(***************************************************************************)
(* Proofs about the extraction of a book.                                  *)
(*                                                                         *)
(* Of Intake, for any number of chunks, uploads, invocations, sweepers and *)
(* faults: one extraction at a time, a row for every chunk that an         *)
(* extracted book announces, and no narrated chunk wiped.                  *)
(*                                                                         *)
(* Of Cutting, for every text and every three sizes: its chunks tile it,   *)
(* are cut only where they must be, and are on the pages they are said to  *)
(* be on.                                                                  *)
(***************************************************************************)
EXTENDS Intake, Cutting, Recursion, SequenceTheorems, FiniteSetTheorems, TLAPS

-----------------------------------------------------------------------------
(* Intake *)

Fields == {"status", "total", "done", "failed", "audioKey", "manifestKey", "reason"}

\* The extraction is over and its rows are there.
Extracted == {"EXTRACTED", "READY", "PARTIAL"}

\* Where an invocation stands that holds the claim.
Holding == {"read", "list", "wipe", "save", "flip", "fail", "release"}

\* The types of what the proof looks at; no step of Intake deletes the book.
Shape ==
  /\ DOMAIN book = Fields
  /\ book.status \in BookStatus
  /\ book.total \in 0 .. MaxChunks
  /\ chunk \in [Chunks -> ChunkStatus \cup {Absent}]
  /\ synthQueue \in [SynthBodies -> Nat]
  /\ pdf \in Pdfs \cup {NoPdf}
  /\ extractPc \in [ExtractWorkers -> ExtractPcs]
  /\ extractSize \in [ExtractWorkers -> 0 .. MaxChunks]
  /\ extractTodo \in [ExtractWorkers -> SUBSET Chunks]

\* Whoever holds the claim holds it alone, and the status says so.
Exclusive ==
  \A w \in ExtractWorkers : extractPc[w] \in Holding =>
    /\ book.status = "EXTRACTING"
    /\ \A v \in ExtractWorkers : extractPc[v] \in Holding => v = w

\* Chunk messages are sent of an extracted book only.
FansOut ==
  \A w \in ExtractWorkers : extractPc[w] = "enqueue" => book.status \in Extracted

\* How far the rows have got when an extraction stands at its writes.
Progress(w) ==
  /\ extractPc[w] = "wipe" => Rows = extractTodo[w]
  /\ extractPc[w] = "save" => Rows \cup extractTodo[w] = 0 .. extractSize[w] - 1
  /\ extractPc[w] = "flip" => Rows = 0 .. extractSize[w] - 1

\* An extracted book has the rows it announces; before that nothing was narrated
\* and no message asks for it.
Announced ==
  /\ book.status \in Extracted => Rows = 0 .. book.total - 1
  /\ book.status \notin Extracted =>
       /\ \A b \in SynthBodies : synthQueue[b] = 0
       /\ \A c \in Chunks : chunk[c] # "DONE"

Orderly ==
  Exclusive /\ FansOut /\ (\A w \in ExtractWorkers : Progress(w)) /\ Announced

\* Until the sweeper fails a book under a live extraction.
IntakeInv == Shape /\ (~failedLive => Orderly)

LEMMA IntakeInit == Init => IntakeInv
  <1> SUFFICES ASSUME Init PROVE IntakeInv
    OBVIOUS
  <1> USE StoreAssumption DEF Init, UploadInit, ExtractInit
  <1>1. Shape
    BY DEF Shape, Fields, NewBook, BookStatus, Pdfs, ExtractPcs
  <1>2. Exclusive /\ FansOut /\ \A w \in ExtractWorkers : Progress(w)
    BY DEF Exclusive, Holding, FansOut, Progress
  <1>3. Announced
    BY DEF Announced, Extracted, NewBook, Absent
  <1> QED
    BY <1>1, <1>2, <1>3 DEF IntakeInv, Orderly

-----------------------------------------------------------------------------
(* Types *)

LEMMA ChunksBelow == ASSUME NEW n \in 0 .. MaxChunks PROVE 0 .. n - 1 \in SUBSET Chunks
  BY StoreAssumption DEF Chunks

LEMMA MessagesTyped ==
  ASSUME synthQueue \in [SynthBodies -> Nat], NEW cs
  PROVE  WithChunkMessages(synthQueue, cs) \in [SynthBodies -> Nat]
  BY DEF WithChunkMessages

LEMMA ShapeExtract ==
  ASSUME Shape, NEW w \in ExtractWorkers, ExtractHandler(w) \/ ExtractCrash(w)
  PROVE  Shape'
  <1> USE DEF storeVars, tableVars, objectVars, queueVars, uploadVars, heldVars, ExtractGoto, ExtractAt
  <1>1. CASE ExtractReceive(w) \/ ExtractAck(w) \/ ExtractTransient(w) \/ ExtractCrash(w)
    <2>1. UNCHANGED <<book, chunk, synthQueue, pdf>>
      BY <1>1 DEF ExtractReceive, ExtractAck, ExtractTransient, ExtractCrash
    <2>2. \/ UNCHANGED <<extractSize, extractTodo>>
          \/ extractSize' = [extractSize EXCEPT ![w] = 0] /\ extractTodo' = [extractTodo EXCEPT ![w] = {}]
      BY <1>1 DEF ExtractReceive, ExtractAck, ExtractTransient, ExtractCrash, ExtractRaise, ExtractStop
    <2>3. \E next \in ExtractPcs : extractPc' = [extractPc EXCEPT ![w] = next]
      BY <1>1 DEF ExtractReceive, ExtractAck, ExtractTransient, ExtractCrash, ExtractRaise, ExtractStop, ExtractPcs
    <2> QED
      BY StoreAssumption, <2>1, <2>2, <2>3 DEF Shape
  <1>2. CASE ExtractGet(w) \/ ExtractRead(w)
    <2>1. UNCHANGED <<book, chunk, synthQueue, pdf, extractTodo>>
      BY <1>2 DEF ExtractGet, ExtractRead
    <2>2. pdf # NoPdf => pdf \in 0 .. MaxChunks
      BY DEF Shape, Pdfs
    <2>3. \/ UNCHANGED extractSize
          \/ \E n \in 0 .. MaxChunks : extractSize' = [extractSize EXCEPT ![w] = n]
      BY <1>2, <2>2 DEF ExtractGet, ExtractRead, Shape
    <2>4. \E next \in ExtractPcs : extractPc' = [extractPc EXCEPT ![w] = next]
      BY <1>2 DEF ExtractGet, ExtractRead, ExtractPcs
    <2> QED
      BY <2>1, <2>3, <2>4 DEF Shape
  <1>3. CASE ExtractClaim(w) \/ ExtractFlip(w) \/ ExtractFail(w) \/ ExtractRelease(w)
    <2>1. UNCHANGED <<chunk, synthQueue, pdf>>
      BY <1>3 DEF ExtractClaim, ExtractFlip, ExtractFail, ExtractRelease
    <2>2. \/ UNCHANGED <<extractSize, extractTodo>>
          \/ extractSize' = [extractSize EXCEPT ![w] = 0] /\ extractTodo' = [extractTodo EXCEPT ![w] = {}]
      BY <1>3 DEF ExtractClaim, ExtractFlip, ExtractFail, ExtractRelease, ExtractRaise, ExtractStop
    <2>3. \E next \in ExtractPcs : extractPc' = [extractPc EXCEPT ![w] = next]
      BY <1>3 DEF ExtractClaim, ExtractFlip, ExtractFail, ExtractRelease, ExtractRaise, ExtractStop, ExtractPcs
    <2>4. \/ UNCHANGED book
          \/ \E s \in BookStatus : book' = [book EXCEPT !.status = s]
          \/ book' = ExtractedBook(extractSize[w])
          \/ book' = [book EXCEPT !.status = "FAILED", !.reason = "EXTRACTION"]
      BY <1>3 DEF ExtractClaim, ExtractFlip, ExtractFail, ExtractRelease, BookStatus
    <2>5. /\ DOMAIN book' = Fields /\ book'.status \in BookStatus
          /\ book'.total \in 0 .. MaxChunks
      BY <2>4 DEF Shape, Fields, ExtractedBook, NewBook, BookStatus
    <2> QED
      BY StoreAssumption, <2>1, <2>2, <2>3, <2>5 DEF Shape
  <1>4. CASE ExtractList(w) \/ ExtractWiped(w)
    <2>1. UNCHANGED <<book, chunk, synthQueue, pdf, extractSize>>
      BY <1>4 DEF ExtractList, ExtractWiped
    <2>2. \E cs \in SUBSET Chunks : extractTodo' = [extractTodo EXCEPT ![w] = cs]
      BY <1>4, ChunksBelow DEF ExtractList, ExtractWiped, Rows, Shape
    <2>3. \E next \in ExtractPcs : extractPc' = [extractPc EXCEPT ![w] = next]
      BY <1>4 DEF ExtractList, ExtractWiped, ExtractPcs
    <2> QED
      BY <2>1, <2>2, <2>3 DEF Shape
  <1>5. CASE ExtractWipeRow(w) \/ ExtractSaveRow(w)
    <2>1. UNCHANGED <<book, synthQueue, pdf, extractSize>>
      BY <1>5 DEF ExtractWipeRow, ExtractSaveRow
    <2>2. \E c \in Chunks, status \in ChunkStatus \cup {Absent} :
            /\ chunk' = [chunk EXCEPT ![c] = status] /\ extractTodo' = [extractTodo EXCEPT ![w] = @ \ {c}]
      BY <1>5 DEF ExtractWipeRow, ExtractSaveRow, ChunkStatus, Shape
    <2>3. UNCHANGED extractPc \/ \E next \in ExtractPcs : extractPc' = [extractPc EXCEPT ![w] = next]
      BY <1>5 DEF ExtractWipeRow, ExtractSaveRow, ExtractPcs
    <2> QED
      BY <2>1, <2>2, <2>3 DEF Shape
  <1>6. CASE ExtractEnqueue(w) \/ ExtractEnqueueFails(w)
    <2>1. UNCHANGED <<book, chunk, pdf>>
      BY <1>6 DEF ExtractEnqueue, ExtractEnqueueFails
    <2>2. \/ UNCHANGED <<extractSize, extractTodo>>
          \/ extractSize' = [extractSize EXCEPT ![w] = 0] /\ extractTodo' = [extractTodo EXCEPT ![w] = {}]
      BY <1>6 DEF ExtractEnqueue, ExtractEnqueueFails, ExtractRaise, ExtractStop
    <2>3. \E next \in ExtractPcs : extractPc' = [extractPc EXCEPT ![w] = next]
      BY <1>6 DEF ExtractEnqueue, ExtractEnqueueFails, ExtractRaise, ExtractStop, ExtractPcs
    <2>4. \E cs : synthQueue' = WithChunkMessages(synthQueue, cs)
      BY <1>6 DEF ExtractEnqueue, ExtractEnqueueFails
    <2> QED
      BY StoreAssumption, MessagesTyped, <2>1, <2>2, <2>3, <2>4 DEF Shape
  <1> QED
    BY <1>1, <1>2, <1>3, <1>4, <1>5, <1>6 DEF ExtractHandler

LEMMA ShapeNarrator ==
  ASSUME Shape, Narrator, UNCHANGED <<uploadVars, extractVars>>
  PROVE  Shape'
  <1>0. UNCHANGED <<pdf, extractPc, extractSize, extractTodo>>
    BY DEF uploadVars, extractVars, heldVars
  <1>1. CASE StitchRows
    <2>1. \E s \in BookStatus, a \in BOOLEAN : book' = [book EXCEPT !.status = s, !.audioKey = a, !.manifestKey = TRUE]
      BY <1>1 DEF StitchRows, BookStatus
    <2>2. UNCHANGED <<chunk, synthQueue>>
      BY <1>1 DEF StitchRows, queueVars
    <2> QED
      BY <1>0, <2>1, <2>2 DEF Shape, Fields
  <1>2. CASE NarrateChunk
    <2> PICK b \in SynthBodies :
          /\ synthQueue[b] > 0
          /\ synthQueue' = [synthQueue EXCEPT ![b] = @ - 1]
          /\ \/ chunk' = [chunk EXCEPT ![b[1]] = "DONE"] /\ book' = [book EXCEPT !.done = @ + 1]
             \/ UNCHANGED <<book, chunk>>
      BY <1>2 DEF NarrateChunk, tableVars
    <2>1. synthQueue' \in [SynthBodies -> Nat]
      BY DEF Shape
    <2> QED
      BY <1>0, <2>1 DEF Shape, Fields, ChunkStatus
  <1> QED
    BY <1>1, <1>2 DEF Narrator

-----------------------------------------------------------------------------
(* Order *)

\* A step of one invocation is none of another.
OthersStay(w) ==
  \A v \in ExtractWorkers : v # w =>
    /\ extractPc'[v] = extractPc[v]
    /\ extractSize'[v] = extractSize[v]
    /\ extractTodo'[v] = extractTodo[v]

LEMMA OneAtATime ==
  ASSUME Shape, NEW w \in ExtractWorkers, ExtractHandler(w) \/ ExtractCrash(w)
  PROVE  OthersStay(w)
  <1> USE DEF Shape, OthersStay, ExtractGoto, ExtractRaise, ExtractStop, heldVars
  <1>1. CASE ExtractReceive(w) \/ ExtractGet(w) \/ ExtractClaim(w) \/ ExtractRead(w)
    BY <1>1 DEF ExtractReceive, ExtractGet, ExtractClaim, ExtractRead
  <1>2. CASE ExtractList(w) \/ ExtractWipeRow(w) \/ ExtractWiped(w) \/ ExtractSaveRow(w)
    BY <1>2 DEF ExtractList, ExtractWipeRow, ExtractWiped, ExtractSaveRow
  <1>3. CASE ExtractFlip(w) \/ ExtractEnqueue(w) \/ ExtractEnqueueFails(w)
    BY <1>3 DEF ExtractFlip, ExtractEnqueue, ExtractEnqueueFails
  <1>4. CASE ExtractFail(w) \/ ExtractTransient(w) \/ ExtractRelease(w) \/ ExtractAck(w) \/ ExtractCrash(w)
    BY <1>4 DEF ExtractFail, ExtractTransient, ExtractRelease, ExtractAck, ExtractCrash
  <1> QED
    BY <1>1, <1>2, <1>3, <1>4 DEF ExtractHandler

\* An invocation that goes on, or ends, without touching the book or the rows.
LEMMA OrderedMove ==
  ASSUME Shape, Orderly, NEW w \in ExtractWorkers, OthersStay(w), UNCHANGED <<book, chunk, synthQueue>>,
         extractPc'[w] \in Holding => extractPc[w] \in Holding,
         extractPc'[w] = "enqueue" => book.status \in Extracted,
         Progress(w)'
  PROVE  Orderly'
  <1>1. Exclusive'
    BY DEF Orderly, Exclusive, OthersStay
  <1>2. FansOut'
    BY DEF Orderly, FansOut, OthersStay
  <1>3. Rows' = Rows
    BY DEF Rows
  <1>4. \A v \in ExtractWorkers : Progress(v)'
    BY <1>3 DEF Orderly, Progress, OthersStay
  <1>5. Announced'
    BY <1>3 DEF Orderly, Announced
  <1> QED
    BY <1>1, <1>2, <1>4, <1>5 DEF Orderly

\* The holder of the claim gives it up, with or without an extracted book.
LEMMA OrderedRelease ==
  ASSUME Shape, Orderly, NEW w \in ExtractWorkers, OthersStay(w), extractPc[w] \in Holding,
         extractPc'[w] \notin Holding, UNCHANGED <<chunk, synthQueue>>,
         book'.status \in Extracted => Rows = 0 .. book'.total - 1,
         extractPc'[w] = "enqueue" => book'.status \in Extracted
  PROVE  Orderly'
  <1>0. /\ book.status = "EXTRACTING"
        /\ \A v \in ExtractWorkers : extractPc[v] \in Holding => v = w
    BY DEF Orderly, Exclusive
  <1>1. Exclusive'
    BY <1>0 DEF Exclusive, OthersStay
  <1>2. FansOut'
    BY <1>0 DEF Orderly, FansOut, OthersStay, Extracted
  <1>3. \A v \in ExtractWorkers : Progress(v)'
    BY <1>0 DEF Progress, OthersStay, Holding
  <1>4. Announced'
    BY <1>0 DEF Orderly, Announced, Extracted, Rows
  <1> QED
    BY <1>1, <1>2, <1>3, <1>4 DEF Orderly

\* The holder of the claim writes one row, which is not DONE.
LEMMA OrderedWrite ==
  ASSUME Shape, Orderly, NEW w \in ExtractWorkers, OthersStay(w), extractPc[w] \in Holding,
         extractPc'[w] \in Holding, UNCHANGED <<book, synthQueue>>,
         NEW c, NEW status, status # "DONE", chunk' = [chunk EXCEPT ![c] = status],
         Progress(w)'
  PROVE  Orderly'
  <1>0. /\ book.status = "EXTRACTING"
        /\ \A v \in ExtractWorkers : extractPc[v] \in Holding => v = w
    BY DEF Orderly, Exclusive
  <1>1. Exclusive'
    BY <1>0 DEF Exclusive, OthersStay
  <1>2. FansOut'
    BY <1>0 DEF Orderly, FansOut, OthersStay, Holding
  <1>3. \A v \in ExtractWorkers : Progress(v)'
    BY <1>0 DEF Progress, OthersStay, Holding
  <1>4. Announced'
    BY <1>0 DEF Orderly, Announced, Extracted, Shape
  <1> QED
    BY <1>1, <1>2, <1>3, <1>4 DEF Orderly

LEMMA RowsWritten ==
  ASSUME Shape, NEW c \in Chunks, NEW status, chunk' = [chunk EXCEPT ![c] = status]
  PROVE  /\ status = Absent => Rows' = Rows \ {c}
         /\ status # Absent => Rows' = Rows \cup {c}
  BY DEF Shape, Rows

LEMMA OrderedExtract ==
  ASSUME Shape, Orderly, NEW w \in ExtractWorkers, ExtractHandler(w) \/ ExtractCrash(w)
  PROVE  Orderly'
  <1> USE DEF storeVars, tableVars, objectVars, queueVars, uploadVars, heldVars, ExtractGoto, ExtractAt, Holding
  <1>0. OthersStay(w) /\ Progress(w) /\ extractPc \in [ExtractWorkers -> ExtractPcs]
    BY OneAtATime DEF Orderly, Shape
  <1>1. CASE ExtractReceive(w) \/ ExtractAck(w) \/ ExtractTransient(w) \/ ExtractCrash(w)
    <2>1. UNCHANGED <<book, chunk, synthQueue>>
      BY <1>1 DEF ExtractReceive, ExtractAck, ExtractTransient, ExtractCrash
    <2>2. \/ extractPc'[w] \in {"get", "idle"}
          \/ extractPc'[w] = "release" /\ extractPc[w] \in Holding
      BY <1>0, <1>1 DEF ExtractReceive, ExtractAck, ExtractTransient, ExtractCrash, ExtractRaise, ExtractStop
    <2>3. Progress(w)'
      BY <2>2 DEF Progress
    <2> QED
      BY <1>0, <2>1, <2>2, <2>3, OrderedMove
  <1>2. CASE ExtractGet(w)
    <2>1. /\ UNCHANGED <<book, chunk, synthQueue>> /\ extractPc'[w] \in {"enqueue", "ack", "claim"}
          /\ extractPc'[w] = "enqueue" => book.status \in Extracted
      BY <1>0, <1>2 DEF ExtractGet, Extracted
    <2>2. Progress(w)'
      BY <2>1 DEF Progress
    <2> QED
      BY <1>0, <2>1, <2>2, OrderedMove
  <1>3. CASE ExtractClaim(w) /\ book.status \notin ClaimableStatuses
    <2>1. UNCHANGED <<book, chunk, synthQueue>> /\ extractPc'[w] = "ack"
      BY <1>0, <1>3 DEF ExtractClaim
    <2>2. Progress(w)'
      BY <2>1 DEF Progress
    <2> QED
      BY <1>0, <2>1, <2>2, OrderedMove
  <1>4. CASE ExtractClaim(w) /\ book.status \in ClaimableStatuses
    <2>1. /\ UNCHANGED <<chunk, synthQueue>> /\ extractPc'[w] = "read"
          /\ book' = [book EXCEPT !.status = "EXTRACTING"]
      BY <1>0, <1>4 DEF ExtractClaim
    <2>2. book'.status = "EXTRACTING" /\ book.status \notin Extracted \cup {"EXTRACTING"}
      BY <1>4, <2>1 DEF Shape, Fields, Extracted, ClaimableStatuses
    <2>3. \A v \in ExtractWorkers : extractPc[v] \notin Holding
      BY <2>2 DEF Orderly, Exclusive
    <2>4. Exclusive'
      BY <1>0, <2>2, <2>3 DEF Exclusive, OthersStay
    <2>5. FansOut'
      BY <1>0, <2>1, <2>2 DEF Orderly, FansOut, OthersStay
    <2>6. \A v \in ExtractWorkers : Progress(v)'
      BY <1>0, <2>1, <2>3 DEF Progress, OthersStay
    <2>7. Announced'
      BY <2>1, <2>2 DEF Orderly, Announced, Extracted
    <2> QED
      BY <2>4, <2>5, <2>6, <2>7 DEF Orderly
  <1>5. CASE ExtractRead(w) \/ ExtractList(w)
    <2>1. /\ UNCHANGED <<book, chunk, synthQueue>> /\ extractPc[w] \in {"read", "list"}
          /\ extractPc'[w] \in {"fail", "list", "wipe"}
          /\ extractPc'[w] = "wipe" => extractTodo'[w] = Rows
      BY <1>0, <1>5 DEF ExtractRead, ExtractList, Shape
    <2>2. Progress(w)'
      BY <2>1 DEF Progress, Rows
    <2> QED
      BY <1>0, <2>1, <2>2, OrderedMove
  <1>6. CASE ExtractWipeRow(w)
    <2> PICK c \in extractTodo[w] :
          /\ chunk' = [chunk EXCEPT ![c] = Absent]
          /\ extractTodo' = [extractTodo EXCEPT ![w] = @ \ {c}]
      BY <1>6 DEF ExtractWipeRow
    <2>1. UNCHANGED <<book, synthQueue, extractPc>> /\ extractPc[w] = "wipe"
      BY <1>6 DEF ExtractWipeRow
    <2>2. c \in Chunks /\ extractTodo'[w] = extractTodo[w] \ {c}
      BY DEF Shape
    <2>3. Rows' = Rows \ {c}
      BY <2>2, RowsWritten
    <2>4. Progress(w)'
      BY <1>0, <2>1, <2>2, <2>3 DEF Progress
    <2> QED
      BY <1>0, <2>1, <2>4, OrderedWrite DEF Absent
  <1>7. CASE ExtractWiped(w)
    <2>1. /\ UNCHANGED <<book, chunk, synthQueue, extractSize>> /\ extractPc[w] = "wipe"
          /\ extractTodo[w] = {} /\ extractTodo'[w] = 0 .. extractSize[w] - 1 /\ extractPc'[w] = "save"
      BY <1>0, <1>7 DEF ExtractWiped, Shape
    <2>2. Rows' = {}
      BY <1>0, <2>1 DEF Progress, Rows
    <2>3. Progress(w)'
      BY <2>1, <2>2 DEF Progress
    <2> QED
      BY <1>0, <2>1, <2>3, OrderedMove
  <1>8. CASE ExtractSaveRow(w)
    <2> PICK c \in extractTodo[w] :
          /\ chunk' = [chunk EXCEPT ![c] = "PENDING"]
          /\ extractTodo' = [extractTodo EXCEPT ![w] = @ \ {c}]
          /\ extractPc' = [extractPc EXCEPT ![w] = IF extractTodo[w] = {c} THEN "flip" ELSE "save"]
      BY <1>8 DEF ExtractSaveRow
    <2>1. UNCHANGED <<book, synthQueue, extractSize>> /\ extractPc[w] = "save"
      BY <1>8 DEF ExtractSaveRow
    <2>2. c \in Chunks /\ extractTodo'[w] = extractTodo[w] \ {c}
      BY DEF Shape
    <2>3. Rows' = Rows \cup {c}
      <3>1. "PENDING" # Absent
        BY DEF Absent
      <3> QED
        BY <2>2, <3>1, RowsWritten
    <2>4. Rows \cup extractTodo[w] = 0 .. extractSize[w] - 1
      BY <1>0, <2>1 DEF Progress
    <2>5. /\ extractPc'[w] \in {"flip", "save"}
          /\ extractPc'[w] = "flip" => extractTodo[w] = {c}
      BY <1>0
    <2>6. Progress(w)'
      BY <2>1, <2>2, <2>3, <2>4, <2>5 DEF Progress
    <2> QED
      BY <1>0, <2>1, <2>5, <2>6, OrderedWrite
  <1>9. CASE ExtractFlip(w) \/ ExtractFail(w) \/ ExtractRelease(w)
    <2>1. UNCHANGED <<chunk, synthQueue>> /\ extractPc[w] \in {"flip", "fail", "release"}
      BY <1>9 DEF ExtractFlip, ExtractFail, ExtractRelease
    <2>2. book.status = "EXTRACTING"
      BY <2>1 DEF Orderly, Exclusive
    <2>3. extractPc'[w] \in {"enqueue", "ack", "idle"}
      BY <1>0, <1>9 DEF ExtractFlip, ExtractFail, ExtractRelease, ExtractRaise, ExtractStop
    <2>4. \/ extractPc[w] = "flip" /\ book' = ExtractedBook(extractSize[w])
          \/ /\ extractPc'[w] # "enqueue"
             /\ \/ book' = [book EXCEPT !.status = "FAILED", !.reason = "EXTRACTION"]
                \/ book' = [book EXCEPT !.status = "UPLOADED"]
      BY <1>0, <1>9, <2>2 DEF ExtractFlip, ExtractFail, ExtractRelease, ExtractRaise, ExtractStop, Absent
    <2>5. /\ book'.status \in Extracted => Rows = 0 .. book'.total - 1
          /\ extractPc'[w] = "enqueue" => book'.status \in Extracted
      BY <1>0, <2>4 DEF Progress, Shape, Fields, ExtractedBook, NewBook, Extracted
    <2> QED
      BY <1>0, <2>1, <2>3, <2>5, OrderedRelease
  <1>10. CASE ExtractEnqueue(w) \/ ExtractEnqueueFails(w)
    <2>1. UNCHANGED <<book, chunk>> /\ extractPc[w] = "enqueue" /\ extractPc'[w] \in {"ack", "idle"}
      BY <1>0, <1>10 DEF ExtractEnqueue, ExtractEnqueueFails, ExtractRaise, ExtractStop
    <2>2. book.status \in Extracted /\ Rows' = Rows
      BY <2>1 DEF Orderly, FansOut, Rows
    <2>3. Exclusive'
      BY <1>0, <2>1 DEF Orderly, Exclusive, OthersStay
    <2>4. FansOut'
      BY <2>1, <2>2 DEF FansOut
    <2>5. \A v \in ExtractWorkers : Progress(v)'
      BY <1>0, <2>1, <2>2 DEF Orderly, Progress, OthersStay
    <2>6. Announced'
      BY <2>1, <2>2 DEF Orderly, Announced
    <2> QED
      BY <2>3, <2>4, <2>5, <2>6 DEF Orderly
  <1> QED
    BY <1>1, <1>2, <1>3, <1>4, <1>5, <1>6, <1>7, <1>8, <1>9, <1>10 DEF ExtractHandler

\* Narrating an extracted book changes no row's presence.
LEMMA OrderedNarrator ==
  ASSUME Shape, Orderly, Narrator, UNCHANGED <<uploadVars, extractVars>>
  PROVE  Orderly'
  <1>0. UNCHANGED <<extractPc, extractSize, extractTodo>>
    BY DEF extractVars, heldVars
  <1>1. CASE StitchRows
    <2>1. UNCHANGED <<chunk, synthQueue>> /\ Rows' = Rows
      BY <1>1 DEF StitchRows, queueVars, Rows
    <2>2. book.status = "EXTRACTED" /\ book'.status \in Extracted /\ book'.total = book.total
      BY <1>1 DEF StitchRows, Shape, Fields, Extracted
    <2>3. Exclusive' /\ FansOut'
      BY <1>0, <2>2 DEF Orderly, Exclusive, FansOut
    <2>4. \A w \in ExtractWorkers : Progress(w)'
      BY <1>0, <2>1 DEF Orderly, Progress
    <2>5. Announced'
      BY <2>1, <2>2 DEF Orderly, Announced, Extracted
    <2> QED
      BY <2>3, <2>4, <2>5 DEF Orderly
  <1>2. CASE NarrateChunk
    <2> PICK b \in SynthBodies :
          /\ synthQueue[b] > 0
          /\ \/ /\ chunk[b[1]] \in NonTerminalChunkStatuses
                /\ chunk' = [chunk EXCEPT ![b[1]] = "DONE"]
                /\ book' = [book EXCEPT !.done = @ + 1]
             \/ UNCHANGED <<book, chunk>>
      BY <1>2 DEF NarrateChunk, tableVars
    <2>1. book'.status = book.status /\ book'.total = book.total
      BY DEF Shape, Fields
    <2>2. book.status \in Extracted
      BY DEF Orderly, Announced, Shape
    <2>3. Rows' = Rows
      BY DEF Rows, Shape, NonTerminalChunkStatuses, Absent
    <2>4. Exclusive' /\ FansOut'
      BY <1>0, <2>1 DEF Orderly, Exclusive, FansOut
    <2>5. \A w \in ExtractWorkers : Progress(w)'
      BY <1>0, <2>3 DEF Orderly, Progress
    <2>6. Announced'
      BY <2>1, <2>2, <2>3 DEF Orderly, Announced
    <2> QED
      BY <2>4, <2>5, <2>6 DEF Orderly
  <1> QED
    BY <1>1, <1>2 DEF Narrator

\* The sweeper fails a book that nobody is extracting, or leaves a trace.
LEMMA SweepStep ==
  ASSUME Shape, XSweepNext, UNCHANGED extractVars
  PROVE  /\ Shape'
         /\ failedLive => failedLive'
         /\ Orderly /\ ~failedLive' => Orderly'
  <1> PICK w \in ExtractSweepers : XSweepHandler(w) \/ XSweepCrash(w)
    BY DEF XSweepNext
  <1> USE DEF storeVars, tableVars, uploadVars
  <1>0. UNCHANGED <<extractPc, extractSize, extractTodo>>
    BY DEF extractVars, heldVars
  <1>1. CASE XSweepFinalize(w) /\ book.status \in StrandedExtractStatuses
    <2>1. /\ UNCHANGED <<chunk, synthQueue, pdf>>
          /\ book' = [book EXCEPT !.status = "FAILED", !.reason = "DLQ_EXHAUSTED"]
          /\ failedLive' = (failedLive \/ LiveExtractors # {})
      BY <1>1 DEF XSweepFinalize, queueVars
    <2>2. /\ DOMAIN book' = Fields /\ book'.status = "FAILED" /\ book'.total = book.total
          /\ book.status \notin Extracted
      BY <1>1, <2>1 DEF Shape, Fields, StrandedExtractStatuses, Extracted
    <2>3. Shape'
      BY <1>0, <2>1, <2>2 DEF Shape, BookStatus
    <2>4. ASSUME Orderly, ~failedLive' PROVE Orderly'
      <3>1. \A v \in ExtractWorkers : extractPc'[v] \notin Holding
        BY <1>0, <2>1, <2>4 DEF LiveExtractors, Holding
      <3>2. Exclusive' /\ \A v \in ExtractWorkers : Progress(v)'
        BY <3>1 DEF Exclusive, Progress, Holding
      <3>3. FansOut'
        BY <1>0, <2>2, <2>4 DEF Orderly, FansOut
      <3>4. Announced'
        BY <2>1, <2>2, <2>4 DEF Orderly, Announced, Extracted
      <3> QED
        BY <3>2, <3>3, <3>4 DEF Orderly
    <2> QED
      BY <2>1, <2>3, <2>4
  <1>2. CASE \/ XSweepFinalize(w) /\ book.status \notin StrandedExtractStatuses
             \/ XSweepReceive(w) \/ XSweepGet(w) \/ XSweepAck(w) \/ XSweepCrash(w)
    <2>1. UNCHANGED <<book, chunk, synthQueue, pdf, failedLive>>
      BY <1>2 DEF XSweepFinalize, XSweepReceive, XSweepGet, XSweepAck, XSweepCrash, queueVars
    <2>2. Shape'
      BY <1>0, <2>1 DEF Shape
    <2>3. Orderly => Orderly'
      BY <1>0, <2>1 DEF Orderly, Exclusive, FansOut, Progress, Announced, Rows
    <2> QED
      BY <2>1, <2>2, <2>3
  <1> QED
    BY <1>1, <1>2 DEF XSweepHandler

LEMMA IntakeStep == ASSUME IntakeInv, [Next]_vars PROVE IntakeInv' /\ (failedLive => failedLive')
  <1> USE DEF IntakeInv
  <1>1. CASE UploadNext /\ UNCHANGED <<extractVars, xsweepVars>>
    <2>1. /\ UNCHANGED <<book, chunk, synthQueue, extractPc, extractSize, extractTodo, failedLive>>
          /\ pdf' \in Pdfs \cup {NoPdf}
      BY <1>1 DEF UploadNext, ReissueBookUpload, FormExpires, UploadPdf, RepeatEvent, Shape,
                  storeVars, tableVars, queueVars, extractVars, heldVars, xsweepVars
    <2>2. Shape'
      BY <2>1 DEF Shape
    <2>3. Orderly => Orderly'
      BY <2>1 DEF Orderly, Exclusive, FansOut, Progress, Announced, Rows
    <2> QED
      BY <2>1, <2>2, <2>3
  <1>2. CASE ExtractNext /\ UNCHANGED xsweepVars
    <2> PICK w \in ExtractWorkers : ExtractHandler(w) \/ ExtractCrash(w)
      BY <1>2 DEF ExtractNext
    <2>1. UNCHANGED failedLive
      BY <1>2 DEF xsweepVars
    <2> QED
      BY <2>1, ShapeExtract, OrderedExtract
  <1>3. CASE XSweepNext /\ UNCHANGED extractVars
    BY <1>3, SweepStep
  <1>4. CASE Narrator /\ UNCHANGED <<uploadVars, extractVars, xsweepVars>>
    <2>1. UNCHANGED failedLive
      BY <1>4 DEF xsweepVars
    <2> QED
      BY <1>4, <2>1, ShapeNarrator, OrderedNarrator
  <1>5. CASE UNCHANGED vars
    <2>1. UNCHANGED <<book, chunk, synthQueue, pdf, extractPc, extractSize, extractTodo, failedLive>>
      BY <1>5 DEF vars, storeVars, tableVars, queueVars, uploadVars, extractVars, heldVars, xsweepVars
    <2>2. Shape'
      BY <2>1 DEF Shape
    <2>3. Orderly => Orderly'
      BY <2>1 DEF Orderly, Exclusive, FansOut, Progress, Announced, Rows
    <2> QED
      BY <2>1, <2>2, <2>3
  <1> QED
    BY <1>1, <1>2, <1>3, <1>4, <1>5 DEF Next

-----------------------------------------------------------------------------
(* Theorems *)

\* Along every behaviour, until a book is failed under a live extraction, the
\* claim is held once, and rows, messages and status fit together.
THEOREM IntakeIsOrderly == Spec => []IntakeInv
  <1>1. Init => IntakeInv
    BY IntakeInit
  <1>2. IntakeInv /\ [Next]_vars => IntakeInv'
    BY IntakeStep
  <1> QED
    BY <1>1, <1>2, PTL DEF Spec

\* Of however many invocations at most one extracts the book, over releases,
\* failures, uploads and redeliveries (extraction.py:108-123).
THEOREM ExtractsAlone == Spec => []OneExtraction
  <1>1. IntakeInv => OneExtraction
    <2> SUFFICES ASSUME IntakeInv, ~failedLive PROVE Cardinality(LiveExtractors) <= 1
      BY DEF OneExtraction
    <2>1. CASE LiveExtractors = {}
      BY <2>1, FS_EmptySet
    <2>2. CASE LiveExtractors # {}
      <3> PICK w \in ExtractWorkers : extractPc[w] \in Holding
        BY <2>2 DEF LiveExtractors, Holding
      <3>1. LiveExtractors = {w}
        BY DEF IntakeInv, Orderly, Exclusive, LiveExtractors, Holding
      <3>2. Cardinality({w}) = 1
        BY FS_Singleton
      <3> QED
        BY <3>1, <3>2
    <2> QED
      BY <2>1, <2>2
  <1> QED
    BY <1>1, IntakeIsOrderly, PTL

\* Whoever finds the book EXTRACTED, or past it, finds a row for every chunk it
\* announces and no other (extraction.py:5-8, 183-191).
THEOREM RowsAsAnnounced == Spec => []ExtractedHasRows
  <1>1. IntakeInv => ExtractedHasRows
    BY DEF IntakeInv, Orderly, Announced, Extracted, ExtractedHasRows
  <1> QED
    BY <1>1, IntakeIsOrderly, PTL

\* What a step may not do to what was narrated.
Survives ==
  /\ \A c \in Chunks : chunk[c] = "DONE" => chunk'[c] = "DONE"
  /\ book.status = "READY" => book'.status = "READY"

LEMMA ExtractSpares ==
  ASSUME Shape, Orderly, NEW w \in ExtractWorkers, ExtractHandler(w) \/ ExtractCrash(w)
  PROVE  Survives
  <1> USE DEF storeVars, tableVars, ExtractAt
  <1>1. CASE extractPc[w] \in Holding
    <2>1. book.status = "EXTRACTING" /\ \A c \in Chunks : chunk[c] # "DONE"
      BY <1>1 DEF Orderly, Exclusive, Announced, Extracted
    <2> QED
      BY <2>1 DEF Survives
  <1>2. CASE ExtractClaim(w)
    <2>1. UNCHANGED chunk /\ (book.status = "READY" => UNCHANGED book)
      BY <1>2 DEF ExtractClaim, ClaimableStatuses
    <2> QED
      BY <2>1 DEF Survives
  <1>3. CASE extractPc[w] \notin Holding /\ ~ExtractClaim(w)
    <2>1. UNCHANGED <<book, chunk>>
      BY <1>3 DEF Holding, ExtractHandler, ExtractReceive, ExtractGet, ExtractRead, ExtractList, ExtractWipeRow,
                  ExtractWiped, ExtractSaveRow, ExtractFlip, ExtractEnqueue, ExtractEnqueueFails, ExtractFail,
                  ExtractTransient, ExtractRelease, ExtractAck, ExtractCrash
    <2> QED
      BY <2>1 DEF Survives
  <1> QED
    BY <1>1, <1>2, <1>3

LEMMA NarratorSpares == ASSUME Shape, Narrator PROVE Survives
  <1>1. CASE StitchRows
    BY <1>1 DEF StitchRows, Survives
  <1>2. CASE NarrateChunk
    <2> PICK b \in SynthBodies :
          \/ chunk' = [chunk EXCEPT ![b[1]] = "DONE"] /\ book' = [book EXCEPT !.done = @ + 1]
          \/ UNCHANGED <<book, chunk>>
      BY <1>2 DEF NarrateChunk, tableVars
    <2> QED
      BY DEF Survives, Shape, Fields
  <1> QED
    BY <1>1, <1>2 DEF Narrator

LEMMA SweeperSpares == ASSUME Shape, XSweepNext PROVE Survives
  <1> PICK w \in ExtractSweepers : XSweepHandler(w) \/ XSweepCrash(w)
    BY DEF XSweepNext
  <1>1. UNCHANGED chunk /\ (book.status = "READY" => UNCHANGED book)
    BY DEF XSweepHandler, XSweepReceive, XSweepGet, XSweepFinalize, XSweepAck, XSweepCrash,
           StrandedExtractStatuses, storeVars, tableVars
  <1> QED
    BY <1>1 DEF Survives

\* A late or repeated extraction wipes no narrated chunk and takes no finished
\* book back (extraction.py:43-46, 119-122).
THEOREM NarratedForGood == Spec => NarrationSurvives
  <1>1. IntakeInv /\ [Next]_vars =>
          [~failedLive =>
             /\ \A c \in Chunks : chunk[c] = "DONE" => chunk'[c] = "DONE"
             /\ book.status = "READY" => book'.status = "READY"]_vars
    <2> SUFFICES ASSUME IntakeInv, Next, ~failedLive PROVE Survives
      BY DEF Survives
    <2>1. CASE UploadNext
      <3>1. UNCHANGED <<book, chunk>>
        BY <2>1 DEF UploadNext, ReissueBookUpload, FormExpires, UploadPdf, RepeatEvent, storeVars, tableVars
      <3> QED
        BY <3>1 DEF Survives
    <2>2. CASE ExtractNext
      BY <2>2, ExtractSpares DEF ExtractNext, IntakeInv
    <2>3. CASE XSweepNext \/ Narrator
      BY <2>3, SweeperSpares, NarratorSpares DEF IntakeInv
    <2> QED
      BY <2>1, <2>2, <2>3 DEF Next
  <1> QED
    BY <1>1, IntakeIsOrderly, PTL DEF Spec, NarrationSurvives

-----------------------------------------------------------------------------
(* Cutting: spans in a row *)

\* A span of positions: its first one and the one after its last.
Span == Nat \X Nat

\* What two neighbours are that greedy grouping left apart: too long together,
\* the first of them closed as long enough, or parted by something oversized.
HeldApart(c, d, edges) == d[2] - c[1] > maximum \/ Size(c) >= target \/ c[2] \in edges

\* The spans of s cover a .. b - 1 one after the other.
Tiling(s, a, b, good, cuts, edges) ==
  /\ s \in Seq(Span)
  /\ IF s = <<>> THEN a = b ELSE s[1][1] = a /\ s[Len(s)][2] = b
  /\ \A i \in 1 .. Len(s) : s[i] \in good /\ 0 < Size(s[i]) /\ Size(s[i]) <= maximum
  /\ \A i \in 1 .. Len(s) - 1 :
       s[i][2] = s[i + 1][1] /\ s[i][2] \in cuts /\ HeldApart(s[i], s[i + 1], edges)

\* A span that is not too long tiles itself.
LEMMA OneTile ==
  ASSUME NEW a \in Nat, NEW b \in Nat, a < b, b - a <= maximum, NEW good, <<a, b>> \in good,
         NEW cuts, NEW edges
  PROVE  Tiling(<<<<a, b>>>>, a, b, good, cuts, edges)
  BY DEF Tiling, Span, Size

\* Two tilings are one, if the text may be cut where they meet.
LEMMA TilingJoined ==
  ASSUME NEW a, NEW b, NEW c, NEW good, NEW cuts, NEW edges, NEW s, NEW t,
         Tiling(s, a, b, good, cuts, edges), Tiling(t, b, c, good, cuts, edges),
         s # <<>> /\ t # <<>> => b \in cuts /\ HeldApart(s[Len(s)], t[1], edges)
  PROVE  Tiling(s \o t, a, c, good, cuts, edges)
  <1> DEFINE m == Len(s)
             n == Len(t)
             u == s \o t
  <1>1. s \in Seq(Span) /\ t \in Seq(Span) /\ m \in Nat /\ n \in Nat
    BY DEF Tiling
  <1>2. /\ u \in Seq(Span) /\ Len(u) = m + n
        /\ \A i \in 1 .. m : u[i] = s[i]
        /\ \A i \in 1 .. n : u[m + i] = t[i]
    BY <1>1
  <1>3. s = <<>> <=> m = 0
    BY <1>1, EmptySeq
  <1>4. t = <<>> <=> n = 0
    BY <1>1, EmptySeq
  <1>5. u = <<>> <=> m = 0 /\ n = 0
    BY <1>1, <1>2, EmptySeq
  <1> HIDE DEF u, m, n
  <1>6. IF u = <<>> THEN a = c ELSE u[1][1] = a /\ u[Len(u)][2] = c
    <2>1. CASE m = 0 /\ n = 0
      BY <1>3, <1>4, <1>5, <2>1 DEF Tiling
    <2>2. CASE m = 0 /\ n # 0
      <3>1. a = b /\ t[1][1] = b /\ t[n][2] = c
        BY <1>3, <1>4, <2>2 DEF Tiling, n
      <3>2. u[1] = t[1] /\ u[n] = t[n] /\ Len(u) = n
        BY <1>1, <1>2, <2>2
      <3> QED
        BY <1>5, <2>2, <3>1, <3>2
    <2>3. CASE m # 0 /\ n = 0
      <3>1. b = c /\ s[1][1] = a /\ s[m][2] = b
        BY <1>3, <1>4, <2>3 DEF Tiling, m
      <3>2. u[1] = s[1] /\ u[m] = s[m] /\ Len(u) = m
        BY <1>1, <1>2, <2>3
      <3> QED
        BY <1>5, <2>3, <3>1, <3>2
    <2>4. CASE m # 0 /\ n # 0
      <3>1. s[1][1] = a /\ t[n][2] = c
        BY <1>3, <1>4, <2>4 DEF Tiling, n
      <3>2. u[1] = s[1] /\ u[m + n] = t[n] /\ Len(u) = m + n
        BY <1>1, <1>2, <2>4
      <3> QED
        BY <1>5, <2>4, <3>1, <3>2
    <2> QED
      BY <2>1, <2>2, <2>3, <2>4
  <1>7. ASSUME NEW i \in 1 .. Len(u) PROVE u[i] \in good /\ 0 < Size(u[i]) /\ Size(u[i]) <= maximum
    <2>1. CASE i \in 1 .. m
      <3>1. s[i] \in good /\ 0 < Size(s[i]) /\ Size(s[i]) <= maximum
        BY <2>1 DEF Tiling, m
      <3> QED
        BY <1>2, <2>1, <3>1
    <2>2. CASE i \notin 1 .. m
      <3>1. i - m \in 1 .. n /\ i = m + (i - m)
        BY <1>1, <1>2, <2>2
      <3>2. LET j == i - m IN t[j] \in good /\ 0 < Size(t[j]) /\ Size(t[j]) <= maximum
        BY <3>1 DEF Tiling, n
      <3>3. u[i] = t[i - m]
        BY <1>2, <3>1
      <3> QED
        BY <3>2, <3>3
    <2> QED
      BY <2>1, <2>2
  <1>8. ASSUME NEW i \in 1 .. Len(u) - 1
        PROVE  u[i][2] = u[i + 1][1] /\ u[i][2] \in cuts /\ HeldApart(u[i], u[i + 1], edges)
    <2>1. CASE i \in 1 .. m - 1
      <3>1. s[i][2] = s[i + 1][1] /\ s[i][2] \in cuts /\ HeldApart(s[i], s[i + 1], edges)
        BY <2>1 DEF Tiling, m
      <3>2. u[i] = s[i] /\ u[i + 1] = s[i + 1]
        BY <1>1, <1>2, <2>1
      <3> QED
        BY <3>1, <3>2
    <2>2. CASE i = m
      <3>1. m # 0 /\ n # 0 /\ u[i] = s[m] /\ u[i + 1] = t[1]
        BY <1>1, <1>2, <2>2
      <3>2. s[m][2] = b /\ t[1][1] = b
        BY <1>3, <1>4, <3>1 DEF Tiling, m, n
      <3>3. b \in cuts /\ HeldApart(s[m], t[1], edges)
        BY <1>3, <1>4, <3>1 DEF m
      <3> QED
        BY <3>1, <3>2, <3>3
    <2>3. CASE i > m
      <3>1. i - m \in 1 .. n - 1 /\ i = m + (i - m) /\ i + 1 = m + (i - m + 1) /\ i - m + 1 \in 1 .. n
            /\ i - m \in 1 .. n
        BY <1>1, <1>2, <2>3
      <3>2. LET j == i - m IN t[j][2] = t[j + 1][1] /\ t[j][2] \in cuts /\ HeldApart(t[j], t[j + 1], edges)
        BY <3>1 DEF Tiling, n
      <3>3. u[i] = t[i - m] /\ u[i + 1] = t[i - m + 1]
        BY <1>2, <3>1
      <3> QED
        BY <3>2, <3>3
    <2> QED
      BY <1>1, <1>2, <2>1, <2>2, <2>3
  <1> QED
    BY <1>2, <1>6, <1>7, <1>8 DEF Tiling, u

\* One more span at the end.
LEMMA TilingAppended ==
  ASSUME NEW a, NEW b \in Nat, NEW c \in Nat, b < c, c - b <= maximum,
         NEW good, <<b, c>> \in good, NEW cuts, NEW edges,
         NEW s, Tiling(s, a, b, good, cuts, edges),
         s # <<>> => b \in cuts /\ HeldApart(s[Len(s)], <<b, c>>, edges)
  PROVE  Tiling(Append(s, <<b, c>>), a, c, good, cuts, edges)
  <1>1. Tiling(<<<<b, c>>>>, b, c, good, cuts, edges)
    BY OneTile
  <1>2. Tiling(s \o <<<<b, c>>>>, a, c, good, cuts, edges)
    BY <1>1, TilingJoined
  <1>3. s \in Seq(Span) /\ <<b, c>> \in Span
    BY DEF Tiling, Span
  <1>4. s \o <<<<b, c>>>> = Append(s, <<b, c>>)
    BY <1>3, AppendIsConcat
  <1> QED
    BY <1>2, <1>4

\* The end of a row, taken off.
LEMMA TilingFront ==
  ASSUME NEW a, NEW b, NEW good, NEW cuts, NEW edges, NEW s \in Seq(Span), NEW x \in Span,
         Tiling(Append(s, x), a, b, good, cuts, edges)
  PROVE  /\ Tiling(s, a, x[1], good, cuts, edges)
         /\ s # <<>> => x[1] \in cuts /\ HeldApart(s[Len(s)], x, edges)
         /\ x[2] = b /\ x \in good /\ 0 < Size(x) /\ Size(x) <= maximum
  <1> DEFINE n == Len(s)
             u == Append(s, x)
  <1>1. /\ n \in Nat /\ u \in Seq(Span) /\ Len(u) = n + 1 /\ u[n + 1] = x
        /\ \A i \in 1 .. n : u[i] = s[i]
    OBVIOUS
  <1>2. /\ s = <<>> <=> n = 0
        /\ u # <<>>
    BY <1>1, EmptySeq
  <1>3. u[1][1] = a /\ u[n + 1][2] = b
    BY <1>1, <1>2 DEF Tiling
  <1>4. \A i \in 1 .. n + 1 : u[i] \in good /\ 0 < Size(u[i]) /\ Size(u[i]) <= maximum
    BY <1>1 DEF Tiling
  <1>5. \A i \in 1 .. n :
          u[i][2] = u[i + 1][1] /\ u[i][2] \in cuts /\ HeldApart(u[i], u[i + 1], edges)
    BY <1>1 DEF Tiling
  <1> HIDE DEF n, u
  <1>6. s # <<>> => /\ s[1][1] = a /\ s[n][2] = x[1]
                    /\ x[1] \in cuts /\ HeldApart(s[n], x, edges)
    <2> HAVE s # <<>>
    <2>1. u[1] = s[1] /\ u[n] = s[n] /\ n \in 1 .. n
      BY <1>1, <1>2
    <2>2. u[n][2] = u[n + 1][1] /\ u[n][2] \in cuts /\ HeldApart(u[n], u[n + 1], edges)
      BY <1>5, <2>1
    <2> QED
      BY <1>1, <1>3, <2>1, <2>2
  <1>7. s = <<>> => a = x[1]
    BY <1>1, <1>2, <1>3
  <1>8. \A i \in 1 .. n : s[i] \in good /\ 0 < Size(s[i]) /\ Size(s[i]) <= maximum
    BY <1>1, <1>4
  <1>9. ASSUME NEW i \in 1 .. n - 1
        PROVE  s[i][2] = s[i + 1][1] /\ s[i][2] \in cuts /\ HeldApart(s[i], s[i + 1], edges)
    <2>1. u[i] = s[i] /\ u[i + 1] = s[i + 1] /\ i \in 1 .. n
      BY <1>1
    <2> QED
      BY <1>5, <2>1
  <1>10. Tiling(s, a, x[1], good, cuts, edges)
    BY <1>6, <1>7, <1>8, <1>9 DEF Tiling, n
  <1>11. n + 1 \in 1 .. n + 1
    BY <1>1
  <1> QED
    BY <1>1, <1>3, <1>4, <1>6, <1>10, <1>11 DEF n

\* The last span may grow.
LEMMA TilingLonger ==
  ASSUME NEW a, NEW good, NEW cuts, NEW edges, NEW s \in Seq(Span),
         NEW e \in Nat, NEW c \in Nat, NEW d \in Nat, c <= d, d - e <= maximum, <<e, d>> \in good,
         Tiling(Append(s, <<e, c>>), a, c, good, cuts, edges)
  PROVE  Tiling(Append(s, <<e, d>>), a, d, good, cuts, edges)
  <1>1. <<e, c>> \in Span /\ <<e, c>>[1] = e /\ <<e, c>>[2] = c
    BY DEF Span
  <1>2. /\ Tiling(s, a, e, good, cuts, edges)
        /\ s # <<>> => e \in cuts /\ HeldApart(s[Len(s)], <<e, c>>, edges)
        /\ 0 < Size(<<e, c>>)
    BY <1>1, TilingFront
  <1>3. s # <<>> => HeldApart(s[Len(s)], <<e, d>>, edges)
    <2> HAVE s # <<>>
    <2>1. s[Len(s)] \in Span
      BY EmptySeq
    <2>2. s[Len(s)][1] \in Nat /\ maximum \in Nat
      BY <2>1, SizesAssumption DEF Span
    <2> QED
      BY <1>2, <2>2 DEF HeldApart
  <1>4. e < d
    BY <1>2 DEF Size
  <1> QED
    BY <1>2, <1>3, <1>4, TilingAppended

-----------------------------------------------------------------------------
(* Greedy grouping, of whatever atoms and with whatever cuts the oversized *)

\* What _greedy_group carries from one atom to the next.
Groups == [raw : Seq(Span), pending : {<<>>} \cup Span]

\* A span is the pair of its ends.
LEMMA SpanIsPair == ASSUME NEW x \in Span PROVE x = <<x[1], x[2]>> /\ x # <<>> /\ x[1] \in Nat /\ x[2] \in Nat
  BY DEF Span

\* Any atoms that lie one after the other.
InARow(atoms, from, to) ==
  /\ atoms \in Seq(Span) /\ atoms # <<>>
  /\ from = atoms[1][1] /\ to = atoms[Len(atoms)][2]
  /\ \A i \in 1 .. Len(atoms) : atoms[i][1] < atoms[i][2] /\ atoms[i][2] <= to
  /\ \A i \in 1 .. Len(atoms) - 1 : atoms[i][2] = atoms[i + 1][1]

\* What is asked of the atoms, and of the cutting of those that are oversized.
Cuttable(atoms, to, split, good, cuts, edges) ==
  /\ \A i \in 1 .. Len(atoms) - 1 : atoms[i][2] \in cuts
  /\ \A i \in 1 .. Len(atoms) : \A d \in Nat :
       atoms[i][2] <= d /\ d <= to => <<atoms[i][1], d>> \in good
  /\ \A i \in 1 .. Len(atoms) : Size(atoms[i]) > maximum =>
       /\ atoms[i][1] \in edges /\ atoms[i][2] \in edges
       /\ Tiling(split[atoms[i]], atoms[i][1], atoms[i][2], good, cuts, edges)

\* Flushing a group gives a group.
LEMMA FlushTyped == ASSUME NEW g \in Groups PROVE Flush(g) \in Groups
  <1>1. CASE g.pending = <<>>
    BY <1>1 DEF Flush, Groups
  <1>2. CASE g.pending # <<>>
    <2>1. g.raw \in Seq(Span) /\ g.pending \in Span
      BY <1>2 DEF Groups
    <2>2. Append(g.raw, g.pending) \in Seq(Span)
      BY <2>1
    <2> QED
      BY <1>2, <2>2 DEF Flush, Groups
  <1> QED
    BY <1>1, <1>2

\* What Accumulate comes to.
LEMMA AccumulateTo ==
  ASSUME NEW g \in Groups, NEW atom \in Span
  PROVE  /\ Accumulate(g, atom) \in Groups
         /\ g.pending = <<>> => /\ Accumulate(g, atom).raw = g.raw
                                /\ Accumulate(g, atom).pending = atom
         /\ g.pending # <<>> /\ atom[2] - g.pending[1] > maximum =>
              /\ Accumulate(g, atom).raw = Append(g.raw, g.pending)
              /\ Accumulate(g, atom).pending = atom
         /\ g.pending # <<>> /\ ~(atom[2] - g.pending[1] > maximum) =>
              /\ Accumulate(g, atom).raw = g.raw
              /\ Accumulate(g, atom).pending = <<g.pending[1], atom[2]>>
  <1>1. CASE g.pending = <<>>
    BY <1>1 DEF Accumulate, Groups
  <1>2. CASE g.pending # <<>> /\ atom[2] - g.pending[1] > maximum
    <2>1. Flush(g) \in Groups /\ Flush(g).raw = Append(g.raw, g.pending)
      BY <1>2, FlushTyped DEF Flush
    <2>2. Accumulate(g, atom) = [Flush(g) EXCEPT !.pending = atom]
      BY <1>2 DEF Accumulate
    <2> QED
      BY <1>2, <2>1, <2>2 DEF Groups
  <1>3. CASE g.pending # <<>> /\ ~(atom[2] - g.pending[1] > maximum)
    <2>1. g.pending \in Span /\ <<g.pending[1], atom[2]>> \in Span
      BY <1>3 DEF Groups, Span
    <2>2. Accumulate(g, atom) = [g EXCEPT !.pending = <<g.pending[1], atom[2]>>]
      BY <1>3 DEF Accumulate
    <2> QED
      BY <1>3, <2>1, <2>2 DEF Groups
  <1> QED
    BY <1>1, <1>2, <1>3

\* Adding an atom to a group gives a group.
LEMMA AddAtomTyped ==
  ASSUME NEW g \in Groups, NEW atom \in Span, NEW split,
         Size(atom) > maximum => split[atom] \in Seq(Span)
  PROVE  AddAtom(g, atom, split) \in Groups
  <1>1. CASE Size(atom) > maximum
    <2>1. Flush(g).raw \in Seq(Span)
      BY FlushTyped DEF Groups
    <2>2. Flush(g).raw \o split[atom] \in Seq(Span)
      BY <1>1, <2>1, ConcatProperties
    <2> QED
      BY <1>1, <2>2 DEF AddAtom, Groups
  <1>2. CASE ~(Size(atom) > maximum)
    <2> DEFINE held == Accumulate(g, atom)
    <2>1. held \in Groups /\ Flush(held) \in Groups
      BY AccumulateTo, FlushTyped
    <2> HIDE DEF held
    <2>2. AddAtom(g, atom, split) = IF Size(held.pending) >= target THEN Flush(held) ELSE held
      BY <1>2 DEF AddAtom, held
    <2> QED
      BY <2>1, <2>2
  <1> QED
    BY <1>1, <1>2

\* The group after each atom.
Grouping(group, atoms, split) ==
  /\ group[0] = [raw |-> <<>>, pending |-> <<>>]
  /\ \A i \in 1 .. Len(atoms) : group[i] = AddAtom(group[i - 1], atoms[i], split)

\* There is the function by which GreedyGroup is defined: atom by atom, AddAtom.
LEMMA GroupedStepwise ==
  ASSUME NEW atoms \in Seq(Span), NEW split,
         \A i \in 1 .. Len(atoms) : Size(atoms[i]) > maximum => split[atoms[i]] \in Seq(Span)
  PROVE  \E group \in [0 .. Len(atoms) -> Groups] :
           Grouping(group, atoms, split) /\ GreedyGroup(atoms, split) = Flush(group[Len(atoms)]).raw
  <1> DEFINE n == Len(atoms)
             none == [raw |-> <<>>, pending |-> <<>>]
             Step == [x \in (1 .. n) \X Groups |-> AddAtom(x[2], atoms[x[1]], split)]
             Equation(group) == group = [i \in 0 .. n |->
                IF i = 0 THEN [raw |-> <<>>, pending |-> <<>>] ELSE AddAtom(group[i - 1], atoms[i], split)]
             total == CHOOSE group : Equation(group)
  <1>1. n \in Nat /\ none \in Groups
    BY DEF Groups
  <1>2. Step \in [(1 .. n) \X Groups -> Groups]
    <2> SUFFICES ASSUME NEW x \in (1 .. n) \X Groups PROVE AddAtom(x[2], atoms[x[1]], split) \in Groups
      OBVIOUS
    <2>1. x[1] \in 1 .. n /\ x[2] \in Groups /\ atoms[x[1]] \in Span
      BY ElementOfSeq
    <2> QED
      BY <2>1, AddAtomTyped
  <1>3. PICK run \in [0 .. n -> Groups] : Runs(run, n, none, Step)
    <2> HIDE DEF Step, none, n
    <2> QED
      BY <1>1, <1>2, RunsExist
  <1>4. \A i \in 1 .. n : run[i] = AddAtom(run[i - 1], atoms[i], split)
    <2> SUFFICES ASSUME NEW i \in 1 .. n PROVE run[i] = AddAtom(run[i - 1], atoms[i], split)
      OBVIOUS
    <2>1. run[i] = Step[<<i, run[i - 1]>>] /\ i - 1 \in 0 .. n
      <3> HIDE DEF Step, none, n
      <3> QED
        BY <1>1, <1>3 DEF Runs
    <2>2. <<i, run[i - 1]>> \in (1 .. n) \X Groups
      BY <2>1
    <2> QED
      BY <2>1, <2>2
  <1>5. Equation(run)
    <2> DEFINE f == [i \in 0 .. n |-> IF i = 0 THEN none ELSE AddAtom(run[i - 1], atoms[i], split)]
    <2>1. \A i \in 0 .. n : f[i] = run[i]
      BY <1>1, <1>3, <1>4 DEF Runs
    <2>2. run = [i \in 0 .. n |-> run[i]]
      OBVIOUS
    <2> HIDE DEF none
    <2>3. f = [i \in 0 .. n |-> run[i]]
      BY <2>1
    <2> QED
      BY <2>2, <2>3 DEF none
  <1>6. Equation(total)
    BY <1>5
  <1> HIDE DEF total
  <1>7. Grouping(total, atoms, split)
    BY <1>1, <1>6 DEF Grouping
  <1>8. total \in [0 .. n -> Groups]
    <2>1. DOMAIN total = 0 .. n /\ total[0] = none
      BY <1>1, <1>6
    <2> DEFINE Good == {i \in Nat : i <= n => total[i] \in Groups}
    <2>2. 0 \in Good
      BY <1>1, <2>1
    <2>3. ASSUME NEW i \in Nat, i \in Good PROVE i + 1 \in Good
      <3> SUFFICES ASSUME i + 1 <= n PROVE total[i + 1] \in Groups
        OBVIOUS
      <3>1. total[i] \in Groups /\ i + 1 \in 1 .. n /\ (i + 1) - 1 = i
        BY <1>1, <2>3
      <3>2. atoms[i + 1] \in Span
        BY <3>1, ElementOfSeq
      <3>3. total[i + 1] = AddAtom(total[i], atoms[i + 1], split)
        BY <1>7, <3>1 DEF Grouping
      <3> QED
        BY <3>1, <3>2, <3>3, AddAtomTyped
    <2> HIDE DEF Good
    <2>4. Nat \subseteq Good
      BY <2>2, <2>3, NatInductionIn
    <2>5. \A i \in 0 .. n : total[i] \in Groups
      BY <1>1, <2>4 DEF Good
    <2>6. total = [i \in 0 .. n |-> total[i]]
      BY <1>6
    <2> QED
      BY <2>5, <2>6
  <1>9. GreedyGroup(atoms, split) = Flush(total[n]).raw
    BY DEF GreedyGroup, total
  <1> QED
    BY <1>7, <1>8, <1>9

\* The group when the atoms up to c are in it.
Ready(g, from, c, to, good, cuts, edges) ==
  /\ g.pending = <<>> =>
       /\ Tiling(g.raw, from, c, good, cuts, edges)
       /\ g.raw # <<>> => Size(g.raw[Len(g.raw)]) >= target \/ c \in edges
  /\ g.pending # <<>> =>
       /\ g.pending[2] = c
       /\ Tiling(Append(g.raw, g.pending), from, c, good, cuts, edges)
       /\ \A d \in Nat : c <= d /\ d <= to => <<g.pending[1], d>> \in good

\* A group that is ready up to c is a tiling up to c, once it is flushed.
LEMMA ReadyFlushed ==
  ASSUME NEW g \in Groups, NEW from, NEW c, NEW to, NEW good, NEW cuts, NEW edges,
         Ready(g, from, c, to, good, cuts, edges)
  PROVE  Tiling(Flush(g).raw, from, c, good, cuts, edges)
  BY DEF Ready, Flush

\* One more atom.
LEMMA ReadyStep ==
  ASSUME NEW g \in Groups, NEW from, NEW c \in Nat, NEW d \in Nat, NEW to \in Nat, c < d, d <= to,
         NEW good, NEW cuts, NEW edges, NEW split,
         Ready(g, from, c, to, good, cuts, edges),
         Flush(g).raw # <<>> => c \in cuts,
         \A e \in Nat : d <= e /\ e <= to => <<c, e>> \in good,
         d - c > maximum => /\ c \in edges /\ d \in edges
                            /\ Tiling(split[<<c, d>>], c, d, good, cuts, edges)
  PROVE  /\ AddAtom(g, <<c, d>>, split) \in Groups
         /\ Ready(AddAtom(g, <<c, d>>, split), from, d, to, good, cuts, edges)
  <1> DEFINE atom == <<c, d>>
             held == Accumulate(g, atom)
             front == Flush(g).raw
             added == AddAtom(g, atom, split)
  <1>1. /\ atom \in Span /\ atom[1] = c /\ atom[2] = d /\ atom # <<>> /\ Size(atom) = d - c
        /\ maximum \in Nat /\ target \in Nat
    BY SizesAssumption DEF Span, Size
  <1>2. Tiling(front, from, c, good, cuts, edges) /\ front \in Seq(Span)
    BY ReadyFlushed, FlushTyped DEF Groups
  <1>3. CASE d - c > maximum
    <2> DEFINE pieces == split[atom]
    <2>1. pieces \in Seq(Span) /\ Tiling(pieces, c, d, good, cuts, edges)
      BY <1>3 DEF Tiling
    <2>2. added = [raw |-> front \o pieces, pending |-> <<>>] /\ added \in Groups
      BY <1>1, <1>3, <2>1, AddAtomTyped DEF AddAtom
    <2> HIDE DEF front, pieces, added, atom
    <2>3. front # <<>> => HeldApart(front[Len(front)], pieces[1], edges)
      BY <1>2, <1>3 DEF HeldApart, Tiling
    <2>4. Tiling(front \o pieces, from, d, good, cuts, edges)
      BY <1>2, <2>1, <2>3, TilingJoined DEF front
    <2>5. added.raw = front \o pieces /\ added.pending = <<>>
      BY <2>2
    <2>6. Ready(added, from, d, to, good, cuts, edges)
      BY <1>3, <2>4, <2>5 DEF Ready
    <2> QED
      BY <2>2, <2>6 DEF added, atom
  <1>4. CASE ~(d - c > maximum)
    <2>1. added = IF Size(held.pending) >= target THEN Flush(held) ELSE held
      BY <1>1, <1>4 DEF AddAtom
    <2>2. /\ held \in Groups
          /\ g.pending = <<>> => held.raw = g.raw /\ held.pending = atom
          /\ g.pending # <<>> /\ d - g.pending[1] > maximum =>
               held.raw = Append(g.raw, g.pending) /\ held.pending = atom
          /\ g.pending # <<>> /\ ~(d - g.pending[1] > maximum) =>
               held.raw = g.raw /\ held.pending = <<g.pending[1], d>>
      BY <1>1, AccumulateTo
    <2>3. g.raw \in Seq(Span) /\ (g.pending # <<>> => g.pending \in Span)
      BY DEF Groups
    <2> HIDE DEF held, added, front
    <2>4. atom \in good
      BY DEF atom
    <2>5. /\ held.pending # <<>> /\ held.pending \in Span /\ held.pending[2] = d
          /\ Tiling(Append(held.raw, held.pending), from, d, good, cuts, edges)
          /\ \A e \in Nat : d <= e /\ e <= to => <<held.pending[1], e>> \in good
      <3>1. CASE g.pending = <<>>
        <4>1. front = g.raw
          BY <3>1 DEF front, Flush
        <4>2. g.raw # <<>> => HeldApart(g.raw[Len(g.raw)], atom, edges)
          BY <3>1, <1>2, <4>1 DEF HeldApart, Ready, Tiling
        <4>3. Tiling(Append(g.raw, atom), from, d, good, cuts, edges)
          BY <1>1, <1>2, <1>4, <2>4, <4>1, <4>2, TilingAppended DEF front
        <4> QED
          BY <1>1, <2>2, <3>1, <4>3
      <3>2. CASE g.pending # <<>> /\ d - g.pending[1] > maximum
        <4> DEFINE s == Append(g.raw, g.pending)
        <4>1. front = s
          BY <3>2 DEF front, Flush
        <4>2. s[Len(s)] = g.pending /\ s \in Seq(Span) /\ Len(s) \in Nat
          BY <2>3, <3>2
        <4>3. HeldApart(s[Len(s)], atom, edges)
          BY <1>1, <3>2, <4>2 DEF HeldApart
        <4> HIDE DEF s
        <4>4. s # <<>> => c \in cuts
          BY <4>1 DEF front
        <4>5. Tiling(Append(s, atom), from, d, good, cuts, edges)
          BY <1>1, <1>2, <1>4, <2>4, <4>1, <4>3, <4>4, TilingAppended
        <4> QED
          BY <1>1, <2>2, <3>2, <4>5 DEF s
      <3>3. CASE g.pending # <<>> /\ ~(d - g.pending[1] > maximum)
        <4> DEFINE e == g.pending[1]
        <4>1. g.pending = <<e, c>> /\ e \in Nat
          BY <2>3, <3>3, SpanIsPair DEF Ready
        <4>2. Tiling(Append(g.raw, <<e, c>>), from, c, good, cuts, edges)
          BY <3>3, <4>1 DEF Ready
        <4>3. <<e, d>> \in good /\ \A f \in Nat : c <= f /\ f <= to => <<e, f>> \in good
          BY <3>3 DEF Ready
        <4>4. d - e <= maximum
          BY <1>1, <3>3, <4>1
        <4> HIDE DEF e
        <4>5. Tiling(Append(g.raw, <<e, d>>), from, d, good, cuts, edges)
          BY <2>3, <4>1, <4>2, <4>3, <4>4, TilingLonger
        <4>6. held.raw = g.raw /\ held.pending = <<e, d>>
          BY <2>2, <3>3 DEF e
        <4>7. <<e, d>> \in Span /\ <<e, d>>[1] = e /\ <<e, d>>[2] = d /\ <<e, d>> # <<>>
          BY <4>1 DEF Span
        <4>8. \A f \in Nat : d <= f /\ f <= to => <<e, f>> \in good
          BY <4>3
        <4> QED
          BY <4>5, <4>6, <4>7, <4>8
      <3> QED
        BY <3>1, <3>2, <3>3
    <2>6. CASE Size(held.pending) >= target
      <3>1. /\ added = Flush(held) /\ Flush(held) \in Groups
            /\ Flush(held).raw = Append(held.raw, held.pending) /\ Flush(held).pending = <<>>
        BY <2>1, <2>2, <2>5, <2>6, FlushTyped DEF Flush
      <3> DEFINE s == Append(held.raw, held.pending)
      <3>2. s[Len(s)] = held.pending
        BY <2>2, <2>5 DEF Groups
      <3> QED
        BY <2>5, <2>6, <3>1, <3>2 DEF Ready, added, atom
    <2>7. CASE ~(Size(held.pending) >= target)
      <3>1. added = held
        BY <2>1, <2>7
      <3> QED
        BY <2>2, <2>5, <3>1 DEF Ready, added, atom
    <2> QED
      BY <2>6, <2>7
  <1> QED
    BY <1>3, <1>4

\* Grouping tiles what the atoms tile.
LEMMA GreedyTiles ==
  ASSUME NEW atoms, NEW from \in Nat, NEW to \in Nat, InARow(atoms, from, to),
         NEW split, NEW good, NEW cuts, NEW edges, Cuttable(atoms, to, split, good, cuts, edges)
  PROVE  Tiling(GreedyGroup(atoms, split), from, to, good, cuts, edges)
  <1> DEFINE n == Len(atoms)
             End(i) == IF i = 0 THEN from ELSE atoms[i][2]
  <1>1. atoms \in Seq(Span) /\ n \in Nat /\ n # 0
    BY EmptySeq DEF InARow
  <1>2. \A i \in 1 .. n : atoms[i] \in Span /\ atoms[i] = <<atoms[i][1], atoms[i][2]>>
                          /\ atoms[i][1] \in Nat /\ atoms[i][2] \in Nat
    BY <1>1, SpanIsPair
  <1>3. \A i \in 1 .. n : Size(atoms[i]) > maximum => split[atoms[i]] \in Seq(Span)
    BY DEF Cuttable, Tiling
  <1>4. PICK group \in [0 .. n -> Groups] :
          Grouping(group, atoms, split) /\ GreedyGroup(atoms, split) = Flush(group[n]).raw
    BY <1>1, <1>3, GroupedStepwise
  <1>5. \A i \in 1 .. n : End(i - 1) = atoms[i][1] /\ End(i) = atoms[i][2]
    <2> SUFFICES ASSUME NEW i \in 1 .. n PROVE End(i - 1) = atoms[i][1] /\ End(i) = atoms[i][2]
      OBVIOUS
    <2>1. CASE i = 1
      BY <2>1 DEF InARow
    <2>2. CASE i # 1
      <3>1. i - 1 \in 1 .. n - 1 /\ (i - 1) + 1 = i /\ i - 1 # 0 /\ i # 0
        BY <1>1, <2>2
      <3>2. atoms[i - 1][2] = atoms[(i - 1) + 1][1]
        BY <3>1 DEF InARow
      <3> QED
        BY <3>1, <3>2
    <2> QED
      BY <2>1, <2>2
  <1> DEFINE Good == {i \in Nat : i <= n =>
                        /\ Ready(group[i], from, End(i), to, good, cuts, edges)
                        /\ i = 0 => group[i].raw = <<>> /\ group[i].pending = <<>>}
  <1>6. 0 \in Good
    <2>1. group[0].raw = <<>> /\ group[0].pending = <<>>
      BY <1>4 DEF Grouping
    <2>2. Tiling(<<>>, from, from, good, cuts, edges)
      BY DEF Tiling
    <2> QED
      BY <2>1, <2>2 DEF Ready
  <1>7. ASSUME NEW k \in Nat, k \in Good PROVE k + 1 \in Good
    <2> SUFFICES ASSUME k + 1 <= n PROVE Ready(group[k + 1], from, End(k + 1), to, good, cuts, edges)
      OBVIOUS
    <2> DEFINE i == k + 1
               c == atoms[i][1]
               d == atoms[i][2]
    <2>1. i \in 1 .. n /\ i - 1 = k /\ k \in 0 .. n
      BY <1>1
    <2>2. /\ c \in Nat /\ d \in Nat /\ c < d /\ d <= to /\ atoms[i] = <<c, d>>
          /\ Size(atoms[i]) = d - c
      BY <1>2, <2>1 DEF InARow, Size
    <2>3. group[k] \in Groups /\ Ready(group[k], from, c, to, good, cuts, edges)
      <3>1. End(k) = c /\ k <= n
        BY <1>5, <2>1
      <3> QED
        BY <1>4, <1>7, <2>1, <3>1
    <2>4. Flush(group[k]).raw # <<>> => c \in cuts
      <3>1. CASE k = 0
        <4>1. group[k].raw = <<>> /\ group[k].pending = <<>>
          BY <1>7, <2>1, <3>1
        <4> QED
          BY <4>1 DEF Flush
      <3>2. CASE k # 0
        <4>1. k \in 1 .. n - 1 /\ atoms[k][2] = c
          BY <1>1, <2>1, <3>2 DEF InARow
        <4> QED
          BY <4>1 DEF Cuttable
      <3> QED
        BY <3>1, <3>2
    <2>5. \A e \in Nat : d <= e /\ e <= to => <<c, e>> \in good
      BY <2>1 DEF Cuttable
    <2>6. d - c > maximum => /\ c \in edges /\ d \in edges
                             /\ Tiling(split[<<c, d>>], c, d, good, cuts, edges)
      BY <2>1, <2>2 DEF Cuttable
    <2>7. group[i] = AddAtom(group[k], <<c, d>>, split)
      BY <1>4, <2>1, <2>2 DEF Grouping
    <2>8. End(i) = d
      BY <1>5, <2>1
    <2> HIDE DEF i, c, d, End, Good
    <2>9. Ready(AddAtom(group[k], <<c, d>>, split), from, d, to, good, cuts, edges)
      BY <2>2, <2>3, <2>4, <2>5, <2>6, ReadyStep
    <2> QED
      BY <2>7, <2>8, <2>9 DEF i
  <1>8. Ready(group[n], from, to, to, good, cuts, edges)
    <2>1. Nat \subseteq Good
      <3> HIDE DEF Good
      <3> QED
        BY <1>6, <1>7, NatInductionIn
    <2>2. End(n) = to
      BY <1>1 DEF InARow
    <2> QED
      BY <1>1, <2>1, <2>2
  <1>9. group[n] \in Groups
    BY <1>1
  <1> QED
    BY <1>4, <1>8, <1>9, ReadyFlushed

-----------------------------------------------------------------------------
(* The atoms between starts *)

\* What Max is, of a finite set.
LEMMA MaxOf ==
  ASSUME NEW T, IsFiniteSet(T), T \subseteq Nat, T # {}
  PROVE  Max(T) \in T /\ \A m \in T : m <= Max(T)
  <1>1. \E n \in T : \A m \in T : n >= m
    BY GreatestNatural
  <1>2. Max(T) \in T /\ \A m \in T : Max(T) >= m
    BY <1>1 DEF Max
  <1>3. Max(T) \in Nat /\ \A m \in T : m \in Nat
    BY <1>2
  <1> QED
    BY <1>2, <1>3

\* What Min is.
LEMMA MinOf ==
  ASSUME NEW T, T \subseteq Nat, T # {}
  PROVE  Min(T) \in T /\ \A m \in T : Min(T) <= m
  <1>1. \E n \in T : \A m \in T : n <= m
    BY LeastNatural
  <1> QED
    BY <1>1 DEF Min

\* How many of S come before p.
Rank(S, p) == Cardinality({q \in S : q < p})

\* A greater member has a greater rank, and the next member the next rank.
LEMMA RankGrows ==
  ASSUME NEW S, IsFiniteSet(S), S \subseteq Nat, NEW p \in S, NEW r \in S, p < r
  PROVE  /\ Rank(S, p) \in Nat /\ Rank(S, r) \in Nat /\ Rank(S, p) < Rank(S, r)
         /\ (\A q \in S : q <= p \/ r <= q) => Rank(S, r) = Rank(S, p) + 1
  <1> DEFINE A == {q \in S : q < p}
             B == {q \in S : q < r}
  <1>1. IsFiniteSet(A) /\ IsFiniteSet(B) /\ Cardinality(A) \in Nat /\ Cardinality(B) \in Nat
    BY FS_Subset, FS_CardinalityType
  <1>2. p \in Nat /\ r \in Nat /\ \A q \in S : q \in Nat
    OBVIOUS
  <1>3. A \cup {p} \subseteq B /\ p \notin A
    <2>1. ASSUME NEW q \in A PROVE q \in B
      BY <1>2
    <2>2. p \in B /\ p \notin A
      BY <1>2
    <2> HIDE DEF A, B
    <2> QED
      BY <2>1, <2>2
  <1>4. Cardinality(A \cup {p}) = Cardinality(A) + 1
    BY <1>1, <1>3, FS_AddElement
  <1>5. Cardinality(A \cup {p}) <= Cardinality(B)
    BY <1>1, <1>3, FS_Subset
  <1>6. (\A q \in S : q <= p \/ r <= q) => B = A \cup {p}
    <2> HAVE \A q \in S : q <= p \/ r <= q
    <2>1. ASSUME NEW q \in B PROVE q \in A \cup {p}
      <3>1. q \in S /\ q \in Nat /\ q < r
        BY <1>2
      <3> QED
        BY <1>2, <3>1
    <2> QED
      BY <1>3, <2>1
  <1> HIDE DEF A, B
  <1> QED
    BY <1>1, <1>4, <1>5, <1>6 DEF A, B, Rank

\* Every number below the size of S is the rank of one of them.
LEMMA RankTaken ==
  ASSUME NEW S, IsFiniteSet(S), S \subseteq Nat, NEW i \in Nat, i < Cardinality(S)
  PROVE  \E p \in S : Rank(S, p) = i
  <1> DEFINE n == Cardinality(S)
             Good == {k \in Nat : k < n => \E p \in S : Rank(S, p) = k}
  <1>1. n \in Nat
    BY FS_CardinalityType
  <1>2. 0 \in Good
    <2> SUFFICES ASSUME 0 < n PROVE \E p \in S : Rank(S, p) = 0
      OBVIOUS
    <2>1. S # {}
      BY FS_EmptySet
    <2>2. PICK p \in S : \A q \in S : p <= q
      BY <2>1, LeastNatural
    <2>3. {q \in S : q < p} = {}
      <3>1. ASSUME NEW q \in S PROVE ~(q < p)
        <4>1. q \in Nat /\ p \in Nat /\ p <= q
          BY <2>2
        <4> QED
          BY <4>1
      <3> QED
        BY <3>1
    <2> QED
      BY <2>3, FS_EmptySet DEF Rank
  <1>3. ASSUME NEW k \in Nat, k \in Good PROVE k + 1 \in Good
    <2> SUFFICES ASSUME k + 1 < n PROVE \E p \in S : Rank(S, p) = k + 1
      OBVIOUS
    <2>1. PICK p \in S : Rank(S, p) = k
      BY <1>1, <1>3
    <2> DEFINE A == {q \in S : q < p}
               C == {q \in S : q > p}
    <2>2. IsFiniteSet(A) /\ Cardinality(A) = k /\ p \notin A
      BY <2>1, FS_Subset DEF Rank
    <2>3. Cardinality(A \cup {p}) = k + 1
      BY <2>2, FS_AddElement
    <2>4. C # {}
      <3> SUFFICES ASSUME C = {} PROVE FALSE
        OBVIOUS
      <3>1. ASSUME NEW q \in S PROVE q \in A \cup {p}
        <4>1. q \in Nat /\ p \in Nat /\ q \notin C
          OBVIOUS
        <4> QED
          BY <4>1
      <3>2. A \cup {p} = S
        BY <3>1
      <3> QED
        BY <1>1, <2>3, <3>2
    <2>5. PICK r \in C : \A q \in C : r <= q
      BY <2>4, LeastNatural
    <2>6. r \in S /\ p < r /\ \A q \in S : q <= p \/ r <= q
      BY <2>5
    <2>7. Rank(S, r) = k + 1
      BY <2>1, <2>6, RankGrows
    <2> QED
      BY <2>6, <2>7
  <1> HIDE DEF Good
  <1>4. Nat \subseteq Good
    BY <1>2, <1>3, NatInductionIn
  <1> QED
    BY <1>4 DEF Good

\* Nth counts the members in their order.
LEMMA NthRanked ==
  ASSUME NEW S, IsFiniteSet(S), S \subseteq Nat, NEW i \in 1 .. Cardinality(S)
  PROVE  Nth(S, i) \in S /\ Nth(S, i) \in Nat /\ Rank(S, Nth(S, i)) = i - 1
  <1>1. Cardinality(S) \in Nat /\ i - 1 \in Nat /\ i - 1 < Cardinality(S)
    BY FS_CardinalityType
  <1>2. \E p \in S : Rank(S, p) = i - 1
    BY <1>1, RankTaken
  <1>3. \E p \in S : Cardinality({q \in S : q < p}) = i - 1
    BY <1>2 DEF Rank
  <1>4. Nth(S, i) \in S /\ Cardinality({q \in S : q < Nth(S, i)}) = i - 1
    BY <1>3 DEF Nth
  <1> QED
    BY <1>4 DEF Rank

\* The start a stretch of text begins at: the first takes in what precedes it.
Begin(S, p, from) == IF \A q \in S : p <= q THEN from ELSE p
\* Where it ends: at the next start.
End(S, p, to) == Min({q \in S : q > p} \cup {to})

\* The end of a stretch is the next start, or the end of the text.
LEMMA EndIs ==
  ASSUME NEW S, S \subseteq Nat, NEW to \in Nat, NEW p \in S, \A q \in S : q < to
  PROVE  /\ p < End(S, p, to) /\ End(S, p, to) <= to /\ End(S, p, to) \in Nat
         /\ \A q \in S : q <= p \/ End(S, p, to) <= q
         /\ End(S, p, to) # to => End(S, p, to) \in S
         /\ \A e \in Nat : p < e /\ (e \in S \/ e = to) /\ (\A q \in S : q <= p \/ e <= q) =>
              e = End(S, p, to)
  <1> DEFINE T == {q \in S : q > p} \cup {to}
  <1>1. Min(T) \in T /\ \A m \in T : Min(T) <= m
    BY MinOf
  <1>2. p \in Nat /\ p < to /\ \A q \in S : q \in Nat /\ q < to
    OBVIOUS
  <1>3. Min(T) \in Nat /\ (Min(T) # to => Min(T) \in S) /\ p < Min(T) /\ Min(T) <= to
    BY <1>1, <1>2
  <1>4. \A q \in S : q <= p \/ Min(T) <= q
    BY <1>1, <1>2
  <1>5. ASSUME NEW e \in Nat, p < e, e \in S \/ e = to, \A q \in S : q <= p \/ e <= q
        PROVE  e = Min(T)
    <2>1. e \in T
      BY <1>5
    <2>2. Min(T) <= e
      BY <1>1, <2>1
    <2>3. e <= Min(T)
      <3> HIDE DEF T
      <3> QED
        BY <1>2, <1>3, <1>5
    <2> QED
      BY <1>3, <2>2, <2>3
  <1> HIDE DEF T
  <1> QED
    BY <1>3, <1>4, <1>5 DEF T, End

\* _atoms_from_trimmed_spans lays the stretches of the starts in a row.
LEMMA AtomsAreStretches ==
  ASSUME NEW S, IsFiniteSet(S), S \subseteq Nat, S # {}, NEW from \in Nat, NEW to \in Nat,
         \A q \in S : from <= q /\ q < to
  PROVE  LET atoms == AtomsFromTrimmedSpans(S, from, to) IN
         /\ InARow(atoms, from, to)
         /\ \A i \in 1 .. Len(atoms) :
              \E p \in S : atoms[i] = <<Begin(S, p, from), End(S, p, to)>>
         /\ \A i \in 1 .. Len(atoms) - 1 :
              atoms[i][2] \in S /\ \E p \in S : p < atoms[i][2]
  <1> DEFINE n == Cardinality(S)
             atoms == AtomsFromTrimmedSpans(S, from, to)
             B(i) == IF i = 1 THEN from ELSE Nth(S, i)
             E(i) == IF i = n THEN to ELSE Nth(S, i + 1)
  <1>1. n \in Nat /\ n # 0
    BY FS_CardinalityType, FS_EmptySet
  <1>2. \A i \in 1 .. n : Nth(S, i) \in S /\ Nth(S, i) \in Nat /\ Rank(S, Nth(S, i)) = i - 1
    BY NthRanked
  <1>3. \A p, r \in S : p < r => /\ Rank(S, p) \in Nat /\ Rank(S, r) \in Nat
                                 /\ Rank(S, p) < Rank(S, r)
    BY RankGrows
  <1>4. \A p \in S : p \in Nat /\ from <= p /\ p < to
    OBVIOUS
  <1>5. \A i, j \in 1 .. n : i < j => Nth(S, i) < Nth(S, j)
    <2> SUFFICES ASSUME NEW i \in 1 .. n, NEW j \in 1 .. n, i < j, ~(Nth(S, i) < Nth(S, j))
                 PROVE  FALSE
      OBVIOUS
    <2>1. Nth(S, j) < Nth(S, i) \/ Nth(S, i) = Nth(S, j)
      BY <1>2
    <2>2. Rank(S, Nth(S, j)) <= Rank(S, Nth(S, i))
      BY <1>2, <1>3, <2>1
    <2> QED
      BY <1>1, <1>2, <2>2
  <1>6. \A q \in S : \E i \in 1 .. n : q = Nth(S, i)
    <2> SUFFICES ASSUME NEW q \in S PROVE \E i \in 1 .. n : q = Nth(S, i)
      OBVIOUS
    <2>1. Rank(S, q) \in Nat /\ Rank(S, q) < n
      <3> DEFINE A == {r \in S : r < q}
      <3>1. IsFiniteSet(A) /\ Cardinality(A) \in Nat /\ Cardinality(A) <= n /\ (Cardinality(A) = n => S = A)
        BY FS_Subset, FS_CardinalityType
      <3>2. q \notin A
        BY <1>4
      <3> QED
        BY <1>1, <3>1, <3>2 DEF Rank
    <2> DEFINE i == Rank(S, q) + 1
    <2>2. i \in 1 .. n /\ Rank(S, q) = i - 1
      BY <1>1, <2>1
    <2>3. Rank(S, Nth(S, i)) = Rank(S, q) /\ Nth(S, i) \in S
      BY <1>2, <2>2
    <2> HIDE DEF i
    <2>4. ~(q < Nth(S, i)) /\ ~(Nth(S, i) < q)
      <3>1. ASSUME NEW r \in S, Rank(S, r) = Rank(S, q) PROVE ~(q < r) /\ ~(r < q)
        <4>1. Rank(S, r) \in Nat /\ Rank(S, q) \in Nat
          BY <2>1, <3>1
        <4>2. q < r => Rank(S, q) < Rank(S, r)
          BY <1>3
        <4>3. r < q => Rank(S, r) < Rank(S, q)
          BY <1>3
        <4> QED
          BY <3>1, <4>1, <4>2, <4>3
      <3> QED
        BY <2>3, <3>1
    <2>5. q = Nth(S, i)
      <3>1. q \in Nat /\ Nth(S, i) \in Nat
        BY <1>4, <2>3
      <3> QED
        BY <2>4, <3>1
    <2> QED
      BY <2>2, <2>5
  <1>7. /\ atoms = [i \in 1 .. n |-> <<B(i), E(i)>>] /\ Len(atoms) = n
        /\ \A i \in 1 .. n : B(i) \in Nat /\ E(i) \in Nat
    <2>1. atoms = [i \in 1 .. n |-> <<B(i), E(i)>>]
      BY DEF AtomsFromTrimmedSpans
    <2>2. \A i \in 1 .. n : B(i) \in Nat /\ E(i) \in Nat
      <3> SUFFICES ASSUME NEW i \in 1 .. n PROVE B(i) \in Nat /\ E(i) \in Nat
        OBVIOUS
      <3>1. i # n => i + 1 \in 1 .. n
        BY <1>1
      <3> QED
        BY <1>2, <3>1
    <2>3. Len(atoms) = n
      BY <1>1, <2>1
    <2> QED
      BY <2>1, <2>2, <2>3
  <1>8. ASSUME NEW i \in 1 .. n
        PROVE  /\ B(i) = Begin(S, Nth(S, i), from) /\ E(i) = End(S, Nth(S, i), to)
               /\ B(i) <= Nth(S, i) /\ Nth(S, i) < E(i) /\ E(i) <= to
               /\ i # n => E(i) = B(i + 1) /\ E(i) \in S
    <2> DEFINE p == Nth(S, i)
    <2>1. p \in S /\ p \in Nat
      BY <1>2
    <2>2. i = 1 <=> \A q \in S : p <= q
      <3>1. ASSUME i = 1, NEW q \in S PROVE p <= q
        <4>1. PICK j \in 1 .. n : q = Nth(S, j)
          BY <1>6
        <4> QED
          BY <1>4, <1>5, <2>1, <3>1, <4>1
      <3>2. ASSUME i # 1 PROVE \E q \in S : ~(p <= q)
        <4>1. 1 \in 1 .. n /\ 1 < i
          BY <1>1, <3>2
        <4>2. Nth(S, 1) < p /\ Nth(S, 1) \in S /\ Nth(S, 1) \in Nat
          BY <1>2, <1>5, <4>1
        <4> QED
          BY <2>1, <4>2
      <3> QED
        BY <3>1, <3>2
    <2>3. E(i) \in Nat /\ p < E(i) /\ (E(i) \in S \/ E(i) = to)
      <3>1. CASE i = n
        BY <1>4, <2>1, <3>1
      <3>2. CASE i # n
        <4>1. i + 1 \in 1 .. n /\ i < i + 1
          BY <1>1, <3>2
        <4> QED
          BY <1>2, <1>5, <3>2, <4>1
      <3> QED
        BY <3>1, <3>2
    <2>4. \A q \in S : q <= p \/ E(i) <= q
      <3> SUFFICES ASSUME NEW q \in S PROVE q <= p \/ E(i) <= q
        OBVIOUS
      <3>1. PICK j \in 1 .. n : q = Nth(S, j)
        BY <1>6
      <3>2. CASE j < i
        BY <1>4, <1>5, <2>1, <3>1, <3>2
      <3>3. CASE j = i
        BY <1>4, <2>1, <3>1, <3>3
      <3>4. CASE j = i + 1
        BY <1>1, <1>4, <2>3, <3>1, <3>4
      <3>5. CASE j > i + 1
        <4>1. i + 1 \in 1 .. n /\ i # n /\ i + 1 < j
          BY <1>1, <3>5
        <4>2. Nth(S, i + 1) < q /\ E(i) = Nth(S, i + 1)
          BY <1>5, <3>1, <4>1
        <4> QED
          BY <1>4, <2>3, <4>2
      <3> QED
        BY <3>2, <3>3, <3>4, <3>5
    <2>5. E(i) = End(S, p, to)
      <3> HIDE DEF E, p, n
      <3>1. \A q \in S : q < to
        BY <1>4
      <3>2. \A e \in Nat : p < e /\ (e \in S \/ e = to) /\ (\A q \in S : q <= p \/ e <= q) =>
              e = End(S, p, to)
        BY <2>1, <3>1, EndIs
      <3> QED
        BY <2>3, <2>4, <3>2
    <2>6. E(i) <= to
      BY <1>4, <2>3
    <2>7. B(i) = Begin(S, p, from) /\ B(i) <= p
      BY <1>4, <2>1, <2>2 DEF Begin
    <2>8. i # n => E(i) = B(i + 1) /\ E(i) \in S
      <3> HAVE i # n
      <3>1. i + 1 # 1 /\ i + 1 \in 1 .. n
        BY <1>1
      <3> QED
        BY <1>2, <3>1
    <2> QED
      BY <2>3, <2>5, <2>6, <2>7, <2>8
  <1>9. \A i \in 1 .. n : atoms[i] = <<B(i), E(i)>> /\ atoms[i][1] = B(i) /\ atoms[i][2] = E(i)
    BY <1>7
  <1>10. 1 \in 1 .. n /\ n \in 1 .. n /\ B(1) = from /\ E(n) = to
    BY <1>1
  <1>11. atoms \in Seq(Span) /\ atoms # <<>>
    <2>1. \A i \in 1 .. n : <<B(i), E(i)>> \in Span
      BY <1>7 DEF Span
    <2> HIDE DEF B, E, atoms
    <2>2. atoms \in [1 .. n -> Span]
      BY <1>7, <2>1
    <2>3. atoms \in Seq(Span)
      BY <1>1, <2>2
    <2> QED
      BY <1>1, <1>7, <2>3, EmptySeq
  <1> HIDE DEF atoms, B, E, n
  <1>12. \A i \in 1 .. n : B(i) < E(i) /\ E(i) <= to
    BY <1>2, <1>7, <1>8
  <1>13. \A i \in 1 .. n - 1 : i \in 1 .. n /\ i # n /\ i + 1 \in 1 .. n
    BY <1>1
  <1>14. InARow(atoms, from, to)
    BY <1>7, <1>8, <1>9, <1>10, <1>11, <1>12, <1>13 DEF InARow
  <1>15. \A i \in 1 .. n : \E p \in S : atoms[i] = <<Begin(S, p, from), End(S, p, to)>>
    BY <1>2, <1>8, <1>9
  <1>16. \A i \in 1 .. n - 1 : atoms[i][2] \in S /\ \E p \in S : p < atoms[i][2]
    BY <1>2, <1>8, <1>9, <1>13
  <1> QED
    BY <1>7, <1>14, <1>15, <1>16 DEF atoms

-----------------------------------------------------------------------------
(* An oversized sentence *)

\* _split_at_whitespace cuts after the last blank in reach, or at the limit if a word fills it.
LEMMA CutIs ==
  ASSUME NEW p \in Nat
  PROVE  /\ Cut(p) \in Nat /\ p < Cut(p) /\ Cut(p) <= p + maximum
         /\ \A i \in Nat : p < i /\ i <= p + maximum /\ i - 1 \in text.blank => i <= Cut(p)
         /\ Cut(p) - 1 \in text.blank \/ Cut(p) = p + maximum
         /\ Cut(p) - 1 \notin text.blank =>
              \A i \in p + 1 .. p + maximum : i - 1 \notin text.blank
  <1> DEFINE T == {i \in p + 1 .. p + maximum : i - 1 \in text.blank}
  <1>1. maximum \in Nat /\ 0 < maximum
    BY SizesAssumption
  <1>2. CASE T = {}
    <2>1. Cut(p) = p + maximum
      BY <1>2 DEF Cut
    <2>2. \A i \in p + 1 .. p + maximum : i - 1 \notin text.blank
      BY <1>2
    <2>3. \A i \in Nat : p < i /\ i <= p + maximum => i \in p + 1 .. p + maximum
      BY <1>1
    <2> QED
      BY <1>1, <2>1, <2>2, <2>3
  <1>3. CASE T # {}
    <2>1. IsFiniteSet(T)
      <3>1. IsFiniteSet(p + 1 .. p + maximum)
        BY <1>1, FS_Interval
      <3> QED
        BY <3>1, FS_Subset
    <2>2. T \subseteq Nat /\ Cut(p) = Max(T)
      BY <1>1, <1>3 DEF Cut
    <2>3. Max(T) \in T /\ \A m \in T : m <= Max(T)
      <3> HIDE DEF T
      <3> QED
        BY <1>3, <2>1, <2>2, MaxOf
    <2>4. \A i \in Nat : p < i /\ i <= p + maximum /\ i - 1 \in text.blank => i \in T
      BY <1>1
    <2>5. Max(T) \in Nat /\ p < Max(T) /\ Max(T) <= p + maximum /\ Max(T) - 1 \in text.blank
      BY <1>1, <2>3
    <2> QED
      BY <2>2, <2>3, <2>4, <2>5
  <1> QED
    BY <1>2, <1>3

\* Pieces of what is too long tile it, each as long as whitespace allows.
LEMMA SplitTiles ==
  ASSUME NEW a \in Nat, NEW b \in Nat, a < b, NEW good, NEW cuts, NEW edges,
         \A p, q \in a .. b : p < q => <<p, q>> \in good,
         \A p \in a .. b : b - p > maximum => Cut(p) \in cuts
  PROVE  Tiling(SplitAtWhitespace(<<a, b>>), a, b, good, cuts, edges)
  <1> DEFINE Piece == [p \in a .. b |-> IF b > p THEN <<<<p, b>>>> ELSE <<>>]
             Stop == {p \in a .. b : ~(b - p > maximum)}
             After == [p \in a .. b |-> Cut(p)]
             Step == [x \in (a .. b) \X Seq(Span) |-> <<<<x[1], Cut(x[1])>>>> \o x[2]]
             Equation(pieces) == pieces = [p \in a .. b |->
               IF b - p > maximum THEN <<<<p, Cut(p)>>>> \o pieces[Cut(p)]
               ELSE IF b > p THEN <<<<p, b>>>> ELSE <<>>]
             total == CHOOSE pieces : Equation(pieces)
  <1>1. maximum \in Nat /\ target \in Nat /\ 0 < maximum /\ target <= maximum
    BY SizesAssumption
  <1>2. \A p \in a .. b : /\ p \in Nat /\ Cut(p) \in Nat /\ p < Cut(p) /\ Cut(p) <= p + maximum
                          /\ b - p > maximum => Cut(p) \in a .. b /\ Cut(p) < b
    BY <1>1, CutIs
  <1>3. PICK leap \in [a .. b -> Seq(Span)] : Leaps(leap, a, b, Stop, After, Piece, Step)
    <2>1. Piece \in [a .. b -> Seq(Span)]
      <3>1. \A p \in a .. b : <<p, b>> \in Span
        BY DEF Span
      <3> QED
        BY <3>1
    <2>2. Step \in [(a .. b) \X Seq(Span) -> Seq(Span)]
      <3> SUFFICES ASSUME NEW x \in (a .. b) \X Seq(Span)
                   PROVE  <<<<x[1], Cut(x[1])>>>> \o x[2] \in Seq(Span)
        OBVIOUS
      <3>1. <<x[1], Cut(x[1])>> \in Span /\ x[2] \in Seq(Span)
        BY <1>2 DEF Span
      <3>2. <<<<x[1], Cut(x[1])>>>> \in Seq(Span)
        BY <3>1
      <3> QED
        BY <3>1, <3>2, ConcatProperties
    <2>3. \A p \in (a .. b) \ Stop : After[p] \in p + 1 .. b
      BY <1>2
    <2> HIDE DEF Piece, Stop, After, Step
    <2> QED
      BY <2>1, <2>2, <2>3, LeapsExist
  <1>4. ASSUME NEW p \in a .. b
        PROVE  leap[p] = IF b - p > maximum THEN <<<<p, Cut(p)>>>> \o leap[Cut(p)]
                         ELSE IF b > p THEN <<<<p, b>>>> ELSE <<>>
    <2>1. leap[p] = IF p \in Stop THEN Piece[p] ELSE Step[<<p, leap[After[p]]>>]
      <3> HIDE DEF Piece, Stop, After, Step
      <3> QED
        BY <1>3 DEF Leaps
    <2>2. CASE b - p > maximum
      <3>1. leap[p] = Step[<<p, leap[Cut(p)]>>]
        BY <2>1, <2>2
      <3>2. <<p, leap[Cut(p)]>> \in (a .. b) \X Seq(Span)
        BY <1>2, <2>2
      <3>3. Step[<<p, leap[Cut(p)]>>] = <<<<p, Cut(p)>>>> \o leap[Cut(p)]
        BY <3>2
      <3> QED
        BY <2>2, <3>1, <3>3
    <2>3. CASE ~(b - p > maximum)
      BY <2>1, <2>3
    <2> QED
      BY <2>2, <2>3
  <1>5. Equation(leap)
    <2> DEFINE f == [p \in a .. b |->
               IF b - p > maximum THEN <<<<p, Cut(p)>>>> \o leap[Cut(p)]
               ELSE IF b > p THEN <<<<p, b>>>> ELSE <<>>]
    <2>1. leap = [p \in a .. b |-> leap[p]]
      OBVIOUS
    <2>2. f = [p \in a .. b |-> leap[p]]
      BY <1>4
    <2> QED
      BY <2>1, <2>2
  <1>6. Equation(total)
    BY <1>5
  <1>7. SplitAtWhitespace(<<a, b>>) = total[a]
    BY DEF SplitAtWhitespace
  <1> HIDE DEF total
  <1>8. \A p \in a .. b : total[p] = IF b - p > maximum THEN <<<<p, Cut(p)>>>> \o total[Cut(p)]
                                     ELSE IF b > p THEN <<<<p, b>>>> ELSE <<>>
    BY <1>6
  <1> DEFINE Fits(p) == /\ Tiling(total[p], p, b, good, cuts, edges)
                        /\ p < b => /\ total[p] # <<>> /\ total[p][1][1] = p
                                    /\ IF b - p > maximum THEN total[p][1][2] = Cut(p)
                                                          ELSE total[p][1][2] = b
             Good == {n \in Nat : \A p \in a .. b : b - p <= n => Fits(p)}
  <1> HIDE DEF Equation, Piece, Stop, After, Step
  <1>9. ASSUME NEW p \in a .. b, ~(b - p > maximum) PROVE Fits(p)
    <2>1. CASE p = b
      <3>1. ~(b - p > maximum) /\ ~(b > p)
        BY <1>9, <2>1
      <3>2. total[p] = IF b - p > maximum THEN <<<<p, Cut(p)>>>> \o total[Cut(p)]
                                     ELSE IF b > p THEN <<<<p, b>>>> ELSE <<>>
        BY <1>8
      <3>3. total[p] = <<>>
        BY <3>1, <3>2
      <3> QED
        BY <2>1, <3>3 DEF Tiling
    <2>2. CASE p < b
      <3>1. total[p] = <<<<p, b>>>>
        BY <1>8, <1>9, <2>2
      <3>2. b - p <= maximum /\ <<p, b>> \in good /\ p \in Nat
        BY <1>1, <1>9, <2>2
      <3>3. Tiling(<<<<p, b>>>>, p, b, good, cuts, edges)
        BY <2>2, <3>2, OneTile
      <3> QED
        BY <1>9, <3>1, <3>3
    <2> QED
      BY <2>1, <2>2
  <1>10. ASSUME NEW p \in a .. b, b - p > maximum, Fits(Cut(p)) PROVE Fits(p)
    <2> DEFINE c == Cut(p)
               rest == total[c]
    <2>1. c \in a .. b /\ c < b /\ p < c /\ c <= p + maximum /\ c \in Nat /\ p \in Nat
      BY <1>2, <1>10
    <2>2. total[p] = <<<<p, c>>>> \o rest
      BY <1>8, <1>10
    <2>3. <<p, c>> \in good /\ c \in cuts /\ c - p <= maximum
      BY <1>1, <1>10, <2>1
    <2>4. Tiling(rest, c, b, good, cuts, edges) /\ rest # <<>> /\ rest \in Seq(Span)
      BY <1>10, <2>1 DEF Tiling
    <2>5. rest[1][2] - p > maximum
      <3>1. CASE b - c > maximum
        <4> DEFINE d == Cut(c)
        <4>1. rest[1][2] = d /\ d \in Nat /\ c < d
          BY <1>10, <2>1, <3>1, CutIs
        <4>2. d - 1 \in text.blank \/ d = c + maximum
          BY <2>1, CutIs
        <4>3. d - 1 \in text.blank /\ d <= p + maximum => d <= c
          BY <2>1, <4>1, CutIs
        <4> HIDE DEF d
        <4>4. ~(d <= p + maximum)
          BY <1>1, <2>1, <4>1, <4>2, <4>3
        <4> HIDE DEF rest, c
        <4> QED
          BY <1>1, <2>1, <4>1, <4>4
      <3>2. CASE ~(b - c > maximum)
        <4>1. rest[1][2] = b
          BY <1>10, <2>1, <3>2
        <4> QED
          BY <1>10, <4>1
      <3> QED
        BY <3>1, <3>2
    <2> HIDE DEF c, rest, Fits
    <2>6. Tiling(<<<<p, c>>>>, p, c, good, cuts, edges)
      BY <2>1, <2>3, OneTile
    <2> DEFINE one == <<<<p, c>>>>
    <2>7. one \in Seq(Span) /\ one # <<>> /\ Len(one) = 1 /\ one[1] = <<p, c>>
      BY <2>1 DEF Span
    <2>8. HeldApart(one[Len(one)], rest[1], edges)
      BY <2>5, <2>7 DEF HeldApart
    <2> HIDE DEF one
    <2>9. Tiling(one \o rest, p, b, good, cuts, edges)
      BY <2>3, <2>4, <2>6, <2>8, TilingJoined DEF one
    <2>10. /\ one \o rest # <<>> /\ (one \o rest)[1] = one[1]
      BY <2>4, <2>7
    <2>11. total[p] = one \o rest /\ one[1][1] = p /\ one[1][2] = c
      BY <2>2, <2>7 DEF one
    <2> QED
      BY <1>10, <2>9, <2>10, <2>11 DEF Fits, c
  <1> HIDE DEF Fits
  <1>11. 0 \in Good
    <2>1. \A p \in a .. b : b - p <= 0 => ~(b - p > maximum)
      BY <1>1
    <2> QED
      BY <1>9, <2>1
  <1>12. ASSUME NEW n \in Nat, n \in Good PROVE n + 1 \in Good
    <2> SUFFICES ASSUME NEW p \in a .. b, b - p <= n + 1, b - p > maximum PROVE Fits(p)
      BY <1>9
    <2>1. Cut(p) \in a .. b /\ b - Cut(p) <= n
      BY <1>2
    <2> QED
      BY <1>10, <1>12, <2>1
  <1>13. Nat \subseteq Good
    <2> HIDE DEF Good
    <2> QED
      BY <1>11, <1>12, NatInductionIn
  <1>14. Fits(a)
    <2>1. b - a \in Nat /\ a \in a .. b /\ b - a <= b - a
      OBVIOUS
    <2> QED
      BY <1>13, <2>1
  <1> QED
    BY <1>7, <1>14 DEF Fits

-----------------------------------------------------------------------------
(* Merging the small ends *)

\* The spans of a tiling are spans within its bounds.
LEMMA TilingOrdered ==
  ASSUME NEW a, NEW b \in Nat, NEW good, NEW cuts, NEW edges, NEW s,
         Tiling(s, a, b, good, cuts, edges)
  PROVE  \A i \in 1 .. Len(s) : /\ s[i] = <<s[i][1], s[i][2]>> /\ s[i] \in Span
                                /\ s[i][1] \in Nat /\ s[i][2] \in Nat
                                /\ s[i][1] < s[i][2] /\ s[i][2] <= b
  <1> DEFINE n == Len(s)
             Good == {j \in Nat : j < n => s[n - j][2] <= b}
  <1>1. s \in Seq(Span) /\ n \in Nat
    BY DEF Tiling
  <1>2. \A i \in 1 .. n : /\ s[i] \in Span /\ s[i] = <<s[i][1], s[i][2]>>
                          /\ s[i][1] \in Nat /\ s[i][2] \in Nat /\ s[i][1] < s[i][2]
    <2> SUFFICES ASSUME NEW i \in 1 .. n
                 PROVE  /\ s[i] \in Span /\ s[i] = <<s[i][1], s[i][2]>>
                        /\ s[i][1] \in Nat /\ s[i][2] \in Nat /\ s[i][1] < s[i][2]
      OBVIOUS
    <2>1. s[i] \in Span
      BY <1>1, ElementOfSeq
    <2>2. 0 < Size(s[i])
      BY DEF Tiling
    <2>3. /\ s[i] = <<s[i][1], s[i][2]>> /\ s[i][1] \in Nat /\ s[i][2] \in Nat
      BY <2>1, SpanIsPair
    <2> QED
      BY <2>1, <2>2, <2>3 DEF Size
  <1>3. 0 \in Good
    <2> SUFFICES ASSUME 0 < n PROVE s[n][2] <= b
      BY <1>1
    <2>1. s # <<>>
      BY <1>1, EmptySeq
    <2> QED
      BY <1>1, <2>1 DEF Tiling
  <1>4. ASSUME NEW j \in Nat, j \in Good PROVE j + 1 \in Good
    <2> SUFFICES ASSUME j + 1 < n PROVE s[n - (j + 1)][2] <= b
      OBVIOUS
    <2> DEFINE i == n - (j + 1)
    <2>1. i \in 1 .. n - 1 /\ i \in 1 .. n /\ i + 1 \in 1 .. n /\ i + 1 = n - j /\ j < n
      BY <1>1
    <2>2. s[i][2] = s[i + 1][1] /\ s[i + 1][2] <= b
      BY <1>4, <2>1 DEF Tiling
    <2> HIDE DEF i
    <2>3. s[i][2] <= b
      BY <1>2, <2>1, <2>2
    <2> QED
      BY <2>3 DEF i
  <1>5. Nat \subseteq Good
    <2> HIDE DEF Good
    <2> QED
      BY <1>3, <1>4, NatInductionIn
  <1>6. ASSUME NEW i \in 1 .. n PROVE s[i][2] <= b
    <2>1. n - i \in Nat /\ n - i < n /\ n - (n - i) = i
      BY <1>1
    <2>2. n - i \in Good
      BY <1>5, <2>1
    <2> QED
      BY <2>1, <2>2
  <1> QED
    BY <1>2, <1>6

\* u is the spans before the k-th, v those after it.
Parted(s, k, u, v, a, b, good, cuts, edges) ==
  /\ u \in Seq(Span) /\ Len(u) = k - 1 /\ \A i \in 1 .. k - 1 : u[i] = s[i]
  /\ Tiling(u, a, s[k][1], good, cuts, edges)
  /\ v \in Seq(Span) /\ Len(v) = Len(s) - k /\ \A i \in 1 .. Len(s) - k : v[i] = s[k + i]
  /\ Tiling(v, s[k][2], b, good, cuts, edges)
  /\ k > 1 => s[k][1] \in cuts /\ HeldApart(s[k - 1], s[k], edges) /\ s[k - 1][2] = s[k][1]
  /\ k < Len(s) => s[k][2] \in cuts /\ HeldApart(s[k], s[k + 1], edges) /\ s[k][2] = s[k + 1][1]

\* A tiling can be taken apart at any of its spans.
LEMMA TilingParts ==
  ASSUME NEW a, NEW b \in Nat, NEW good, NEW cuts, NEW edges, NEW s,
         Tiling(s, a, b, good, cuts, edges), NEW k \in 1 .. Len(s),
         NEW u, u = SubSeq(s, 1, k - 1), NEW v, v = SubSeq(s, k + 1, Len(s))
  PROVE  Parted(s, k, u, v, a, b, good, cuts, edges)
  <1> DEFINE n == Len(s)
  <1>1. s \in Seq(Span) /\ n \in Nat /\ k \in Nat /\ 1 <= k /\ k <= n
    BY DEF Tiling
  <1>2. s # <<>>
    BY <1>1, EmptySeq
  <1>3. u \in Seq(Span) /\ Len(u) = k - 1 /\ \A i \in 1 .. k - 1 : u[i] = s[i]
    BY <1>1
  <1>4. v \in Seq(Span) /\ Len(v) = n - k /\ \A i \in 1 .. n - k : v[i] = s[k + i]
    BY <1>1
  <1>5. /\ s[1][1] = a /\ s[n][2] = b
        /\ \A i \in 1 .. n : s[i] \in good /\ 0 < Size(s[i]) /\ Size(s[i]) <= maximum
        /\ \A i \in 1 .. n - 1 :
             s[i][2] = s[i + 1][1] /\ s[i][2] \in cuts /\ HeldApart(s[i], s[i + 1], edges)
    BY <1>2 DEF Tiling
  <1> HIDE DEF n
  <1>6. u = <<>> <=> k = 1
    <2>1. u = <<>> <=> Len(u) = 0
      BY <1>3, EmptySeq
    <2>2. k - 1 = 0 <=> k = 1
      BY <1>1
    <2> QED
      BY <1>3, <2>1, <2>2
  <1>7. v = <<>> <=> k = n
    <2>1. v = <<>> <=> Len(v) = 0
      BY <1>4, EmptySeq
    <2>2. n - k = 0 <=> k = n
      BY <1>1
    <2> QED
      BY <1>4, <2>1, <2>2
  <1>8. k > 1 => s[k][1] \in cuts /\ HeldApart(s[k - 1], s[k], edges) /\ s[k - 1][2] = s[k][1]
    <2> HAVE k > 1
    <2>1. k - 1 \in 1 .. n - 1 /\ (k - 1) + 1 = k
      BY <1>1
    <2>2. LET i == k - 1 IN s[i][2] = s[i + 1][1] /\ s[i][2] \in cuts /\ HeldApart(s[i], s[i + 1], edges)
      BY <1>5, <2>1
    <2> QED
      BY <2>1, <2>2
  <1>9. k < n => s[k][2] \in cuts /\ HeldApart(s[k], s[k + 1], edges) /\ s[k][2] = s[k + 1][1]
    <2> HAVE k < n
    <2>1. k \in 1 .. n - 1
      BY <1>1
    <2> QED
      BY <1>5, <2>1
  <1>10. Tiling(u, a, s[k][1], good, cuts, edges)
    <2>1. IF u = <<>> THEN a = s[k][1] ELSE u[1][1] = a /\ u[Len(u)][2] = s[k][1]
      <3>1. CASE k = 1
        BY <1>5, <1>6, <3>1
      <3>2. CASE k # 1
        <4>1. 1 \in 1 .. k - 1 /\ k - 1 \in 1 .. k - 1 /\ k > 1
          BY <1>1, <3>2
        <4> QED
          BY <1>3, <1>5, <1>6, <1>8, <3>2, <4>1
      <3> QED
        BY <3>1, <3>2
    <2>2. ASSUME NEW i \in 1 .. Len(u) PROVE u[i] \in good /\ 0 < Size(u[i]) /\ Size(u[i]) <= maximum
      <3>1. i \in 1 .. n /\ u[i] = s[i]
        BY <1>1, <1>3
      <3> QED
        BY <1>5, <3>1
    <2>3. ASSUME NEW i \in 1 .. Len(u) - 1
          PROVE  u[i][2] = u[i + 1][1] /\ u[i][2] \in cuts /\ HeldApart(u[i], u[i + 1], edges)
      <3>1. i \in 1 .. n - 1 /\ u[i] = s[i] /\ u[i + 1] = s[i + 1]
        BY <1>1, <1>3
      <3> QED
        BY <1>5, <3>1
    <2> QED
      BY <1>3, <2>1, <2>2, <2>3 DEF Tiling
  <1>11. Tiling(v, s[k][2], b, good, cuts, edges)
    <2>1. IF v = <<>> THEN s[k][2] = b ELSE v[1][1] = s[k][2] /\ v[Len(v)][2] = b
      <3>1. CASE k = n
        BY <1>5, <1>7, <3>1
      <3>2. CASE k # n
        <4>1. 1 \in 1 .. n - k /\ n - k \in 1 .. n - k /\ k < n /\ k + (n - k) = n
          BY <1>1, <3>2
        <4>2. v[1] = s[k + 1] /\ v[n - k] = s[n]
          BY <1>4, <4>1
        <4> QED
          BY <1>4, <1>5, <1>7, <1>9, <3>2, <4>1, <4>2
      <3> QED
        BY <3>1, <3>2
    <2>2. ASSUME NEW i \in 1 .. Len(v) PROVE v[i] \in good /\ 0 < Size(v[i]) /\ Size(v[i]) <= maximum
      <3>1. k + i \in 1 .. n /\ v[i] = s[k + i]
        BY <1>1, <1>4
      <3> QED
        BY <1>5, <3>1
    <2>3. ASSUME NEW i \in 1 .. Len(v) - 1
          PROVE  v[i][2] = v[i + 1][1] /\ v[i][2] \in cuts /\ HeldApart(v[i], v[i + 1], edges)
      <3>1. /\ k + i \in 1 .. n - 1 /\ i \in 1 .. n - k /\ i + 1 \in 1 .. n - k
            /\ k + (i + 1) = (k + i) + 1
        <4>1. i \in 1 .. (n - k) - 1
          BY <1>4
        <4> QED
          BY <1>1, <4>1
      <3>2. v[i] = s[k + i] /\ v[i + 1] = s[(k + i) + 1]
        BY <1>4, <3>1
      <3> QED
        BY <1>5, <3>1, <3>2
    <2> QED
      BY <1>4, <2>1, <2>2, <2>3 DEF Tiling
  <1> QED
    BY <1>3, <1>4, <1>8, <1>9, <1>10, <1>11 DEF n, Parted

\* What is good stays so when it is taken further.
GrowsRight(good, b) == \A x \in good : \A d \in Nat : x[2] <= d /\ d <= b => <<x[1], d>> \in good

\* What is true of the last chunk.
LastStuck(s) ==
  Len(s) > 1 /\ Size(s[Len(s)]) < minimum => s[Len(s)][2] - s[Len(s) - 1][1] > maximum

\* The backward loop of _merge_runts keeps a tiling, and leaves a last chunk it could not merge.
LEMMA MergedBackward ==
  ASSUME NEW a, NEW b \in Nat, NEW good, NEW cuts, NEW edges, NEW s, s # <<>>,
         Tiling(s, a, b, good, cuts, edges), GrowsRight(good, b)
  PROVE  /\ MergeBackward(s) # <<>> /\ Tiling(MergeBackward(s), a, b, good, cuts, edges)
         /\ LastStuck(MergeBackward(s))
  <1> DEFINE n == Len(s)
             stops == {i \in 1 .. n : i > 1 => b - s[i][1] >= minimum \/ b - s[i - 1][1] > maximum}
             k == Max(stops)
             front == SubSeq(s, 1, k - 1)
             e == s[k][1]
  <1>1. s \in Seq(Span) /\ n \in Nat /\ n # 0 /\ Last(s)[2] = b /\ maximum \in Nat /\ minimum \in Nat
    BY EmptySeq, SizesAssumption DEF Tiling, Last
  <1>2. \A i \in 1 .. n : s[i][1] \in Nat /\ s[i][2] \in Nat /\ s[i][1] < s[i][2] /\ s[i][2] <= b
                          /\ s[i] = <<s[i][1], s[i][2]>>
    BY TilingOrdered
  <1>3. MergeBackward(s) = Append(front, <<e, b>>)
    BY <1>1 DEF MergeBackward
  <1>4. k \in 1 .. n /\ k \in stops /\ (k < n => k + 1 \notin stops)
    <2>1. 1 \in stops /\ stops \subseteq Nat
      BY <1>1
    <2>2. IsFiniteSet(stops)
      <3>1. IsFiniteSet(1 .. n)
        BY <1>1, FS_Interval
      <3> QED
        BY <3>1, FS_Subset
    <2>3. k \in stops /\ \A m \in stops : m <= k
      <3> HIDE DEF stops
      <3> QED
        BY <2>1, <2>2, MaxOf
    <2>4. k \in 1 .. n
      BY <2>3
    <2> HIDE DEF k, stops
    <2>5. ~(k + 1 <= k)
      BY <2>4
    <2> QED
      BY <2>3, <2>4, <2>5
  <1> HIDE DEF k
  <1>5. /\ front \in Seq(Span) /\ Len(front) = k - 1
        /\ \A i \in 1 .. k - 1 : front[i] = s[i]
        /\ Tiling(front, a, e, good, cuts, edges)
        /\ k > 1 => e \in cuts /\ HeldApart(s[k - 1], s[k], edges)
    <2> DEFINE after == SubSeq(s, k + 1, n)
    <2>1. front = SubSeq(s, 1, k - 1) /\ after = SubSeq(s, k + 1, Len(s)) /\ k \in 1 .. Len(s)
      BY <1>4
    <2> HIDE DEF front, after
    <2>2. Parted(s, k, front, after, a, b, good, cuts, edges)
      BY <2>1, TilingParts
    <2> QED
      BY <2>2 DEF Parted
  <1>6. e \in Nat /\ e < b
    BY <1>2, <1>4
  <1>7. b - e <= maximum
    <2>1. CASE k = n
      <3>1. Size(s[n]) <= maximum /\ s[n][2] = b
        BY <1>1, <1>4 DEF Tiling
      <3> QED
        BY <2>1, <3>1 DEF Size
    <2>2. CASE k # n
      <3>1. k + 1 \in 1 .. n /\ (k + 1) - 1 = k /\ k + 1 > 1 /\ k < n
        BY <1>1, <1>4, <2>2
      <3>2. ~(b - s[k][1] > maximum)
        BY <1>4, <3>1
      <3> QED
        BY <1>1, <1>6, <3>2
    <2> QED
      BY <2>1, <2>2
  <1>8. <<e, b>> \in good
    <2>1. s[k] \in good
      BY <1>4 DEF Tiling
    <2> QED
      BY <1>2, <1>4, <2>1 DEF GrowsRight
  <1>9. front # <<>> => k > 1
    BY <1>4, <1>5, EmptySeq
  <1>10. front # <<>> => e \in cuts /\ HeldApart(front[Len(front)], <<e, b>>, edges)
    <2> HAVE front # <<>>
    <2>1. k > 1 /\ k - 1 \in 1 .. k - 1 /\ k - 1 \in 1 .. n
      BY <1>4, <1>9
    <2>2. front[Len(front)] = s[k - 1] /\ s[k - 1][1] \in Nat
      BY <1>2, <1>5, <2>1
    <2>3. HeldApart(s[k - 1], <<e, b>>, edges)
      <3>1. HeldApart(s[k - 1], s[k], edges) /\ s[k][2] \in Nat /\ s[k][2] <= b
        BY <1>2, <1>4, <1>5, <2>1
      <3> QED
        BY <1>1, <2>2, <3>1 DEF HeldApart
    <2> QED
      BY <1>5, <2>1, <2>2, <2>3
  <1> DEFINE m == Append(front, <<e, b>>)
  <1>11. Tiling(m, a, b, good, cuts, edges)
    <2> HIDE DEF front, e
    <2> QED
      BY <1>5, <1>6, <1>7, <1>8, <1>10, TilingAppended
  <1>12. /\ m \in Seq(Span) /\ Len(m) = k /\ m # <<>> /\ m[k] = <<e, b>>
         /\ \A i \in 1 .. k - 1 : m[i] = s[i]
    <2>1. <<e, b>> \in Span
      BY <1>6 DEF Span
    <2> DEFINE x == <<e, b>>
    <2>2. k \in Nat /\ front \in Seq(Span) /\ Len(front) = k - 1
      BY <1>4, <1>5
    <2>3. m = Append(front, x) /\ x \in Span
      BY <2>1
    <2> HIDE DEF front, x, m
    <2>4. m \in Seq(Span) /\ Len(m) = k /\ m # <<>> /\ m[k] = x
      BY <2>2, <2>3
    <2>5. \A i \in 1 .. k - 1 : m[i] = front[i]
      BY <2>2, <2>3
    <2> QED
      BY <1>5, <2>4, <2>5 DEF x
  <1>13. LastStuck(m)
    <2> SUFFICES ASSUME k > 1, b - e < minimum PROVE b - s[k - 1][1] > maximum
      <3>1. Len(m) > 1 => k - 1 \in 1 .. k - 1 /\ m[k - 1] = s[k - 1]
        BY <1>4, <1>12
      <3> HIDE DEF m, e
      <3> QED
        BY <1>12, <3>1 DEF LastStuck, Size
    <2>1. b - s[k][1] >= minimum \/ b - s[k - 1][1] > maximum
      BY <1>4
    <2> QED
      BY <1>1, <1>6, <2>1
  <1> QED
    BY <1>3, <1>11, <1>12, <1>13

\* What is true of the first chunk.
FirstStuck(s, edges) ==
  Len(s) > 1 /\ Size(s[1]) < minimum =>
    \/ s[2][2] - s[1][1] > maximum
    \/ s[1][2] \in edges /\ \E e \in edges : e \in Nat /\ s[1][1] < e /\ e < s[1][2]

\* So does the forward step of _merge_runts, for the first chunk.
LEMMA MergedForward ==
  ASSUME NEW a, NEW b \in Nat, NEW good, NEW cuts, NEW edges, NEW s, s # <<>>,
         Tiling(s, a, b, good, cuts, edges), GrowsRight(good, b), LastStuck(s)
  PROVE  /\ MergeForward(s) # <<>> /\ Tiling(MergeForward(s), a, b, good, cuts, edges)
         /\ LastStuck(MergeForward(s)) /\ FirstStuck(MergeForward(s), edges)
  <1> DEFINE n == Len(s)
  <1>1. /\ s \in Seq(Span) /\ n \in Nat /\ n # 0
        /\ maximum \in Nat /\ minimum \in Nat /\ target \in Nat /\ minimum <= target
    BY EmptySeq, SizesAssumption DEF Tiling
  <1>2. \A i \in 1 .. n : s[i][1] \in Nat /\ s[i][2] \in Nat /\ s[i][1] < s[i][2] /\ s[i][2] <= b
                          /\ s[i] = <<s[i][1], s[i][2]>>
    BY TilingOrdered
  <1>3. CASE ~(n > 1 /\ Size(s[1]) < minimum /\ s[2][2] - s[1][1] <= maximum)
    <2>1. MergeForward(s) = s
      BY <1>3 DEF MergeForward
    <2>2. FirstStuck(s, edges)
      <3> SUFFICES ASSUME n > 1, Size(s[1]) < minimum PROVE s[2][2] - s[1][1] > maximum
        BY DEF FirstStuck
      <3>1. 1 \in 1 .. n /\ 2 \in 1 .. n
        BY <1>1
      <3> QED
        BY <1>1, <1>2, <1>3, <3>1
    <2> QED
      BY <2>1, <2>2
  <1>4. CASE n > 1 /\ Size(s[1]) < minimum /\ s[2][2] - s[1][1] <= maximum
    <2> DEFINE c == s[2][2]
               rest == SubSeq(s, 3, n)
               one == <<<<a, c>>>>
               m == one \o rest
    <2>1. 1 \in 1 .. n /\ 2 \in 1 .. n /\ s[1][1] = a /\ s[1][2] = s[2][1]
      <3>1. 1 \in 1 .. n - 1 /\ 1 + 1 = 2
        BY <1>1, <1>4
      <3> QED
        BY <1>1, <1>4, <3>1 DEF Tiling
    <2>2. a \in Nat /\ c \in Nat /\ a < s[1][2] /\ s[1][2] < c /\ c <= b /\ s[1][2] \in Nat
      BY <1>2, <2>1
    <2>3. MergeForward(s) = m
      BY <1>4, <2>1 DEF MergeForward
    <2>4. /\ rest \in Seq(Span) /\ Len(rest) = n - 2
          /\ \A i \in 1 .. n - 2 : rest[i] = s[2 + i]
          /\ Tiling(rest, c, b, good, cuts, edges)
          /\ 2 < n => c \in cuts /\ HeldApart(s[2], s[3], edges)
      <3> DEFINE before == SubSeq(s, 1, 2 - 1)
      <3>1. 2 + 1 = 3 /\ rest = SubSeq(s, 2 + 1, Len(s)) /\ before = SubSeq(s, 1, 2 - 1)
        OBVIOUS
      <3> HIDE DEF rest, before
      <3>2. Parted(s, 2, before, rest, a, b, good, cuts, edges)
        BY <2>1, <3>1, TilingParts
      <3> QED
        BY <3>1, <3>2 DEF Parted, c
    <2>5. HeldApart(s[1], s[2], edges)
      <3>1. 1 \in 1 .. n - 1 /\ 1 + 1 = 2
        BY <1>1, <1>4
      <3> QED
        BY <3>1 DEF Tiling
    <2>6. <<a, c>> \in good
      <3>1. s[1] \in good
        BY <2>1 DEF Tiling
      <3> QED
        BY <2>1, <2>2, <3>1 DEF GrowsRight
    <2> HIDE DEF rest, c
    <2>7. Tiling(one, a, c, good, cuts, edges)
      BY <1>4, <2>1, <2>2, <2>6, OneTile DEF c
    <2>8. one \in Seq(Span) /\ one # <<>> /\ Len(one) = 1 /\ one[1] = <<a, c>>
      BY <2>2 DEF Span
    <2>9. rest # <<>> => n > 2 /\ rest[1] = s[3] /\ 3 \in 1 .. n /\ s[3][2] \in Nat
      <3>1. rest # <<>> => n > 2 /\ 1 \in 1 .. n - 2 /\ 2 + 1 = 3 /\ 3 \in 1 .. n
        BY <1>1, <1>4, <2>4, EmptySeq
      <3> QED
        BY <1>2, <2>4, <3>1
    <2>10. n > 2 => HeldApart(<<a, c>>, s[3], edges)
      <3> HAVE n > 2
      <3>1. HeldApart(s[2], s[3], edges) /\ 3 \in 1 .. n
        BY <1>1, <2>4
      <3>2. s[3][2] \in Nat /\ s[2][1] \in Nat /\ s[2][1] > a
        BY <1>2, <2>1, <2>2, <3>1
      <3> QED
        BY <1>1, <2>2, <3>1, <3>2 DEF HeldApart, Size, c
    <2> HIDE DEF one
    <2>11. Tiling(m, a, b, good, cuts, edges)
      BY <2>4, <2>7, <2>8, <2>9, <2>10, TilingJoined
    <2>12. /\ m # <<>> /\ Len(m) = n - 1 /\ m[1] = <<a, c>>
           /\ \A i \in 2 .. n - 1 : m[i] = s[i + 1]
      <3>0. /\ m \in Seq(Span) /\ Len(m) = 1 + Len(rest) /\ m[1] = one[1]
            /\ \A i \in 1 .. Len(rest) : m[1 + i] = rest[i]
        <4>1. one \in Seq(Span) /\ rest \in Seq(Span) /\ Len(one) \in Nat /\ Len(rest) \in Nat
          BY <2>4, <2>8
        <4>2. /\ m \in Seq(Span) /\ Len(m) = Len(one) + Len(rest)
              /\ \A i \in 1 .. Len(one) : m[i] = one[i]
              /\ \A i \in 1 .. Len(rest) : m[Len(one) + i] = rest[i]
          BY <4>1
        <4> QED
          BY <2>8, <4>2
      <3> HIDE DEF m
      <3>1. m # <<>> /\ Len(m) = n - 1 /\ m[1] = <<a, c>>
        BY <1>1, <2>4, <2>8, <3>0, EmptySeq
      <3>2. ASSUME NEW i \in 2 .. n - 1 PROVE m[i] = s[i + 1]
        <4>1. i - 1 \in 1 .. n - 2 /\ 2 + (i - 1) = i + 1 /\ i = 1 + (i - 1)
          BY <1>1
        <4>2. m[1 + (i - 1)] = rest[i - 1]
          BY <2>4, <3>0, <4>1
        <4> QED
          BY <2>4, <4>1, <4>2
      <3> QED
        BY <3>1, <3>2
    <2> HIDE DEF m
    <2>13. LastStuck(m)
      <3> SUFFICES ASSUME n > 2, Size(m[n - 1]) < minimum
                   PROVE  m[n - 1][2] - m[n - 2][1] > maximum
        <4>1. Len(m) > 1 => n > 2
          BY <1>1, <2>12
        <4>2. Len(m) - 1 = n - 2
          BY <1>1, <2>12
        <4> QED
          BY <2>12, <4>1, <4>2 DEF LastStuck
      <3>1. n - 1 \in 2 .. n - 1 /\ (n - 1) + 1 = n /\ n \in 1 .. n /\ n - 1 \in 1 .. n
        BY <1>1
      <3>2. m[n - 1] = s[n]
        BY <2>12, <3>1
      <3>3. s[n][2] - s[n - 1][1] > maximum
        BY <3>2 DEF LastStuck
      <3>4. CASE n = 3
        <4>1. m[n - 2] = <<a, c>> /\ n - 1 = 2
          BY <2>12, <3>4
        <4>2. s[2][1] > a /\ s[2][1] \in Nat
          BY <2>1, <2>2
        <4>3. s[n][2] \in Nat
          BY <1>2, <3>1
        <4> HIDE DEF n
        <4> QED
          BY <1>1, <2>2, <3>2, <3>3, <4>1, <4>2, <4>3
      <3>5. CASE n # 3
        <4>0. n \in Nat /\ n > 2 /\ n # 3
          BY <1>1, <3>5
        <4> HIDE DEF n
        <4>1. n - 2 \in 2 .. n - 1 /\ (n - 2) + 1 = n - 1
          BY <4>0
        <4> QED
          BY <2>12, <3>2, <3>3, <4>1
      <3> QED
        BY <3>4, <3>5
    <2>14. FirstStuck(m, edges)
      <3> SUFFICES ASSUME n > 2, c - a < minimum
                   PROVE  \/ m[2][2] - a > maximum
                          \/ c \in edges /\ \E e \in edges : e \in Nat /\ a < e /\ e < c
        <4>1. Len(m) > 1 => n > 2
          BY <1>1, <2>12
        <4>2. Size(m[1]) = c - a /\ m[1][1] = a /\ m[1][2] = c
          BY <2>12 DEF Size
        <4> QED
          BY <4>1, <4>2 DEF FirstStuck
      <3>1. 2 \in 2 .. n - 1 /\ 3 \in 1 .. n /\ 2 + 1 = 3
        BY <1>1
      <3>2. m[2] = s[3] /\ s[3][2] \in Nat
        BY <1>2, <2>12, <3>1
      <3>3. s[1][2] \in edges
        BY <1>1, <1>4, <2>1, <2>2, <2>5 DEF HeldApart, Size, c
      <3>4. m[2][2] - a > maximum \/ c \in edges
        <4>1. HeldApart(<<a, c>>, s[3], edges)
          BY <2>10
        <4>2. <<a, c>>[1] = a /\ <<a, c>>[2] = c /\ Size(<<a, c>>) = c - a
          BY DEF Size
        <4> QED
          BY <1>1, <2>2, <3>2, <4>1, <4>2 DEF HeldApart
      <3> QED
        BY <2>2, <3>3, <3>4
    <2> QED
      BY <2>3, <2>11, <2>12, <2>13, <2>14
  <1> QED
    BY <1>3, <1>4

-----------------------------------------------------------------------------
(* The paragraphs and the sentences of a text *)

\* Where a paragraph or a sentence starts.
Starts == text.paragraphs \cup text.sentences

\* What every text has.
TextFormed ==
  /\ text.length \in Nat
  /\ text.blank \subseteq Positions(text.length)
  /\ text.paragraphs \subseteq WordStarts(text)
  /\ text.sentences \subseteq WordStarts(text)
  /\ text.pages \subseteq 0 .. text.length
  /\ 0 \in text.pages
  /\ IsFiniteSet(text.pages) /\ Cardinality(text.pages) <= MaxPages

\* The spans that hold a word, or are cut off an oversized sentence.
Covered ==
  {x \in Span : /\ x[1] < x[2] /\ x[2] <= text.length
                /\ HoldsWord(x) \/ \E s \in Sentences : s[1] <= x[1] /\ x[2] <= s[2] /\ Size(s) > maximum}

\* The ends of what is oversized.
Edges == {e \in Nat : \E x \in Paragraphs \cup Sentences : Size(x) > maximum /\ (e = x[1] \/ e = x[2])}

\* Where the preference allows to cut.
Allowed ==
  {c \in Nat : /\ \A span \in Paragraphs \cup Sentences : Inside(c, span) => Size(span) > maximum
               /\ \A span \in Words : Inside(c, span) =>
                    \E word \in Words : Inside(c, word) /\ Size(word) > maximum}

\* Any starts in the text.
StartsFormed(S) == S \subseteq Starts

\* Starts are positions that are not blank, at the start of a word.
LEMMA StartFacts ==
  ASSUME TextFormed, NEW S, StartsFormed(S)
  PROVE  /\ S \subseteq Nat /\ IsFiniteSet(S)
         /\ \A q \in S : /\ q \in Nat /\ 0 <= q /\ q < text.length /\ q \notin text.blank
                         /\ q = 0 \/ q - 1 \in text.blank
  <1>1. \A q \in S : q \in WordStarts(text)
    BY DEF StartsFormed, Starts, TextFormed
  <1>2. \A q \in S : /\ q \in Nat /\ 0 <= q /\ q < text.length /\ q \notin text.blank
                     /\ q = 0 \/ q - 1 \in text.blank
    BY <1>1 DEF WordStarts, Positions, TextFormed
  <1>3. S \subseteq 0 .. text.length /\ text.length \in Nat
    BY <1>2 DEF TextFormed
  <1>4. IsFiniteSet(S)
    <2>1. IsFiniteSet(0 .. text.length)
      BY <1>3, FS_Interval
    <2> QED
      BY <1>3, <2>1, FS_Subset
  <1> QED
    BY <1>2, <1>4

\* A stretch begins at its start, or at 0 if that is the first.
StretchFrom(x, p, S, to) ==
  /\ x \in Span /\ x[1] \in Nat /\ x[2] \in Nat
  /\ x[1] <= p /\ p < x[2] /\ x[2] <= to
  /\ x[1] = 0 \/ x[1] = p
  /\ (\E q \in S : q < p) => x[1] = p
  /\ \A q \in S : q <= p \/ x[2] <= q
  /\ x[2] # to => x[2] \in S

\* The stretch of a start is one of Stretches.
LEMMA StretchIs ==
  ASSUME TextFormed, NEW S, StartsFormed(S), NEW p \in S, NEW x,
         x = <<Begin(S, p, 0), End(S, p, text.length)>>
  PROVE  x \in Stretches(S) /\ StretchFrom(x, p, S, text.length)
  <1>1. /\ S \subseteq Nat /\ text.length \in Nat
        /\ \A q \in S : q \in Nat /\ q < text.length
    BY StartFacts DEF TextFormed
  <1>2. x \in Stretches(S)
    BY DEF Stretches, Begin, End
  <1> DEFINE b == Begin(S, p, 0)
             e == End(S, p, text.length)
  <1>3. /\ p < e /\ e <= text.length /\ e \in Nat
        /\ e # text.length => e \in S
        /\ \A q \in S : q <= p \/ e <= q
    BY <1>1, EndIs
  <1>4. /\ b \in Nat /\ b <= p /\ (b = 0 \/ b = p)
        /\ (\E q \in S : q < p) => b = p
    <2>1. \A q \in S : q < p => ~(p <= q)
      BY <1>1
    <2> QED
      BY <1>1, <2>1 DEF Begin
  <1>5. x \in Span /\ x[1] = b /\ x[2] = e
    <2>1. x = <<b, e>>
      OBVIOUS
    <2> HIDE DEF b, e
    <2> QED
      BY <1>3, <1>4, <2>1 DEF Span
  <1> HIDE DEF b, e
  <1> QED
    BY <1>2, <1>3, <1>4, <1>5 DEF StretchFrom

\* Every one of Stretches is the stretch of a start.
LEMMA StretchHasStart ==
  ASSUME TextFormed, NEW S, StartsFormed(S), NEW x \in Stretches(S)
  PROVE  \E p \in S : x = <<Begin(S, p, 0), End(S, p, text.length)>> /\ StretchFrom(x, p, S, text.length)
  <1>1. PICK p \in S : x = <<Begin(S, p, 0), End(S, p, text.length)>>
    BY DEF Stretches, Begin, End
  <1> QED
    BY <1>1, StretchIs

\* Two stretches do not overlap.
LEMMA StretchesApart ==
  ASSUME TextFormed, NEW S, StartsFormed(S), NEW x \in Stretches(S), NEW y \in Stretches(S),
         NEW c \in Nat, Inside(c, x), Inside(c, y)
  PROVE  x = y
  <1>1. PICK p \in S : x = <<Begin(S, p, 0), End(S, p, text.length)>> /\ StretchFrom(x, p, S, text.length)
    BY StretchHasStart
  <1>2. PICK r \in S : y = <<Begin(S, r, 0), End(S, r, text.length)>> /\ StretchFrom(y, r, S, text.length)
    BY StretchHasStart
  <1>3. p \in Nat /\ r \in Nat
    BY StartFacts
  <1>4. ~(p < r)
    BY <1>1, <1>2, <1>3 DEF StretchFrom, Inside
  <1>5. ~(r < p)
    BY <1>1, <1>2, <1>3 DEF StretchFrom, Inside
  <1>6. p = r
    BY <1>3, <1>4, <1>5
  <1> QED
    BY <1>1, <1>2, <1>6

\* A start, but for the first, is inside of no stretch.
LEMMA NoneInside ==
  ASSUME TextFormed, NEW S, StartsFormed(S), NEW c \in S, \E q \in S : q < c, NEW x \in Stretches(S)
  PROVE  ~Inside(c, x)
  <1>1. PICK p \in S : StretchFrom(x, p, S, text.length)
    BY StretchHasStart
  <1>2. PICK q \in S : q < c
    OBVIOUS
  <1>3. p \in Nat /\ c \in Nat /\ q \in Nat
    BY StartFacts
  <1>4. CASE c < p
    BY <1>1, <1>3, <1>4 DEF StretchFrom, Inside
  <1>5. CASE c = p
    BY <1>1, <1>2, <1>3, <1>5 DEF StretchFrom, Inside
  <1>6. CASE p < c
    BY <1>1, <1>3, <1>6 DEF StretchFrom, Inside
  <1> QED
    BY <1>3, <1>4, <1>5, <1>6

\* Paragraphs and sentences are the stretches of the two kinds of starts.
LEMMA TwoKinds ==
  ASSUME TextFormed
  PROVE  /\ StartsFormed(text.paragraphs) /\ StartsFormed(Starts)
         /\ Paragraphs = Stretches(text.paragraphs) /\ Sentences = Stretches(Starts)
  BY DEF StartsFormed, Starts, Paragraphs, Sentences

\* A start is not blank.
LEMMA HoldsStart ==
  ASSUME TextFormed, NEW p \in Starts, NEW a \in Nat, NEW b \in Nat, a <= p, p < b
  PROVE  HoldsWord(<<a, b>>)
  <1>1. p \in Nat /\ p \notin text.blank
    BY TwoKinds, StartFacts
  <1>2. p \in a .. b - 1
    BY <1>1
  <1> QED
    BY <1>1, <1>2 DEF HoldsWord

\* What is before a start is blank.
LEMMA NoWordInside ==
  ASSUME TextFormed, NEW c \in Nat, c - 1 \in text.blank, NEW span \in Words
  PROVE  ~Inside(c, span)
  <1> SUFFICES ASSUME Inside(c, span) PROVE FALSE
    OBVIOUS
  <1>1. /\ span[1] \in Nat /\ span[2] \in Nat
        /\ \A p \in span[1] .. span[2] - 1 : p \notin text.blank
    BY DEF Words, TextFormed
  <1>2. c - 1 \in span[1] .. span[2] - 1
    BY <1>1 DEF Inside
  <1> QED
    BY <1>1, <1>2

\* Taking a span further into a sentence takes in a word, or stays inside the one it is in.
LEMMA CoveredGrows ==
  ASSUME TextFormed
  PROVE  GrowsRight(Covered, text.length)
  <1> SUFFICES ASSUME NEW x \in Covered, NEW d \in Nat, x[2] <= d, d <= text.length
               PROVE  <<x[1], d>> \in Covered
    BY DEF GrowsRight
  <1> DEFINE y == <<x[1], d>>
  <1>1. /\ x \in Span /\ x[1] \in Nat /\ x[2] \in Nat /\ y \in Span /\ y[1] = x[1] /\ y[2] = d
        /\ text.length \in Nat
    BY DEF Covered, Span, TextFormed
  <1>2. CASE HoldsWord(x)
    <2>1. PICK p \in x[1] .. x[2] - 1 : p \notin text.blank
      BY <1>2 DEF HoldsWord
    <2>2. p \in x[1] .. d - 1
      BY <1>1, <2>1
    <2>3. HoldsWord(y)
      BY <1>1, <2>1, <2>2 DEF HoldsWord
    <2> QED
      BY <1>1, <2>3 DEF Covered
  <1>3. CASE ~HoldsWord(x)
    <2>1. PICK s \in Sentences : s[1] <= x[1] /\ x[2] <= s[2] /\ Size(s) > maximum
      BY <1>3 DEF Covered
    <2>2. CASE d <= s[2]
      <3>1. s[1] <= y[1] /\ y[2] <= s[2]
        BY <1>1, <2>1, <2>2
      <3> HIDE DEF y
      <3> QED
        BY <1>1, <2>1, <3>1 DEF Covered, y
    <2>3. CASE ~(d <= s[2])
      <3>1. PICK p \in Starts : StretchFrom(s, p, Starts, text.length)
        BY TwoKinds, StretchHasStart
      <3>2. s[2] \in Starts /\ s[2] \in Nat
        BY <1>1, <2>3, <3>1 DEF StretchFrom
      <3>3. x[1] <= s[2] /\ s[2] < d
        BY <1>1, <2>1, <2>3, <3>2 DEF Covered
      <3>4. HoldsWord(y)
        BY <1>1, <3>2, <3>3, HoldsStart
      <3> QED
        BY <1>1, <3>4 DEF Covered
    <2> QED
      BY <2>2, <2>3
  <1> QED
    BY <1>2, <1>3

-----------------------------------------------------------------------------
(* What the text is cut into *)

\* A paragraph that overlaps a sentence holds all of it.
LEMMA SentenceInParagraph ==
  ASSUME TextFormed, NEW x \in Sentences, NEW y \in Paragraphs,
         NEW c \in Nat, Inside(c, x), Inside(c, y)
  PROVE  y[1] <= x[1] /\ x[2] <= y[2]
  <1>1. PICK p \in Starts : StretchFrom(x, p, Starts, text.length)
    BY TwoKinds, StretchHasStart
  <1>2. PICK r \in text.paragraphs :
          /\ y = <<Begin(text.paragraphs, r, 0), End(text.paragraphs, r, text.length)>>
          /\ StretchFrom(y, r, text.paragraphs, text.length)
    BY TwoKinds, StretchHasStart
  <1>3. /\ x[1] \in Nat /\ x[2] \in Nat /\ y[1] \in Nat /\ y[2] \in Nat
        /\ p \in Nat /\ r \in Nat /\ r \in Starts /\ text.length \in Nat
    BY <1>1, <1>2, TwoKinds, StartFacts DEF StretchFrom, Starts, TextFormed
  <1>4. y[1] <= x[1]
    <2> SUFFICES ASSUME y[1] # 0 PROVE y[1] <= x[1]
      BY <1>3
    <2>1. y[1] = r
      BY <1>2 DEF StretchFrom
    <2>2. PICK q \in text.paragraphs : q < r
      <3>1. ~(\A q \in text.paragraphs : r <= q)
        BY <1>2 DEF Begin
      <3>2. \A q \in text.paragraphs : q \in Nat
        BY TwoKinds, StartFacts
      <3> QED
        BY <1>3, <3>1, <3>2
    <2>3. q \in Starts /\ q \in Nat
      BY <1>3, TwoKinds, StartFacts DEF Starts
    <2>4. r <= p \/ x[2] <= r
      BY <1>1, <1>3 DEF StretchFrom
    <2>5. r <= p
      BY <1>3, <2>1, <2>4 DEF Inside
    <2>6. q < p
      BY <1>3, <2>2, <2>3, <2>5
    <2>7. x[1] = p
      BY <1>1, <2>3, <2>6 DEF StretchFrom
    <2> QED
      BY <2>1, <2>5, <2>7
  <1>5. x[2] <= y[2]
    <2>1. CASE y[2] = text.length
      BY <1>1, <2>1 DEF StretchFrom
    <2>2. CASE y[2] # text.length
      <3>1. y[2] \in Starts
        BY <1>2, <2>2 DEF StretchFrom, Starts
      <3>2. y[2] <= p \/ x[2] <= y[2]
        BY <1>1, <3>1 DEF StretchFrom
      <3>3. CASE y[2] <= p
        <4>1. r < p
          BY <1>2, <1>3, <3>3 DEF StretchFrom
        <4>2. x[1] = p
          BY <1>1, <1>3, <4>1 DEF StretchFrom
        <4> QED
          BY <1>3, <3>3, <4>2 DEF Inside
      <3> QED
        BY <3>2, <3>3
    <2> QED
      BY <2>1, <2>2
  <1> QED
    BY <1>4, <1>5

\* An oversized sentence is cut at whitespace.
LEMMA SentenceSplit ==
  ASSUME TextFormed, NEW x \in Sentences, Size(x) > maximum
  PROVE  Tiling(SplitAtWhitespace(x), x[1], x[2], Covered, Allowed, Edges)
  <1> DEFINE a == x[1]
             b == x[2]
  <1>1. PICK p \in Starts : StretchFrom(x, p, Starts, text.length)
    BY TwoKinds, StretchHasStart
  <1>2. /\ x = <<a, b>> /\ a \in Nat /\ b \in Nat /\ a < b /\ b <= text.length /\ p \in Nat
        /\ text.length \in Nat
    <2>1. x \in Span /\ p \in Nat
      BY <1>1, TwoKinds, StartFacts DEF StretchFrom
    <2> QED
      BY <1>1, <2>1, SpanIsPair DEF StretchFrom, TextFormed
  <1> HIDE DEF a, b
  <1>3. ASSUME NEW c \in a .. b, NEW d \in a .. b, c < d PROVE <<c, d>> \in Covered
    <2>1. <<c, d>> \in Span /\ <<c, d>>[1] = c /\ <<c, d>>[2] = d
      BY <1>2 DEF Span
    <2>2. x[1] <= c /\ d <= x[2] /\ d <= text.length
      BY <1>2 DEF a, b
    <2> QED
      BY <1>3, <2>1, <2>2 DEF Covered
  <1>4. ASSUME NEW c \in a .. b, b - c > maximum PROVE Cut(c) \in Allowed
    <2> DEFINE e == Cut(c)
    <2>0. maximum \in Nat /\ 0 < maximum /\ c \in Nat
      BY <1>2, SizesAssumption
    <2>1. /\ e \in Nat /\ c < e /\ e <= c + maximum
          /\ e - 1 \in text.blank \/ e = c + maximum
          /\ e - 1 \notin text.blank => \A i \in c + 1 .. c + maximum : i - 1 \notin text.blank
      BY <2>0, CutIs
    <2> HIDE DEF e
    <2>2. Inside(e, x)
      <3>1. x[1] = a /\ x[2] = b
        BY DEF a, b
      <3> QED
        BY <1>2, <1>4, <2>0, <2>1, <3>1 DEF Inside
    <2>3. ASSUME NEW span \in Sentences, Inside(e, span) PROVE Size(span) > maximum
      <3>1. span = x
        BY <2>1, <2>2, <2>3, TwoKinds, StretchesApart
      <3> QED
        BY <3>1
    <2>4. ASSUME NEW span \in Paragraphs, Inside(e, span) PROVE Size(span) > maximum
      <3>1. span[1] <= x[1] /\ x[2] <= span[2]
        BY <2>1, <2>2, <2>4, SentenceInParagraph
      <3>2. /\ span[1] \in Nat /\ span[2] \in Nat /\ x[1] \in Nat /\ x[2] \in Nat
        BY <1>1, TwoKinds, StretchHasStart DEF StretchFrom
      <3> QED
        BY <2>0, <3>1, <3>2 DEF Size
    <2>5. ASSUME NEW span \in Words, Inside(e, span)
          PROVE  \E word \in Words : Inside(e, word) /\ Size(word) > maximum
      <3>1. e - 1 \notin text.blank
        BY <2>1, <2>5, NoWordInside
      <3>2. e = c + maximum /\ \A i \in c + 1 .. c + maximum : i - 1 \notin text.blank
        BY <2>1, <3>1
      <3>3. /\ span[1] \in Nat /\ span[2] \in Nat /\ span[2] <= text.length
            /\ \A q \in span[1] .. span[2] - 1 : q \notin text.blank
        BY <1>2 DEF Words
      <3>4. e \notin text.blank /\ e + 1 <= text.length
        <4>1. e \in span[1] .. span[2] - 1
          BY <2>1, <2>5, <3>3 DEF Inside
        <4> QED
          BY <1>2, <2>1, <3>3, <4>1
      <3> DEFINE word == <<c, e + 1>>
      <3>5. \A q \in c .. (e + 1) - 1 : q \notin text.blank
        <4> SUFFICES ASSUME NEW q \in c .. (e + 1) - 1, q # e PROVE q \notin text.blank
          BY <3>4
        <4>1. q + 1 \in c + 1 .. c + maximum /\ (q + 1) - 1 = q
          BY <2>0, <2>1, <3>2
        <4> QED
          BY <3>2, <4>1
      <3>6. word \in Words
        <4>1. word \in (0 .. text.length) \X (0 .. text.length) /\ word[1] = c /\ word[2] = e + 1
          BY <1>2, <2>0, <2>1, <3>4
        <4>2. c < e + 1
          BY <2>0, <2>1
        <4> HIDE DEF word
        <4> QED
          BY <3>5, <4>1, <4>2 DEF Words
      <3>7. Inside(e, word) /\ Size(word) > maximum
        BY <2>0, <2>1, <3>2 DEF Inside, Size
      <3> QED
        BY <3>6, <3>7
    <2>6. e \in Allowed
      BY <2>1, <2>3, <2>4, <2>5 DEF Allowed
    <2> QED
      BY <2>6 DEF e
  <1>5. Tiling(SplitAtWhitespace(<<a, b>>), a, b, Covered, Allowed, Edges)
    BY <1>2, <1>3, <1>4, SplitTiles
  <1> QED
    BY <1>2, <1>5 DEF a, b

\* The sentences of a paragraph are sentences of the text.
LEMMA InnerSentences ==
  ASSUME TextFormed, NEW y \in Paragraphs,
         NEW S, S = {p \in Starts : y[1] <= p /\ p < y[2]},
         NEW q \in S, NEW x, x = <<Begin(S, q, y[1]), End(S, q, y[2])>>
  PROVE  x \in Sentences /\ StretchFrom(x, q, Starts, text.length)
  <1>1. PICK r \in text.paragraphs :
          /\ y = <<Begin(text.paragraphs, r, 0), End(text.paragraphs, r, text.length)>>
          /\ StretchFrom(y, r, text.paragraphs, text.length)
    BY TwoKinds, StretchHasStart
  <1>2. /\ y[1] \in Nat /\ y[2] \in Nat /\ y[2] <= text.length /\ text.length \in Nat
        /\ r \in Nat /\ r \in S /\ q \in Nat /\ q \in Starts /\ y[1] <= q /\ q < y[2]
    BY <1>1, TwoKinds, StartFacts DEF StretchFrom, Starts, TextFormed
  <1>3. \A p \in Starts : p \in Nat /\ p < text.length
    BY TwoKinds, StartFacts
  <1>4. \A p \in S : p \in Starts /\ p \in Nat /\ y[1] <= p /\ p < y[2]
    BY <1>3
  <1>5. Begin(S, q, y[1]) = Begin(Starts, q, 0)
    <2>1. CASE \A p \in Starts : q <= p
      <3>1. \A p \in S : q <= p
        BY <1>4, <2>1
      <3>2. y[1] = 0
        <4> SUFFICES ASSUME y[1] # 0 PROVE FALSE
          OBVIOUS
        <4>1. y[1] = r /\ ~(\A t \in text.paragraphs : r <= t)
          BY <1>1 DEF StretchFrom, Begin
        <4>2. PICK t \in text.paragraphs : ~(r <= t)
          BY <4>1
        <4>3. t \in Starts /\ t \in Nat
          BY <1>3 DEF Starts
        <4> QED
          BY <1>2, <2>1, <4>1, <4>2, <4>3
      <3> QED
        BY <2>1, <3>1, <3>2 DEF Begin
    <2>2. CASE ~(\A p \in Starts : q <= p)
      <3>1. PICK t \in Starts : t < q
        BY <1>2, <1>3, <2>2
      <3>2. CASE \A p \in S : q <= p
        <4>1. t \notin S
          BY <1>2, <1>3, <3>1, <3>2
        <4>2. t < y[1]
          BY <1>2, <1>3, <3>1, <4>1
        <4>3. y[1] = r
          BY <1>1, <1>2, <1>3, <4>2 DEF StretchFrom
        <4>4. q <= r
          BY <1>2, <3>2
        <4>5. q = y[1]
          BY <1>2, <4>3, <4>4
        <4> QED
          BY <2>2, <3>2, <4>5 DEF Begin
      <3>3. CASE ~(\A p \in S : q <= p)
        BY <2>2, <3>3 DEF Begin
      <3> QED
        BY <3>2, <3>3
    <2> QED
      BY <2>1, <2>2
  <1>6. End(S, q, y[2]) = End(Starts, q, text.length)
    <2> DEFINE to == y[2]
               e == End(S, q, to)
    <2>1. /\ q < e /\ e <= y[2] /\ e \in Nat
          /\ e # y[2] => e \in S
          /\ \A p \in S : p <= q \/ e <= p
      <3>1. S \subseteq Nat /\ to \in Nat /\ q \in S /\ \A p \in S : p < to
        BY <1>2, <1>4
      <3> HIDE DEF to
      <3> HIDE DEF e
      <3>2. q < End(S, q, to) /\ End(S, q, to) <= to /\ End(S, q, to) \in Nat
        BY <3>1, EndIs
      <3>3. \A p \in S : p <= q \/ End(S, q, to) <= p
        BY <3>1, EndIs
      <3>4. End(S, q, to) # to => End(S, q, to) \in S
        BY <3>1, EndIs
      <3> QED
        BY <3>2, <3>3, <3>4 DEF to, e
    <2> HIDE DEF e
    <2>2. e \in Starts \/ e = text.length
      <3>1. y[2] # text.length => y[2] \in Starts
        BY <1>1 DEF StretchFrom, Starts
      <3> QED
        BY <1>4, <2>1, <3>1
    <2>3. ASSUME NEW p \in Starts PROVE p <= q \/ e <= p
      <3>1. CASE p \in S
        BY <2>1, <3>1
      <3>2. CASE p \notin S
        <4>0. ~(y[1] <= p /\ p < y[2]) /\ p \in Nat
          BY <1>3, <3>2
        <4>1. p < y[1] \/ y[2] <= p
          BY <1>2, <4>0
        <4> QED
          BY <1>2, <1>3, <2>1, <4>1
      <3> QED
        BY <3>1, <3>2
    <2>4. \A f \in Nat : q < f /\ (f \in Starts \/ f = text.length) /\ (\A p \in Starts : p <= q \/ f <= p)
            => f = End(Starts, q, text.length)
      <3>1. Starts \subseteq Nat /\ \A p \in Starts : p < text.length
        BY <1>3
      <3> QED
        BY <1>2, <3>1, EndIs
    <2>5. e = End(Starts, q, text.length)
      BY <2>1, <2>2, <2>3, <2>4
    <2> QED
      BY <2>5 DEF e
  <1>7. x = <<Begin(Starts, q, 0), End(Starts, q, text.length)>>
    BY <1>5, <1>6
  <1> QED
    BY <1>2, <1>7, TwoKinds, StretchIs

\* An oversized paragraph is cut between its sentences and in the oversized ones.
LEMMA ParagraphSplit ==
  ASSUME TextFormed, NEW y \in Paragraphs, Size(y) > maximum
  PROVE  Tiling(SplitOversizedParagraph(y), y[1], y[2], Covered, Allowed, Edges)
  <1> DEFINE S == {p \in Starts : y[1] <= p /\ p < y[2]}
             atoms == AtomsFromTrimmedSpans(S, y[1], y[2])
             split == [sentence \in Regions |-> SplitAtWhitespace(sentence)]
  <1>1. PICK r \in text.paragraphs : StretchFrom(y, r, text.paragraphs, text.length)
    BY TwoKinds, StretchHasStart
  <1>2. /\ y[1] \in Nat /\ y[2] \in Nat /\ y[2] <= text.length /\ text.length \in Nat
        /\ r \in S
    BY <1>1, TwoKinds, StartFacts DEF StretchFrom, Starts, TextFormed
  <1>3. /\ S \subseteq Nat /\ IsFiniteSet(S) /\ \A q \in S : y[1] <= q /\ q < y[2]
        /\ \A q \in S : q \in Starts /\ q \in Nat
    <2>1. Starts \subseteq Nat /\ IsFiniteSet(Starts)
      BY TwoKinds, StartFacts
    <2> QED
      BY <2>1, FS_Subset
  <1>4. SplitOversizedParagraph(y) = GreedyGroup(atoms, split)
    BY DEF SplitOversizedParagraph, Starts
  <1>5. ASSUME NEW q \in S, NEW x, x = <<Begin(S, q, y[1]), End(S, q, y[2])>>
        PROVE  x \in Sentences /\ StretchFrom(x, q, Starts, text.length)
    BY <1>5, InnerSentences
  <1> HIDE DEF S
  <1>6. /\ InARow(atoms, y[1], y[2])
        /\ \A i \in 1 .. Len(atoms) : \E q \in S : atoms[i] = <<Begin(S, q, y[1]), End(S, q, y[2])>>
        /\ \A i \in 1 .. Len(atoms) - 1 :
             atoms[i][2] \in S /\ \E p \in S : p < atoms[i][2]
    BY <1>2, <1>3, AtomsAreStretches
  <1> HIDE DEF atoms
  <1>7. \A i \in 1 .. Len(atoms) : /\ atoms[i] \in Sentences
                                   /\ \E q \in S : StretchFrom(atoms[i], q, Starts, text.length)
    BY <1>5, <1>6
  <1>8. ASSUME NEW i \in 1 .. Len(atoms) - 1 PROVE atoms[i][2] \in Allowed
    <2> DEFINE c == atoms[i][2]
    <2>1. c \in S
      BY <1>6
    <2>2. PICK p \in S : p < c
      BY <1>6
    <2> HIDE DEF c
    <2>3. /\ c \in Nat /\ p \in Nat /\ c \in Starts /\ p \in Starts
          /\ y[1] <= p /\ c < y[2]
      BY <1>3, <2>1
    <2>4. c - 1 \in text.blank
      <3>1. c # 0
        BY <2>2, <2>3
      <3>2. c = 0 \/ c - 1 \in text.blank
        BY <2>3, TwoKinds, StartFacts
      <3> QED
        BY <3>1, <3>2
    <2>5. Inside(c, y)
      BY <1>2, <2>2, <2>3 DEF Inside
    <2>6. ASSUME NEW span \in Paragraphs, Inside(c, span) PROVE Size(span) > maximum
      <3>1. span = y
        BY <2>3, <2>5, <2>6, TwoKinds, StretchesApart
      <3> QED
        BY <3>1
    <2>7. ASSUME NEW span \in Sentences PROVE ~Inside(c, span)
      BY <2>2, <2>3, TwoKinds, NoneInside
    <2>8. ASSUME NEW span \in Words PROVE ~Inside(c, span)
      BY <2>3, <2>4, NoWordInside
    <2>9. c \in Allowed
      BY <2>3, <2>6, <2>7, <2>8 DEF Allowed
    <2> QED
      BY <2>9 DEF c
  <1>9. ASSUME NEW i \in 1 .. Len(atoms), NEW d \in Nat, atoms[i][2] <= d, d <= y[2]
        PROVE  <<atoms[i][1], d>> \in Covered
    <2> DEFINE x == atoms[i]
               z == <<x[1], d>>
    <2>1. PICK q \in S : StretchFrom(x, q, Starts, text.length)
      BY <1>7
    <2>2. x[1] \in Nat /\ x[2] \in Nat /\ x[1] <= q /\ q < d /\ d <= text.length /\ q \in Nat /\ q \in Starts
      BY <1>2, <1>3, <1>9, <2>1 DEF StretchFrom
    <2> HIDE DEF x
    <2>3. HoldsWord(z)
      BY <2>2, HoldsStart
    <2>4. z \in Span /\ z[1] = x[1] /\ z[2] = d
      BY <2>2 DEF Span
    <2> HIDE DEF z
    <2>5. z \in Covered
      BY <2>2, <2>3, <2>4 DEF Covered
    <2> QED
      BY <2>5 DEF z, x
  <1>10. ASSUME NEW i \in 1 .. Len(atoms), Size(atoms[i]) > maximum
         PROVE  /\ atoms[i][1] \in Edges /\ atoms[i][2] \in Edges
                /\ Tiling(split[atoms[i]], atoms[i][1], atoms[i][2], Covered, Allowed, Edges)
    <2> DEFINE x == atoms[i]
    <2>1. PICK q \in S : StretchFrom(x, q, Starts, text.length)
      BY <1>7
    <2>2. x \in Sentences /\ x[1] \in Nat /\ x[2] \in Nat /\ Size(x) > maximum
      BY <1>7, <1>10, <2>1 DEF StretchFrom
    <2>3. x \in Regions
      <3>1. x = <<x[1], x[2]>> /\ x[1] <= text.length /\ x[2] <= text.length
        <4>1. x \in Span /\ q \in Nat /\ x[1] <= q /\ q < x[2] /\ x[2] <= text.length
          BY <1>3, <2>1 DEF StretchFrom
        <4> HIDE DEF x
        <4> QED
          BY <1>2, <2>2, <4>1, SpanIsPair
      <3> HIDE DEF x
      <3>2. x[1] \in 0 .. text.length /\ x[2] \in 0 .. text.length
        BY <1>2, <2>2, <3>1
      <3>3. <<x[1], x[2]>> \in Regions
        BY <3>2 DEF Regions
      <3> QED
        BY <3>1, <3>3
    <2>4. split[x] = SplitAtWhitespace(x)
      BY <2>3
    <2> HIDE DEF x, split
    <2>5. Tiling(split[x], x[1], x[2], Covered, Allowed, Edges)
      BY <2>2, <2>4, SentenceSplit
    <2>6. x[1] \in Edges /\ x[2] \in Edges
      BY <2>2 DEF Edges
    <2> QED
      BY <2>5, <2>6 DEF x
  <1> HIDE DEF split
  <1>11. Cuttable(atoms, y[2], split, Covered, Allowed, Edges)
    BY <1>8, <1>9, <1>10 DEF Cuttable
  <1>12. Tiling(GreedyGroup(atoms, split), y[1], y[2], Covered, Allowed, Edges)
    BY <1>2, <1>6, <1>11, GreedyTiles
  <1> QED
    BY <1>4, <1>12

\* The text is cut between its paragraphs and in the oversized ones.
LEMMA TextTiled ==
  ASSUME TextFormed, text.paragraphs # {}
  PROVE  LET raw == GreedyGroup(AtomsFromTrimmedSpans(text.paragraphs, 0, text.length),
                                [paragraph \in Regions |-> SplitOversizedParagraph(paragraph)])
         IN  raw # <<>> /\ Tiling(raw, 0, text.length, Covered, Allowed, Edges)
  <1> DEFINE P == text.paragraphs
             to == text.length
             atoms == AtomsFromTrimmedSpans(P, 0, to)
             split == [paragraph \in Regions |-> SplitOversizedParagraph(paragraph)]
             raw == GreedyGroup(atoms, split)
  <1>1. /\ P \subseteq Nat /\ IsFiniteSet(P) /\ to \in Nat /\ P # {}
        /\ \A q \in P : q \in Nat /\ 0 <= q /\ q < to /\ q \in Starts
    BY TwoKinds, StartFacts DEF TextFormed, Starts
  <1>2. /\ InARow(atoms, 0, to)
        /\ \A i \in 1 .. Len(atoms) : \E q \in P : atoms[i] = <<Begin(P, q, 0), End(P, q, to)>>
        /\ \A i \in 1 .. Len(atoms) - 1 : atoms[i][2] \in P /\ \E p \in P : p < atoms[i][2]
    <2> HIDE DEF P, to
    <2> QED
      BY <1>1, AtomsAreStretches
  <1> HIDE DEF atoms
  <1>3. \A i \in 1 .. Len(atoms) : atoms[i] \in Paragraphs /\ \E q \in P : StretchFrom(atoms[i], q, P, to)
    BY <1>2, TwoKinds, StretchIs
  <1>4. ASSUME NEW i \in 1 .. Len(atoms) - 1 PROVE atoms[i][2] \in Allowed
    <2> DEFINE c == atoms[i][2]
    <2>1. c \in P
      BY <1>2
    <2>2. PICK p \in P : p < c
      BY <1>2
    <2> HIDE DEF c
    <2>3. c \in Nat /\ p \in Nat /\ c \in Starts /\ p \in Starts
      BY <1>1, <2>1
    <2>4. c - 1 \in text.blank
      <3>1. c # 0
        BY <2>2, <2>3
      <3>2. c = 0 \/ c - 1 \in text.blank
        BY <2>3, TwoKinds, StartFacts
      <3> QED
        BY <3>1, <3>2
    <2>5. ASSUME NEW span \in Paragraphs PROVE ~Inside(c, span)
      BY <2>1, <2>2, TwoKinds, NoneInside
    <2>6. ASSUME NEW span \in Sentences PROVE ~Inside(c, span)
      BY <2>2, <2>3, TwoKinds, NoneInside
    <2>7. ASSUME NEW span \in Words PROVE ~Inside(c, span)
      BY <2>3, <2>4, NoWordInside
    <2>8. c \in Allowed
      BY <2>3, <2>5, <2>6, <2>7 DEF Allowed
    <2> QED
      BY <2>8 DEF c
  <1>5. ASSUME NEW i \in 1 .. Len(atoms), NEW d \in Nat, atoms[i][2] <= d, d <= to
        PROVE  <<atoms[i][1], d>> \in Covered
    <2> DEFINE x == atoms[i]
               z == <<x[1], d>>
    <2>1. PICK q \in P : StretchFrom(x, q, P, to)
      BY <1>3
    <2>2. x[1] \in Nat /\ x[2] \in Nat /\ x[1] <= q /\ q < d /\ d <= to /\ q \in Nat /\ q \in Starts
      BY <1>1, <1>5, <2>1 DEF StretchFrom
    <2> HIDE DEF x
    <2>3. HoldsWord(z)
      BY <2>2, HoldsStart
    <2>4. z \in Span /\ z[1] = x[1] /\ z[2] = d
      BY <2>2 DEF Span
    <2> HIDE DEF z
    <2>5. z \in Covered
      BY <2>2, <2>3, <2>4 DEF Covered
    <2> QED
      BY <2>5 DEF z, x
  <1>6. ASSUME NEW i \in 1 .. Len(atoms), Size(atoms[i]) > maximum
        PROVE  /\ atoms[i][1] \in Edges /\ atoms[i][2] \in Edges
               /\ Tiling(split[atoms[i]], atoms[i][1], atoms[i][2], Covered, Allowed, Edges)
    <2> DEFINE x == atoms[i]
    <2>1. PICK q \in P : StretchFrom(x, q, P, to)
      BY <1>3
    <2>2. x \in Paragraphs /\ x[1] \in Nat /\ x[2] \in Nat /\ Size(x) > maximum
      BY <1>3, <1>6, <2>1 DEF StretchFrom
    <2>3. x \in Regions
      <3>1. x = <<x[1], x[2]>> /\ x[1] <= to /\ x[2] <= to
        <4>1. x \in Span /\ q \in Nat /\ x[1] <= q /\ q < x[2] /\ x[2] <= to
          BY <1>1, <2>1 DEF StretchFrom
        <4> HIDE DEF x
        <4> QED
          BY <1>1, <2>2, <4>1, SpanIsPair
      <3> HIDE DEF x
      <3>2. x[1] \in 0 .. text.length /\ x[2] \in 0 .. text.length
        BY <1>1, <2>2, <3>1
      <3>3. <<x[1], x[2]>> \in Regions
        BY <3>2 DEF Regions
      <3> QED
        BY <3>1, <3>3
    <2>4. split[x] = SplitOversizedParagraph(x)
      BY <2>3
    <2> HIDE DEF x, split
    <2>5. Tiling(split[x], x[1], x[2], Covered, Allowed, Edges)
      BY <2>2, <2>4, ParagraphSplit
    <2>6. x[1] \in Edges /\ x[2] \in Edges
      BY <2>2 DEF Edges
    <2> QED
      BY <2>5, <2>6 DEF x
  <1> HIDE DEF split
  <1>7. Cuttable(atoms, to, split, Covered, Allowed, Edges)
    BY <1>4, <1>5, <1>6 DEF Cuttable
  <1>8. Tiling(raw, 0, to, Covered, Allowed, Edges)
    BY <1>1, <1>2, <1>7, GreedyTiles
  <1>9. 0 # to
    BY <1>1
  <1>10. raw # <<>>
    BY <1>8, <1>9 DEF Tiling
  <1> QED
    BY <1>8, <1>10 DEF atoms, split

\* What chunk_text returns.
LEMMA ChunksAre ==
  ASSUME TextFormed, ChunkText # <<>>
  PROVE  /\ Tiling(ChunkText, 0, text.length, Covered, Allowed, Edges)
         /\ LastStuck(ChunkText) /\ FirstStuck(ChunkText, Edges)
  <1> DEFINE raw == GreedyGroup(AtomsFromTrimmedSpans(text.paragraphs, 0, text.length),
                                [paragraph \in Regions |-> SplitOversizedParagraph(paragraph)])
  <1>1. text.paragraphs # {} /\ ChunkText = MergeForward(MergeBackward(raw))
    BY DEF ChunkText, MergeRunts
  <1>2. raw # <<>> /\ Tiling(raw, 0, text.length, Covered, Allowed, Edges)
    BY <1>1, TextTiled
  <1>3. GrowsRight(Covered, text.length) /\ text.length \in Nat
    BY CoveredGrows DEF TextFormed
  <1> HIDE DEF raw
  <1> DEFINE back == MergeBackward(raw)
  <1>4. back # <<>> /\ Tiling(back, 0, text.length, Covered, Allowed, Edges) /\ LastStuck(back)
    BY <1>2, <1>3, MergedBackward
  <1> HIDE DEF back
  <1>5. /\ Tiling(MergeForward(back), 0, text.length, Covered, Allowed, Edges)
        /\ LastStuck(MergeForward(back)) /\ FirstStuck(MergeForward(back), Edges)
    BY <1>3, <1>4, MergedForward
  <1> QED
    BY <1>1, <1>5 DEF back

-----------------------------------------------------------------------------
(* The pages *)

\* page_range_for never counts back.
LEMMA PageAtIs ==
  ASSUME TextFormed, NEW p \in Nat
  PROVE  /\ PageAt(p) \in 1 .. MaxPages
         /\ \A q \in Nat : p <= q => PageAt(p) <= PageAt(q)
         /\ \A q \in Nat : (\A r \in text.pages : r <= p => r <= q) => PageAt(p) <= PageAt(q)
  <1> DEFINE On(q) == {r \in text.pages : r <= q}
  <1>1. /\ text.pages \subseteq Nat /\ IsFiniteSet(text.pages) /\ 0 \in text.pages
        /\ Cardinality(text.pages) <= MaxPages /\ MaxPages \in Nat
    BY CuttingBoundsAssumption DEF TextFormed
  <1>2. \A q \in Nat : /\ IsFiniteSet(On(q)) /\ Cardinality(On(q)) \in Nat
                       /\ Cardinality(On(q)) <= Cardinality(text.pages)
                       /\ On(q) # {}
    BY <1>1, FS_Subset, FS_CardinalityType
  <1>3. \A q \in Nat : PageAt(q) = Cardinality(On(q))
    BY DEF PageAt
  <1>4. Cardinality(text.pages) \in Nat
    BY <1>1, FS_CardinalityType
  <1>5. Cardinality(On(p)) # 0
    BY <1>2, FS_EmptySet
  <1>6. ASSUME NEW q \in Nat, \A r \in text.pages : r <= p => r <= q
        PROVE  PageAt(p) <= PageAt(q)
    <2>1. On(p) \subseteq On(q)
      BY <1>6
    <2> HIDE DEF On
    <2>2. Cardinality(On(p)) <= Cardinality(On(q))
      BY <1>2, <2>1, FS_Subset
    <2> QED
      BY <1>3, <2>2
  <1>7. ASSUME NEW q \in Nat, p <= q PROVE \A r \in text.pages : r <= p => r <= q
    BY <1>1, <1>7
  <1> HIDE DEF On
  <1>8. PageAt(p) \in 1 .. MaxPages
    BY <1>1, <1>2, <1>3, <1>4, <1>5
  <1> QED
    BY <1>6, <1>7, <1>8

\* The text of a page ends before the next page starts.
LEMMA PageEndIs ==
  ASSUME TextFormed, NEW p \in text.pages
  PROVE  /\ PageEnd(text, p) \in Nat /\ p <= PageEnd(text, p) /\ PageEnd(text, p) <= text.length
         /\ \A q \in text.pages : q <= p \/ PageEnd(text, p) <= q
  <1> DEFINE next == {q \in text.pages : q > p}
             limit == IF next = {} THEN text.length ELSE Min(next)
             T == {q \in p .. limit : q = p \/ q - 1 \notin text.blank}
  <1>1. /\ text.length \in Nat /\ p \in Nat /\ p <= text.length
        /\ \A q \in text.pages : q \in Nat /\ q <= text.length
    BY DEF TextFormed
  <1>2. /\ limit \in Nat /\ p <= limit /\ limit <= text.length
        /\ \A q \in text.pages : q <= p \/ limit <= q
    <2>1. CASE next = {}
      <3>1. \A q \in text.pages : q <= p
        BY <1>1, <2>1
      <3> QED
        BY <1>1, <2>1, <3>1
    <2>2. CASE next # {}
      <3>1. next \subseteq Nat
        BY <1>1
      <3>2. Min(next) \in next /\ \A q \in next : Min(next) <= q
        <4> HIDE DEF next
        <4> QED
          BY <2>2, <3>1, MinOf
      <3>3. Min(next) \in Nat /\ p < Min(next) /\ Min(next) <= text.length
        BY <1>1, <3>2
      <3>4. \A q \in text.pages : q <= p \/ q \in next
        BY <1>1
      <3>5. limit = Min(next)
        BY <2>2
      <3> HIDE DEF next, limit
      <3> QED
        BY <1>1, <3>2, <3>3, <3>4, <3>5
    <2> QED
      BY <2>1, <2>2
  <1>3. PageEnd(text, p) = Max(T)
    BY DEF PageEnd
  <1> HIDE DEF limit
  <1>4. Max(T) \in T
    <2>1. T \subseteq p .. limit /\ p \in T
      BY <1>1, <1>2
    <2>2. IsFiniteSet(p .. limit)
      BY <1>1, <1>2, FS_Interval
    <2>3. IsFiniteSet(T) /\ T \subseteq Nat /\ T # {}
      BY <1>1, <1>2, <2>1, <2>2, FS_Subset
    <2> HIDE DEF T
    <2> QED
      BY <2>3, MaxOf
  <1>5. Max(T) \in Nat /\ p <= Max(T) /\ Max(T) <= limit
    BY <1>1, <1>2, <1>4
  <1> HIDE DEF T
  <1> QED
    BY <1>1, <1>2, <1>3, <1>5

-----------------------------------------------------------------------------
(* The invariant: what a text is, and that the rows are made of its chunks *)

\* The invariant: until the text is cut there is no row, then the rows are those of ChunkText.
CutInv ==
  /\ TextFormed
  /\ outcome \in {"extracting", "EXTRACTED", "FAILED"}
  /\ outcome = "extracting" => rows = <<>>
  /\ outcome = "FAILED" => ChunkText = <<>>
  /\ outcome = "EXTRACTED" => ChunkText # <<>>
  /\ outcome # "extracting" =>
       rows = [i \in DOMAIN ChunkText |->
                 [span |-> ChunkText[i], onPages |-> PageRangeFor(ChunkText[i])]]

\* It holds of every text an extractor can hand over.
LEMMA CutInitInv == CutInit => CutInv
  <1> SUFFICES ASSUME CutInit PROVE CutInv
    OBVIOUS
  <1>0. PICK length \in 0 .. MaxLength :
          \E pages \in PageStarts(length), blank \in SUBSET Positions(length) :
            LET paged == [length |-> length, blank |-> blank, pages |-> pages] IN
            \E paragraphs \in SUBSET WordStarts(paged) :
              \E sentences \in SUBSET (WordStarts(paged) \ paragraphs) :
                text = [length |-> length, blank |-> blank, pages |-> pages,
                        paragraphs |-> paragraphs, sentences |-> sentences]
    BY DEF CutInit
  <1>1. PICK pages \in PageStarts(length), blank \in SUBSET Positions(length) :
          LET paged == [length |-> length, blank |-> blank, pages |-> pages] IN
          \E paragraphs \in SUBSET WordStarts(paged) :
            \E sentences \in SUBSET (WordStarts(paged) \ paragraphs) :
              text = [length |-> length, blank |-> blank, pages |-> pages,
                      paragraphs |-> paragraphs, sentences |-> sentences]
    BY <1>0
  <1> DEFINE paged == [length |-> length, blank |-> blank, pages |-> pages]
  <1>20. PICK paragraphs \in SUBSET WordStarts(paged) :
          \E sentences \in SUBSET (WordStarts(paged) \ paragraphs) :
            text = [length |-> length, blank |-> blank, pages |-> pages,
                    paragraphs |-> paragraphs, sentences |-> sentences]
    BY <1>1
  <1>2. PICK sentences \in SUBSET (WordStarts(paged) \ paragraphs) :
          text = [length |-> length, blank |-> blank, pages |-> pages,
                  paragraphs |-> paragraphs, sentences |-> sentences]
    BY <1>20
  <1>3. WordStarts(paged) = WordStarts(text)
    BY <1>2 DEF WordStarts
  <1>4. length \in Nat /\ MaxPages \in Nat /\ MaxPages # 0
    BY CuttingBoundsAssumption
  <1>5. PICK later \in [1 .. MaxPages - 1 -> 0 .. length] : pages = {0} \cup Range(later)
    BY DEF PageStarts
  <1>6. pages \subseteq 0 .. length /\ 0 \in pages
    BY <1>4, <1>5 DEF Range
  <1>7. IsFiniteSet(pages) /\ Cardinality(pages) <= MaxPages
    <2> DEFINE later1 == Range(later)
    <2>1. later \in Surjection(1 .. MaxPages - 1, later1)
      BY DEF Range, Surjection
    <2>2. IsFiniteSet(1 .. MaxPages - 1) /\ Cardinality(1 .. MaxPages - 1) = MaxPages - 1
      BY <1>4, FS_Interval
    <2> HIDE DEF later1
    <2>3. IsFiniteSet(later1) /\ Cardinality(later1) <= MaxPages - 1
      BY <2>1, <2>2, FS_Surjection
    <2>4. Cardinality(later1) \in Nat
      BY <2>3, FS_CardinalityType
    <2>5. /\ IsFiniteSet(later1 \cup {0})
          /\ Cardinality(later1 \cup {0}) <= Cardinality(later1) + 1
      <3>1. /\ IsFiniteSet(later1 \cup {0})
            /\ Cardinality(later1 \cup {0}) =
                 IF 0 \in later1 THEN Cardinality(later1) ELSE Cardinality(later1) + 1
        BY <2>3, FS_AddElement
      <3> QED
        BY <2>4, <3>1
    <2>6. pages = later1 \cup {0}
      BY <1>5 DEF later1
    <2>7. Cardinality(later1 \cup {0}) \in Nat
      BY <2>5, FS_CardinalityType
    <2> QED
      BY <1>4, <2>3, <2>4, <2>5, <2>6, <2>7
  <1>8. TextFormed
    <2>1. /\ text.length = length /\ text.blank = blank /\ text.pages = pages
          /\ text.paragraphs = paragraphs /\ text.sentences = sentences
      BY <1>2
    <2>2. sentences \subseteq WordStarts(text) /\ paragraphs \subseteq WordStarts(text)
      BY <1>3
    <2> HIDE DEF paged
    <2> QED
      BY <1>4, <1>6, <1>7, <2>1, <2>2 DEF TextFormed
  <1> QED
    BY <1>8 DEF CutInv, CutInit

\* What is computed of a text stays while the text does.
LEMMA SameText ==
  ASSUME text' = text
  PROVE  ChunkText' = ChunkText /\ (TextFormed => TextFormed')
         /\ \A x : PageRangeFor(x)' = PageRangeFor(x)
  <1>1. ChunkText' = ChunkText
    BY DEF ChunkText, SplitOversizedParagraph, SplitAtWhitespace, Cut, Regions
  <1>2. TextFormed => TextFormed'
    BY DEF TextFormed
  <1>3. \A x : PageRangeFor(x)' = PageRangeFor(x)
    BY DEF PageRangeFor, PageAt
  <1> QED
    BY <1>1, <1>2, <1>3

\* The one step keeps it.
LEMMA CutStepInv == CutInv /\ [CutBook]_cutVars => CutInv'
  <1> SUFFICES ASSUME CutInv, [CutBook]_cutVars PROVE CutInv'
    OBVIOUS
  <1>1. text' = text
    BY DEF CutBook, cutVars
  <1> DEFINE made == [i \in DOMAIN ChunkText |->
                        [span |-> ChunkText[i], onPages |-> PageRangeFor(ChunkText[i])]]
  <1>2. ChunkText' = ChunkText /\ TextFormed' /\ made' = made
    <2>1. ChunkText' = ChunkText /\ TextFormed' /\ \A x : PageRangeFor(x)' = PageRangeFor(x)
      BY <1>1, SameText DEF CutInv
    <2>2. made' = [i \in DOMAIN ChunkText |->
                     [span |-> ChunkText[i], onPages |-> PageRangeFor(ChunkText[i])']]
      BY <2>1
    <2> QED
      BY <2>1, <2>2
  <1>3. CASE CutBook
    <2>1. /\ outcome' = IF ChunkText = <<>> THEN "FAILED" ELSE "EXTRACTED"
          /\ rows' = made
      BY <1>3 DEF CutBook
    <2> HIDE DEF made
    <2>2. rows' = made'
      BY <1>2, <2>1
    <2> QED
      BY <1>2, <2>1, <2>2 DEF CutInv, made
  <1>4. CASE UNCHANGED cutVars
    <2>1. outcome' = outcome /\ rows' = rows
      BY <1>4 DEF cutVars
    <2> QED
      BY <1>2, <2>1 DEF CutInv
  <1> QED
    BY <1>3, <1>4

\* Once ExtractBook has cut a text, its rows are exactly the chunks of chunk_text with their
\* page ranges, and the book is EXTRACTED exactly if there are any.
THEOREM CutsByDesign == CutSpec => []CutInv
  BY CutInitInv, CutStepInv, PTL DEF CutSpec

\* What the chunks of an extracted book are: a tiling of spans that hold a word or are cut off an
\* oversized sentence, cut only where it is allowed, with ends that cannot be merged.
LEMMA RowsAre ==
  ASSUME CutInv, Done
  PROVE  /\ Tiling(ChunkText, 0, text.length, Covered, Allowed, Edges)
         /\ LastStuck(ChunkText) /\ FirstStuck(ChunkText, Edges)
         /\ DOMAIN rows = 1 .. Len(ChunkText) /\ Len(rows) = Len(ChunkText)
         /\ ChunkText # <<>> /\ Len(ChunkText) \in Nat /\ Len(ChunkText) # 0
         /\ \A i \in 1 .. Len(ChunkText) :
              /\ rows[i].span = ChunkText[i] /\ rows[i].onPages = PageRangeFor(ChunkText[i])
              /\ ChunkText[i] \in Span /\ ChunkText[i][1] \in Nat /\ ChunkText[i][2] \in Nat
              /\ ChunkText[i][1] < ChunkText[i][2] /\ ChunkText[i][2] <= text.length
         /\ \A span \in Spans : \E i \in 1 .. Len(ChunkText) : span = ChunkText[i]
  <1>1. /\ TextFormed /\ ChunkText # <<>>
        /\ rows = [i \in DOMAIN ChunkText |->
                     [span |-> ChunkText[i], onPages |-> PageRangeFor(ChunkText[i])]]
    BY DEF CutInv, Done
  <1>2. /\ Tiling(ChunkText, 0, text.length, Covered, Allowed, Edges)
        /\ LastStuck(ChunkText) /\ FirstStuck(ChunkText, Edges)
    BY <1>1, ChunksAre
  <1> DEFINE chunks == ChunkText
  <1>3. chunks \in Seq(Span) /\ Len(chunks) \in Nat /\ DOMAIN chunks = 1 .. Len(chunks)
    BY <1>2 DEF Tiling
  <1>4. Len(chunks) # 0
    BY <1>1, <1>3, EmptySeq
  <1>5. \A i \in 1 .. Len(chunks) :
          /\ chunks[i] \in Span /\ chunks[i][1] \in Nat /\ chunks[i][2] \in Nat
          /\ chunks[i][1] < chunks[i][2] /\ chunks[i][2] <= text.length
    BY <1>1, <1>2, TilingOrdered DEF TextFormed
  <1> HIDE DEF chunks
  <1>6. /\ rows = [i \in 1 .. Len(chunks) |->
                     [span |-> chunks[i], onPages |-> PageRangeFor(chunks[i])]]
    BY <1>1, <1>3 DEF chunks
  <1>7. /\ DOMAIN rows = 1 .. Len(chunks) /\ Len(rows) = Len(chunks)
        /\ \A i \in 1 .. Len(chunks) : rows[i].span = chunks[i] /\ rows[i].onPages = PageRangeFor(chunks[i])
    BY <1>3, <1>6
  <1>8. \A span \in Spans : \E i \in 1 .. Len(chunks) : span = chunks[i]
    BY <1>7 DEF Spans
  <1> QED
    BY <1>1, <1>2, <1>3, <1>4, <1>5, <1>7, <1>8 DEF chunks

\* What Max is, of two numbers.
LEMMA MaxOfTwo ==
  ASSUME NEW a \in Nat, NEW b \in Nat
  PROVE  /\ Max({a, b}) \in Nat /\ a <= Max({a, b}) /\ b <= Max({a, b})
         /\ a <= b => Max({a, b}) = b
  <1> DEFINE T == {a, b}
  <1>1. \E n \in T : \A m \in T : n >= m
    <2>1. CASE a <= b
      BY <2>1
    <2>2. CASE b <= a
      BY <2>2
    <2> QED
      BY <2>1, <2>2
  <1>2. Max(T) \in T /\ \A m \in T : Max(T) >= m
    <2> HIDE DEF T
    <2> QED
      BY <1>1 DEF Max
  <1> QED
    BY <1>2

\* The offsets of a row are positions of the text, and its page range are pages of it.
THEOREM CutTypesHold == CutSpec => []CutTyped
  <1>1. CutInv => CutTyped
    <2> SUFFICES ASSUME CutInv PROVE CutTyped
      OBVIOUS
    <2>1. /\ outcome \in {"extracting", "EXTRACTED", "FAILED"}
          /\ text.blank \subseteq Positions(text.length) /\ TextFormed
      BY DEF CutInv, TextFormed
    <2>2. ASSUME NEW i \in DOMAIN rows
          PROVE  /\ rows[i].span \in (0 .. text.length) \X (0 .. text.length)
                 /\ rows[i].onPages \in (1 .. MaxPages) \X (1 .. MaxPages)
      <3>1. Done
        <4>1. outcome # "extracting"
          BY <2>2 DEF CutInv
        <4>2. outcome # "FAILED"
          <5> SUFFICES ASSUME outcome = "FAILED" PROVE FALSE
            OBVIOUS
          <5>1. DOMAIN rows = DOMAIN ChunkText /\ ChunkText = <<>>
            BY <4>1 DEF CutInv
          <5> QED
            BY <2>2, <5>1
        <4> QED
          BY <2>1, <4>1, <4>2 DEF Done
      <3> DEFINE x == rows[i].span
      <3>2. /\ x \in Span /\ x[1] \in Nat /\ x[2] \in Nat /\ x[1] < x[2] /\ x[2] <= text.length
            /\ rows[i].onPages = PageRangeFor(x)
        BY <3>1, RowsAre
      <3> HIDE DEF x
      <3>3. text.length \in Nat
        BY <2>1 DEF TextFormed
      <3>4. x \in (0 .. text.length) \X (0 .. text.length)
        <4>1. x = <<x[1], x[2]>>
          BY <3>2, SpanIsPair
        <4>2. x[1] \in 0 .. text.length /\ x[2] \in 0 .. text.length
          BY <3>2, <3>3
        <4> QED
          BY <4>1, <4>2
      <3>5. Max({x[1], x[2] - 1}) \in Nat
        BY <3>2, MaxOfTwo
      <3>6. PageRangeFor(x) \in (1 .. MaxPages) \X (1 .. MaxPages)
        BY <2>1, <3>2, <3>5, PageAtIs DEF PageRangeFor
      <3> QED
        BY <3>2, <3>4, <3>6 DEF x
    <2> QED
      BY <2>1, <2>2 DEF CutTyped
  <1> QED
    BY <1>1, CutsByDesign, PTL

\* For every text and every three sizes chunk_text partitions the text: its chunks are contiguous from
\* the first position to the last, and none is empty or longer than the maximum.
THEOREM ChunksTileText == CutSpec => []Partition
  <1>1. CutInv => Partition
    <2> SUFFICES ASSUME CutInv, Done
                 PROVE  /\ rows # <<>> /\ rows[1].span[1] = 0 /\ Last(rows).span[2] = text.length
                        /\ \A i \in 1 .. Len(rows) - 1 : rows[i].span[2] = rows[i + 1].span[1]
                        /\ \A span \in Spans : 0 < Size(span) /\ Size(span) <= maximum
      BY DEF Partition
    <2> DEFINE n == Len(ChunkText)
    <2>1. /\ Tiling(ChunkText, 0, text.length, Covered, Allowed, Edges) /\ ChunkText # <<>>
          /\ DOMAIN rows = 1 .. n /\ Len(rows) = n /\ n \in Nat /\ n # 0
          /\ \A i \in 1 .. n : rows[i].span = ChunkText[i]
          /\ \A span \in Spans : \E i \in 1 .. n : span = ChunkText[i]
      BY RowsAre
    <2>2. /\ ChunkText[1][1] = 0 /\ ChunkText[n][2] = text.length
          /\ \A i \in 1 .. n : 0 < Size(ChunkText[i]) /\ Size(ChunkText[i]) <= maximum
          /\ \A i \in 1 .. n - 1 : ChunkText[i][2] = ChunkText[i + 1][1]
      BY <2>1 DEF Tiling
    <2> HIDE DEF n
    <2>3. rows # <<>>
      BY <2>1
    <2>4. 1 \in 1 .. n /\ n \in 1 .. n /\ \A i \in 1 .. n - 1 : i \in 1 .. n /\ i + 1 \in 1 .. n
      BY <2>1
    <2> QED
      BY <2>1, <2>2, <2>3, <2>4 DEF Last
  <1> QED
    BY <1>1, CutsByDesign, PTL

\* chunk_text cuts a paragraph, a sentence or a word only when it is too long for a chunk.
THEOREM CutsPreferBoundaries == CutSpec => []CutsByPreference
  <1>1. CutInv => CutsByPreference
    <2> SUFFICES ASSUME CutInv, Done, NEW cut \in InnerCuts PROVE cut \in Allowed
      BY DEF CutsByPreference, Allowed
    <2> DEFINE n == Len(ChunkText)
    <2>1. /\ Tiling(ChunkText, 0, text.length, Covered, Allowed, Edges) /\ ChunkText # <<>>
          /\ DOMAIN rows = 1 .. n /\ n \in Nat
          /\ \A i \in 1 .. n : rows[i].span = ChunkText[i]
      BY RowsAre
    <2>2. PICK i \in 1 .. n : cut = ChunkText[i][2] /\ cut # text.length
      BY <2>1 DEF InnerCuts
    <2>3. ChunkText[n][2] = text.length /\ \A j \in 1 .. n - 1 : ChunkText[j][2] \in Allowed
      BY <2>1 DEF Tiling
    <2>4. i # n
      BY <2>2, <2>3
    <2> HIDE DEF n
    <2>5. i \in 1 .. n - 1
      BY <2>1, <2>4
    <2> QED
      BY <2>2, <2>3, <2>5
  <1> QED
    BY <1>1, CutsByDesign, PTL

\* A chunk without a word comes only from _split_at_whitespace, off a sentence that is too long.
THEOREM SilenceIsCutOff == CutSpec => []SilentOnlyByLongSentence
  <1>1. CutInv => SilentOnlyByLongSentence
    <2> SUFFICES ASSUME CutInv, Done, NEW span \in Spans PROVE span \in Covered
      BY DEF SilentOnlyByLongSentence, Covered
    <2>1. PICK i \in 1 .. Len(ChunkText) : span = ChunkText[i]
      BY RowsAre
    <2>2. ChunkText[i] \in Covered
      BY RowsAre DEF Tiling
    <2> QED
      BY <2>1, <2>2
  <1> QED
    BY <1>1, CutsByDesign, PTL

\* What _merge_runts leaves too small at either end could not be merged within the maximum, but for a
\* front that was merged once already.
THEOREM SmallEndsAreStuck == CutSpec => []RuntsAreStuck
  <1>1. CutInv => RuntsAreStuck
    <2> SUFFICES ASSUME CutInv, Done, Len(rows) > 1
                 PROVE  LET n == Len(rows)
                            first == rows[1].span
                            last  == rows[n].span
                        IN /\ Size(last) < minimum => last[2] - rows[n - 1].span[1] > maximum
                           /\ Size(first) < minimum =>
                                \/ rows[2].span[2] - first[1] > maximum
                                \/ /\ \E p \in Paragraphs : Inside(p[1], first) /\ Size(p) > maximum
                                   /\ \E s \in Sentences : s[1] = first[2] /\ Size(s) > maximum
      BY DEF RuntsAreStuck
    <2> DEFINE n == Len(ChunkText)
               first == ChunkText[1]
    <2>1. /\ LastStuck(ChunkText) /\ FirstStuck(ChunkText, Edges)
          /\ Tiling(ChunkText, 0, text.length, Covered, Allowed, Edges) /\ ChunkText # <<>>
          /\ Len(rows) = n /\ n \in Nat /\ n > 1
          /\ \A i \in 1 .. n : rows[i].span = ChunkText[i]
          /\ \A i \in 1 .. n : /\ ChunkText[i][1] \in Nat /\ ChunkText[i][2] \in Nat
                               /\ ChunkText[i][1] < ChunkText[i][2]
      BY RowsAre
    <2>2. 1 \in 1 .. n /\ 2 \in 1 .. n /\ n \in 1 .. n /\ n - 1 \in 1 .. n
      <3> HIDE DEF n
      <3> QED
        BY <2>1
    <2>3. rows[1].span = first /\ rows[2].span = ChunkText[2] /\ rows[n].span = ChunkText[n]
          /\ rows[n - 1].span = ChunkText[n - 1]
      BY <2>1, <2>2
    <2>4. Size(ChunkText[n]) < minimum => ChunkText[n][2] - ChunkText[n - 1][1] > maximum
      BY <2>1 DEF LastStuck
    <2>5. Size(first) < minimum =>
            \/ ChunkText[2][2] - first[1] > maximum
            \/ first[2] \in Edges /\ \E e \in Edges : e \in Nat /\ first[1] < e /\ e < first[2]
      BY <2>1 DEF FirstStuck
    <2>6. first[1] = 0 /\ first[2] \in Nat
      BY <2>1, <2>2 DEF Tiling
    <2>7. TextFormed /\ maximum \in Nat /\ minimum \in Nat /\ minimum <= maximum
      BY SizesAssumption DEF CutInv
    <2> HIDE DEF first
    <2>8. ASSUME NEW e \in Edges, e < minimum, e # 0
          PROVE  \E x \in Paragraphs \cup Sentences : Size(x) > maximum /\ x[1] = e
      <3>1. PICK x \in Paragraphs \cup Sentences : Size(x) > maximum /\ (e = x[1] \/ e = x[2])
        BY DEF Edges
      <3>2. x[1] \in Nat /\ x[2] \in Nat
        BY <2>7, TwoKinds, StretchHasStart DEF StretchFrom
      <3>3. x[2] > maximum
        BY <2>7, <3>1, <3>2 DEF Size
      <3> QED
        BY <2>7, <2>8, <3>1, <3>2, <3>3
    <2>9. ASSUME Size(first) < minimum, first[2] \in Edges,
                 NEW e \in Edges, e \in Nat, first[1] < e, e < first[2]
          PROVE  /\ \E p \in Paragraphs : Inside(p[1], first) /\ Size(p) > maximum
                 /\ \E s \in Sentences : s[1] = first[2] /\ Size(s) > maximum
      <3> DEFINE f == first[2]
      <3>1. f \in Nat /\ f < minimum /\ f # 0 /\ e < minimum /\ e # 0 /\ e < f
        BY <2>6, <2>7, <2>9 DEF Size
      <3>2. PICK x \in Paragraphs \cup Sentences : Size(x) > maximum /\ x[1] = e
        BY <2>8, <3>1
      <3>3. PICK z \in Paragraphs \cup Sentences : Size(z) > maximum /\ z[1] = f
        BY <2>8, <2>9, <3>1
      <3> HIDE DEF f
      <3>4. Inside(f, x)
        <4>1. x[2] \in Nat
          BY <2>7, TwoKinds, StretchHasStart DEF StretchFrom
        <4> QED
          BY <2>7, <2>9, <3>1, <3>2, <4>1 DEF Inside, Size
      <3>5. ASSUME NEW S, StartsFormed(S), x \in Stretches(S) PROVE e \in S
        <4>1. PICK p \in S : StretchFrom(x, p, S, text.length)
          BY <2>7, <3>5, StretchHasStart
        <4> QED
          BY <3>1, <3>2, <4>1 DEF StretchFrom
      <3>6. ASSUME NEW S, StartsFormed(S), z \in Stretches(S) PROVE f \in S
        <4>1. PICK p \in S : StretchFrom(z, p, S, text.length)
          BY <2>7, <3>6, StretchHasStart
        <4> QED
          BY <3>1, <3>3, <4>1 DEF StretchFrom
      <3>7. f \in Starts /\ e \in Starts /\ text.paragraphs \subseteq Starts
        BY <2>7, <3>2, <3>3, <3>5, <3>6, TwoKinds DEF Starts
      <3>8. x \notin Sentences
        BY <2>7, <3>1, <3>4, <3>7, TwoKinds, NoneInside
      <3>9. x \in Paragraphs /\ e \in text.paragraphs
        BY <2>7, <3>2, <3>5, <3>8, TwoKinds
      <3>10. z \notin Paragraphs
        <4> SUFFICES ASSUME z \in Paragraphs PROVE FALSE
          OBVIOUS
        <4>1. f \in text.paragraphs
          BY <2>7, <3>6, TwoKinds
        <4> QED
          BY <2>7, <3>1, <3>4, <3>9, <4>1, TwoKinds, NoneInside
      <3>11. z \in Sentences
        BY <3>3, <3>10
      <3>12. Inside(x[1], first)
        BY <2>9, <3>2 DEF Inside
      <3> QED
        BY <3>2, <3>3, <3>9, <3>11, <3>12 DEF f
    <2>10. Size(first) < minimum =>
            \/ ChunkText[2][2] - first[1] > maximum
            \/ /\ \E p \in Paragraphs : Inside(p[1], first) /\ Size(p) > maximum
               /\ \E s \in Sentences : s[1] = first[2] /\ Size(s) > maximum
      BY <2>5, <2>9
    <2> HIDE DEF n
    <2> QED
      BY <2>1, <2>3, <2>4, <2>10
  <1> QED
    BY <1>1, CutsByDesign, PTL

\* page_range_for names every page that a chunk has text from, over however many pages it reaches.
THEOREM PagesCoverText == CutSpec => []PagesCoverChunk
  <1>1. CutInv => PagesCoverChunk
    <2> SUFFICES ASSUME CutInv, Done, NEW i \in DOMAIN rows, NEW p \in text.pages,
                        HoldsWord(<<Max({p, rows[i].span[1]}), Min({PageEnd(text, p), rows[i].span[2]})>>)
                 PROVE  rows[i].onPages[1] <= PageAt(p) /\ PageAt(p) <= rows[i].onPages[2]
      BY DEF PagesCoverChunk
    <2> DEFINE x == rows[i].span
               a == x[1]
               b == x[2]
               e == PageEnd(text, p)
               A == {p, a}
               B == {e, b}
    <2>1. a \in Nat /\ b \in Nat /\ a < b /\ rows[i].onPages = PageRangeFor(x)
      BY RowsAre
    <2>2. /\ TextFormed /\ p \in Nat /\ e \in Nat
          /\ \A q \in text.pages : q \in Nat /\ (q <= p \/ e <= q)
      BY PageEndIs DEF CutInv, TextFormed
    <2>3. PICK r \in Max(A) .. Min(B) - 1 : TRUE
      BY DEF HoldsWord
    <2> HIDE DEF a, b, e, x
    <2>4. Max(A) \in Nat /\ p <= Max(A) /\ a <= Max(A)
      BY <2>1, <2>2, MaxOfTwo
    <2>5. Min(B) \in B /\ \A m \in B : Min(B) <= m
      <3>1. B \subseteq Nat /\ B # {}
        BY <2>1, <2>2
      <3> QED
        BY <3>1, MinOf
    <2>6. Max(A) \in Nat /\ Min(B) \in Nat /\ p <= Max(A) /\ a <= Max(A) /\ Min(B) <= e /\ Min(B) <= b
      BY <2>1, <2>2, <2>4, <2>5
    <2> HIDE DEF A, B
    <2>7. r \in Nat /\ p <= r /\ a <= r /\ r < e /\ r <= b - 1 /\ b - 1 \in Nat
      BY <2>1, <2>2, <2>6
    <2>8. PageAt(a) <= PageAt(p)
      <3>1. \A q \in text.pages : q <= a => q <= p
        BY <2>1, <2>2, <2>7
      <3> QED
        BY <2>1, <2>2, <3>1, PageAtIs
    <2>9. PageAt(p) <= PageAt(b - 1)
      <3>1. p <= b - 1
        BY <2>1, <2>2, <2>7
      <3> QED
        BY <2>2, <2>7, <3>1, PageAtIs
    <2>10. Max({a, b - 1}) = b - 1
      <3> DEFINE f == b - 1
      <3>1. f \in Nat /\ a <= f
        BY <2>1, <2>7
      <3> HIDE DEF f
      <3>2. Max({a, f}) = f
        BY <2>1, <3>1, MaxOfTwo
      <3> QED
        BY <3>2 DEF f
    <2>11. rows[i].onPages[1] = PageAt(a) /\ rows[i].onPages[2] = PageAt(b - 1)
      BY <2>1, <2>10 DEF PageRangeFor, a, b
    <2> QED
      BY <2>8, <2>9, <2>11
  <1> QED
    BY <1>1, CutsByDesign, PTL
=============================================================================
