------------------------------- MODULE Removal -------------------------------
(***************************************************************************)
(* DeleteBook at any moment of a book's life: while it is uploaded,        *)
(* extracted, narrated, stitched or read.  The request reads the book row  *)
(* and lists the chunk rows, deletes the book row first, then the objects  *)
(* it knows of, and the chunk rows last; every call is a step of its own   *)
(* and there is no lock.                                                   *)
(***************************************************************************)
EXTENDS Extraction, Synthesis, Delivery

VARIABLES
  removePc,    \* what the request does next
  seen,        \* what it has read, see Sights
  removeTodo,  \* chunk rows it has still to delete
  unclean,     \* history: the request died, or S3 refused to delete a key
  late         \* history: what appeared since the request began and is still there

removeVars == <<removePc, seen, removeTodo, unclean>>
workerVars == <<extractVars, synthVars, stitchVars, stitchDlq, readVars>>
vars == <<storeVars, uploadVars, extractVars, synthVars, stitcherVars, readVars, removeVars, late>>

RemovePcs == {"idle", "list", "row", "pdf", "mp3", "clips", "manifest", "marks",
              "query", "wipe", "over", "died"}

\* The keys of the row, the chunks it knows of, and two histories: the chunks
\* whose keys the one query, and whose rows the other, did not show it.
Sights == [audioKey : BOOLEAN, manifestKey : BOOLEAN, chunks : SUBSET Chunks,
           keysMissed : SUBSET Chunks, rowsMissed : SUBSET Chunks]

NothingSeen == [audioKey |-> FALSE, manifestKey |-> FALSE, chunks |-> {},
                keysMissed |-> {}, rowsMissed |-> {}]

\* What is there of the book besides its row.
Remains ==
  {<<"clip", c>> : c \in clips} \cup {<<"marks", c>> : c \in markDocs} \cup {<<"row", c>> : c \in Rows}
    \cup {<<k, 0>> : k \in {"pdf" : p \in {pdf} \ {NoPdf}}
                            \cup {"mp3" : b \in {bookMp3.exists} \ {FALSE}}
                            \cup {"manifest" : b \in {manifest.exists} \ {FALSE}}}

TypeOK ==
  /\ StoreTypeOK /\ UploadTypeOK /\ ExtractTypeOK /\ SynthTypeOK /\ StitchTypeOK /\ ReadTypeOK
  /\ removePc \in RemovePcs
  /\ seen \in Sights
  /\ removeTodo \subseteq Chunks
  /\ unclean \in BOOLEAN

Init ==
  /\ book = NewBook
  /\ chunk = [c \in Chunks |-> Absent]
  /\ clips = {} /\ markDocs = {}
  /\ synthQueue = [b \in SynthBodies |-> 0]
  /\ synthDlq = [c \in Chunks |-> 0]
  /\ stitchQueue = [r \in 0 .. StitchMaxReceive - 1 |-> 0]
  /\ NoFaults
  /\ lostCount = [done |-> 0, failed |-> 0]
  /\ UploadInit /\ ExtractInit /\ SynthInit /\ StitchInit /\ ReadInit
  /\ removePc = "idle" /\ seen = NothingSeen /\ removeTodo = {} /\ unclean = FALSE
  /\ late = {}

-----------------------------------------------------------------------------
(* The request *)

RemoveAt(here) == removePc = here
RemoveGoto(next) == removePc' = next

\* A book that is not there, or not the caller's, answers 404.
RemoveStart ==
  /\ RemoveAt("idle")
  /\ book.status # Absent
  /\ seen' = [seen EXCEPT !.audioKey = book.audioKey, !.manifestKey = book.manifestKey]
  /\ RemoveGoto("list")
  /\ UNCHANGED <<storeVars, uploadVars, outputVars, removeTodo, unclean>>

\* Mutant: only chunks that have their audio are taken for having objects.
ListedDone == {c \in Rows : chunk[c] = "DONE"}

\* Keys are made from the indexes of all rows, whatever their status.
ListedChunks == Rows

\* A query is eventually consistent: it may not show rows written before it.
\* (It may show a row that is gone, too; that only adds keys.)
Unseen == SUBSET (Lagging \cap Rows)

\* Mutant: the objects go before the row.
RemoveListThenObjects ==
  /\ RemoveAt("list")
  /\ \E unseen \in Unseen :
       seen' = [seen EXCEPT !.chunks = ListedChunks \ unseen, !.keysMissed = unseen]
  /\ RemoveGoto("pdf")
  /\ UNCHANGED <<storeVars, uploadVars, outputVars, removeTodo, unclean>>

RemoveList ==
  /\ RemoveAt("list")
  /\ \E unseen \in Unseen :
       seen' = [seen EXCEPT !.chunks = ListedChunks \ unseen, !.keysMissed = unseen]
  /\ RemoveGoto("row")
  /\ UNCHANGED <<storeVars, uploadVars, outputVars, removeTodo, unclean>>

\* The row goes first.
RemoveRow ==
  /\ RemoveAt("row")
  /\ book' = [NewBook EXCEPT !.status = Absent]
  /\ RemoveGoto("pdf")
  /\ UNCHANGED <<chunk, objectVars, queueVars, envVars, uploadVars, outputVars, seen, removeTodo, unclean>>

RemovePdf ==
  /\ RemoveAt("pdf")
  /\ pdf' = NoPdf
  /\ RemoveGoto("mp3")
  /\ UNCHANGED <<storeVars, form, events, extractQueue, extractDlq, outputVars, seen, removeTodo, unclean>>

RemoveMp3 ==
  /\ RemoveAt("mp3")
  /\ bookMp3' = IF seen.audioKey THEN NoMp3 ELSE bookMp3
  /\ RemoveGoto("clips")
  /\ UNCHANGED <<storeVars, uploadVars, manifest, seen, removeTodo, unclean>>

\* DeleteObjects answers with the keys it could not delete; nobody looks.
Deleted(stored, refused) ==
  /\ refused \subseteq stored \cap seen.chunks
  /\ IF refused = {} THEN UNCHANGED <<faults, unclean>> ELSE SpendCrash /\ unclean' = TRUE

RemoveClips ==
  /\ RemoveAt("clips")
  /\ \E refused \in SUBSET clips : Deleted(clips, refused) /\ clips' = (clips \ seen.chunks) \cup refused
  /\ RemoveGoto("manifest")
  /\ UNCHANGED <<tableVars, markDocs, queueVars, lostCount, uploadVars, outputVars, seen, removeTodo>>

RemoveManifest ==
  /\ RemoveAt("manifest")
  /\ manifest' = IF seen.manifestKey THEN NoManifest ELSE manifest
  /\ RemoveGoto("marks")
  /\ UNCHANGED <<storeVars, uploadVars, bookMp3, seen, removeTodo, unclean>>

RemoveMarks ==
  /\ RemoveAt("marks")
  /\ \E refused \in SUBSET markDocs : Deleted(markDocs, refused) /\ markDocs' = (markDocs \ seen.chunks) \cup refused
  /\ RemoveGoto("query")
  /\ UNCHANGED <<tableVars, clips, queueVars, lostCount, uploadVars, outputVars, seen, removeTodo>>

\* delete_for_book asks for the rows once more, and deletes one by one.
RemoveQuery ==
  /\ RemoveAt("query")
  /\ \E unseen \in Unseen :
       removeTodo' = Rows \ unseen /\ seen' = [seen EXCEPT !.rowsMissed = unseen]
  /\ RemoveGoto("wipe")
  /\ UNCHANGED <<storeVars, uploadVars, outputVars, unclean>>

RemoveChunkRow(c) ==
  /\ RemoveAt("wipe")
  /\ c \in removeTodo
  /\ chunk' = [chunk EXCEPT ![c] = Absent]
  /\ removeTodo' = removeTodo \ {c}
  /\ UNCHANGED <<book, objectVars, queueVars, envVars, uploadVars, outputVars, removePc, seen, unclean>>

RemoveEnds ==
  /\ RemoveAt("wipe")
  /\ removeTodo = {}
  /\ RemoveGoto("over")
  /\ UNCHANGED <<storeVars, uploadVars, outputVars, seen, removeTodo, unclean>>

\* Another request may follow, but only the row it deletes first leads to the
\* rest: from there on nobody can finish what this one has begun.
RemoveCrash ==
  /\ removePc \notin {"idle", "over", "died"}
  /\ Crash(FALSE, FALSE)
  /\ seen' = NothingSeen /\ removeTodo' = {}
  /\ unclean' = (book.status = Absent)
  /\ RemoveGoto(IF book.status = Absent THEN "died" ELSE "idle")
  /\ UNCHANGED <<tableVars, objectVars, queueVars, uploadVars, outputVars>>

RemoveNext ==
  \/ RemoveStart \/ RemoveList \/ RemoveRow \/ RemovePdf \/ RemoveMp3 \/ RemoveClips
  \/ RemoveManifest \/ RemoveMarks \/ RemoveQuery
  \/ (\E c \in Chunks : RemoveChunkRow(c)) \/ RemoveEnds \/ RemoveCrash

-----------------------------------------------------------------------------
Step ==
  \/ UploadNext  /\ UNCHANGED <<workerVars, outputVars, removeVars>>
  \/ ExtractNext /\ UNCHANGED <<synthVars, stitcherVars, readVars, removeVars>>
  \/ SynthNext   /\ UNCHANGED <<uploadVars, extractVars, stitcherVars, readVars, removeVars>>
  \/ StitchNext  /\ UNCHANGED <<uploadVars, extractVars, synthVars, readVars, removeVars>>
  \/ ReadNext    /\ UNCHANGED <<storeVars, uploadVars, extractVars, synthVars, stitcherVars, removeVars>>
  \/ RemoveNext  /\ UNCHANGED workerVars

\* The history of what appears while the request is under way.
Next == Step /\ late' = IF removePc' = "idle" THEN {} ELSE Remains' \ (Remains \ late)

Spec == Init /\ [][Next]_vars

-----------------------------------------------------------------------------
(* Properties *)

\* No worker that comes late brings the row of a deleted book back: its updates
\* demand that the row exists (use_cases.py:150-158).
BookStaysDeleted == [][book.status = Absent => book'.status = Absent]_book

\* Whoever holds a key that a row advertised and does not find the object has
\* lost a race with the deletion: the book is gone by then, and asking for it
\* again says so (use_cases.py:149, delivery.py:118-124).
MissingMeansDeleted ==
  \A r \in Readers : readPc[r] = "fetch" /\ ~Stored(wanted[r]) => book.status = Absent

\* A deletion that went through leaves nothing that was there when it began,
\* in whatever state the pipeline was, except outputs that no row advertised,
\* those of a stitcher that had not ended yet, and what a lagging query did not
\* show: the objects of a chunk the first one missed, a row the second one
\* missed (use_cases.py:150-166, 198-201, dynamodb_chunk_repository.py:151-168).
LeftoversAccountedFor ==
  removePc = "over" /\ ~unclean =>
    Remains \subseteq late \cup {<<"mp3", 0>> : b \in {seen.audioKey} \ {TRUE}}
                           \cup {<<"manifest", 0>> : b \in {seen.manifestKey} \ {TRUE}}
                           \cup ({"clip", "marks"} \X seen.keysMissed)
                           \cup ({"row"} \X seen.rowsMissed)
=============================================================================
