# BookLoud, specified

TLA+ specifications of BookLoud: a PDF is uploaded, cut into chunks, every chunk is narrated by
its own Lambda invocation, and the narrated chunks are stitched into one MP3 with a manifest.
The modules follow the Python of `src/backend/src/contexts/library/`. TLC checks them on small
instances; TLAPS checks the theorems of the `*Proofs` modules for every value of the constants.

Paths below are relative to `src/`; `library/` stands for `backend/src/contexts/library/`.

## The system

### Components

| component | code | state it keeps | operations | what makes it correct | status |
|---|---|---|---|---|---|
| Upload API | `library/application/use_cases.py`, `library/infrastructure/s3_pdf_storage.py` | the book row, the stored PDF, an upload form that expires | request, reissue | an upload is only reissued before any extraction succeeded; every upload comes to an outcome | partly: the reads that change nothing are left out (`Uploads`) |
| Extraction | `library/application/extraction.py`, `library/interface/extract_handler.py` | book status, chunk rows, the extract queue | claim, read, replace the rows, flip, fan out, fail, release | one extraction at a time; EXTRACTED means the announced rows; narrated rows survive | modelled (`Extraction`) |
| Synthesis and fan-in | `library/application/synthesis.py`, `library/interface/synthesize_handler.py` | chunk status, two objects per chunk, the counters of the book, the synthesize queue | claim, speak, two puts, terminal update, increment, publish, release | a DONE row has both objects; each outcome is counted; the completion signal is not dropped | modelled (`Synthesis`) |
| Speech engines | `library/infrastructure/*_synthesizer.py`, `library/interface/dependencies.py` | none | speak with attempts, pauses and time limits; fall back | a paid engine only after the free one; cut off only for want of time | modelled (`Speaking`) |
| Word marks | `library/domain/marks.py` | none (pure) | align reported words, interpolate between anchors | the words of a clip follow its text and its time | modelled (`Marks`) |
| Stitching | `library/application/stitching.py`, `library/domain/stitching.py` | book status, `book.mp3`, the manifest, the stitch queue | claim, list, concatenate, put the manifest, terminal update, release, degrade | READY means every chunk; what is advertised exists and agrees | modelled (`Stitching`) |
| Segment planning, manifest | `library/domain/stitching.py` | none (pure) | offsets of the segments | contiguous, never half a millisecond off, sums to the total | modelled (`Assembly`) |
| Multipart writer, MP3 frames | `library/infrastructure/s3_object_storage.py`, `mp3.py` | an open upload, its buffer and parts | write, flush, complete, abort | a whole object or none; legal parts; bounded memory; no upload left open | writer modelled (`Assembly`), frames an outcome |
| DLQ sweeper | `library/application/sweeping.py`, `library/interface/dlq_sweep_handler.py` | nothing of its own | finalize a chunk or a book, re-send the stitch message | no stranded book, none failed that moved on | modelled (`Sweeping`, `ExtractSweeping`) |
| Resynthesis | `library/application/resynthesis.py` | nothing of its own | reset FAILED and PENDING chunks, rewind the counter, publish | a retried book is finished again | modelled (`Resynthesis`) |
| Book deletion | `use_cases.py` `DeleteBook` | book row, chunk rows, objects | a cleanup of many calls without a lock | the row stays away; what stays behind was written late or not shown | modelled (`Removal`) |
| Delivery | `library/application/delivery.py`, `s3_audio_delivery.py` | none | read the row, read the chunk row, fetch or sign | a key leads to its object as long as the book is there | modelled (`Delivery`) |
| Chat | `library/application/chat.py`, `library/domain/chat.py`, `openai_chat_model.py`, `chat_controllers.py`, the chat repositories | a daily counter, a transcript | ask, stream, save, clear | no unpaid request, no answer twice, what was told is stored, the prompt is whole turns | modelled (`ChatContext`, `Chat`) |
| Queue pollers | `library/interface/queue_poller.py`, `local_*_worker.py` | an invocation's time, a batch | drain, poll, handle, delete | nothing deleted unhandled, nothing dead-lettered for another message's failure | modelled (`Drain`) |
| Repositories, queues | `library/infrastructure/dynamodb_*_repository.py`, `sqs_*_queue.py`, `infra/stacks/pipeline_stack.py` | the table, the queues and their DLQs | conditional updates, batch sends, receive counts | the other components' properties rest on them | partly: `get_item` is taken as consistent (`LibraryStore`) |
| Chunking, page ranges | `library/domain/chunking.py`, `extraction.py` | none (pure) | cut text, merge remainders, map pages | the chunks tile the text and are cut only where they must be; page ranges cover them | modelled (`Cutting`) |
| PDF layout, language | `library/domain/layout.py`, `language.py`, `pymupdf_extractor.py` | none (pure) | order blocks, join pages, guess a language | pages joined so that offsets address the text | joining only (`Cutting`) |
| Controllers, auth, health | `library/interface/controllers.py`, `backend/src/auth/` | none | translate HTTP to use cases | | not modelled |
| Mobile app | `mobile/hooks/*.ts`, `mobile/lib/*.ts` | player, poller and cache state | play, seek, retry, poll | the player recovers; polling stops at a terminal status | not modelled |
| Infrastructure | `infra/stacks/` | declarations | | receive counts, time limits and DLQs as modelled | parameters only |

### How they interact

There is no call from one stage to the next. An S3 event puts a message in the extract queue; the
extract handler sends one message per chunk; the invocation whose increment completes the counter
sends one stitch message. All of them share the book row and the chunk rows of one DynamoDB table,
where each `get` and each conditional `update_status` is atomic and nothing spans two of them.
SQS delivers at least once and in no order; a message that is not deleted comes back with a higher
receive count until it moves to its DLQ. A queue is emptied by scheduled invocations that receive
batches of up to ten and handle their messages one after the other. API calls (reissue,
resynthesize, delete, read, ask) are made by clients at any time and are not redelivered. The chat
reads the book row and the chunk rows, and shares the day's counter and the book's transcript with
the other questions of the same reader.

### What is hard here

Every handler is a sequence of independent writes that other invocations, a crash or a
redelivery can separate. `PROJECT.json` lists the hazards at their lines; the main ones are

* the write of a terminal chunk row and the increment that counts it (two writes), and the rewind of
  a retry that computes the counter from an old read;
* the claims without a lease, and a sweeper that cannot see whether somebody still works on the book;
* the completion signal, which exists only as a message;
* the two objects that a second stitcher may overwrite, after a chunk list that may lag behind;
* a deletion without a lock under all of these, and under a reader who holds a key;
* an invocation whose time runs out in the middle of a batch;
* a quota, a transcript and a clear that several questions share, and a stream that breaks off;
* boundary arithmetic: cuts, page ranges, byte ranges, rounded durations, word marks, the chat window.

## The modules

| module | models | composed in |
|---|---|---|
| `LibraryStore` | the rows, the objects, the synthesize and stitch queues, the faults of the environment | all |
| `Synthesis` | `SynthesizeChunk.execute`, one action per external call | `FanIn`, `Narration` |
| `Stitching` | `StitchBook.execute`, its outputs and its DLQ | `Narration` |
| `Sweeping` | `SweepDlq.sweep_synthesize` | `Narration` |
| `Resynthesis` | `ResynthesizeBook.execute` | `Narration` |
| `FanIn` | synthesis alone, from the EXTRACTED flip to the stitch message; the module that is proved about | |
| `NarratedBook` | the abstract promise: chunks are told for good, READY means all of them, PARTIAL may be taken up again | refined by `Narration` |
| `Narration` | the four handlers on one book, from EXTRACTED to READY or PARTIAL | |
| `Stitched` | the abstract promise of one stitcher: book.mp3 replaced as a whole, the manifest after it from the same list, or no audio offered | refined by `Assembly` and by `Narration` |
| `Uploads` | the upload form, the PDF, the extract queue and its DLQ | `Intake` |
| `Extraction` | `ExtractBook.execute` | `Intake` |
| `ExtractSweeping` | `SweepDlq.sweep_extract` | `Intake` |
| `Intake` | from a new book to a narrated one, with a one-step narrator after the fan-out | |
| `Assembly` | what one stitcher does between its claim and its terminal update: the multipart writer, the plan of the segments, the degraded last attempt | |
| `Cutting` | `chunk_text` and `page_range_for`, over texts of which only blanks, paragraph starts, sentence starts and page starts are told apart | |
| `Delivery` | the four read use cases and the use of what they hand out | `Removal` |
| `Removal` | `DeleteBook`, next to uploads, extraction, synthesis, stitching and readers | |
| `Drain` | `drain_queue` and `poll_once`: invocations with a time limit on one queue | |
| `ChatContext` | `resolve_context`: the window around the reader, the last turns | `Chat` |
| `Chat` | `AskBookQuestion`, the streaming endpoint and `ClearBookChat` | |
| `Marks` | `marks.py` and the anchors made of Google's time points | `Speaking` |
| `Sorting` | what `sorted` and a query by sort key return: a set in its order | `ChatContext`, `Marks` |
| `Speaking` | one call of the speech synthesizer: which engines, their attempts, the fallback, the marks | |
| `MCFanIn`, `MCNarration`, `MCIntake` | symmetry sets for TLC; the values of the constants are in the `.cfg` files | |
| `AssemblyProofs`, `DrainProofs`, `ChatProofs`, `RemovalProofs`, `NarrationProofs` | theorems about the module they are named after | |
| `SynthesisProofs` | theorems about `FanIn`, and about `Speaking`, the call its workers make | |
| `ExtractionProofs` | theorems about `Intake` and about `Cutting` | |
| `Recursion` | lemmas on induction, recursion and sorting over finite sets and sequences, for the proofs about folds, recursive functions and sorted lists | |

State and code correspond as follows.

* `book` is the book row with the fields the handlers branch on: `status`, `total`
  (`chunksTotal`), `done` and `failed` (the counters), whether the two output keys are set, and
  the failure reason. `chunk` maps a chunk to the status of its row or `Absent`.
* `clips`, `markDocs`, `bookMp3` and `manifest` are the S3 objects, by the chunks they hold.
* `synthQueue`, `stitchQueue` and `extractQueue` count the waiting copies of a message by its
  receive count so far; `synthDlq`, `stitchDlq` and `extractDlq` count dead letters.
* Each handler is a set of concurrent invocations with a program counter (`synthPc`,
  `stitchPc`, ...) and the locals that survive from one call to the next: the plan of a
  stitcher, the reset chunks of a retry, the rows an extractor has still to put. The name of a
  program counter value is the call that comes next, so a step is: make that call, branch on
  what it returns. Between any two steps anybody else may move.
* A conditional update that fails (`ConflictError`, `NotFoundError`) is the ELSE branch of the
  action of that update.
* A crash (`SynthCrash`, ...) is possible wherever a handler stands; it also stands for a DynamoDB
  call that raises. The message goes back, the locals are gone. The completion of `book.mp3` and the put of the
  manifest may raise although the object was written. `lostCount`, `diedClaiming`,
  `failedLive` and `droppedFanOut` are history variables: they influence nothing and let a
  property name its exceptions exactly.
* `Assembly` looks into what `Stitching` does in one step (`Concatenate`, `PutManifest`), for one
  stitcher and chunk rows that stand still. A byte is a pair of a chunk and a number, so that
  `book.mp3` can be compared with the frames it should hold; a duration is a count of
  1 / `Resolution` ms, so that rounding matters. `bookMp3` and `manifest` outlive the attempts.
* `Cutting` has the text as input and one step, `CutBook`. A position is blank or not; a paragraph
  or a sentence is where it starts; `PagesJoined` and `ParagraphsSeparated` say which such texts
  the extractor's `_assemble` and `_normalize_text` can produce. Paragraphs start after a gap of
  two blanks at least, because the separator of paragraphs has that length.
* A stitcher's list of the chunk rows may lag: for a chunk of `Lagging` it may show a DONE row as it
  was before (`list_for_book` is a query without `ConsistentRead`).
* `Removal` is the same pipeline with a request that goes through it call by call. `seen` is what the
  request has read; `late` is a history variable, what appeared after the request began and is still there. Its two queries
  of the chunk rows, and the stitcher's, may not show a row of `Lagging` that is there; `seen.keysMissed` and
  `seen.rowsMissed` are histories of that. A
  refused key of `DeleteObjects` and a dying request are faults; `unclean` records either. A reader
  is a program counter and what it wants; a signed URL is a key that is used some time later.
* `Drain` takes what a handler does as a duration of at most `Longest` and an outcome, since what
  counts is the time it leaves to the rest of its batch. `left` is what `get_remaining_time_in_millis`
  would answer; a handler that needs more than that is cut off together with its batch, and the history variable
  `cutShort` counts the invocations that end in the middle of one. The visibility
  timeout is six times that of the Lambda (`pipeline_stack.py`), so that a message never reappears
  while it is in somebody's hand.
* In `Chat` a turn is the question that opened it, and a message is a turn and a role; `asked` holds
  the time it was dated by and which of its two random ids is the smaller. A text is its length. The
  context of a turn is kept only until the model is asked. The three turns of the run are one that was
  stored before and two that run at once.
* In `Speaking` the text, what the engine reports and the duration are the inputs, over all small
  values; `answers` is the history of what the engines answered. `budget` is the time the invocation has left when the
  call begins: the one of the queue's next message, after all those before it, may be any. A call that would need more
  is cut off (`CutOff`), in an attempt or in the pause after it; `Synthesis` sees that as a crash. `GiveUp` leaves out that the fallback passes
  `UnsynthesizableText` on to its caller: no engine raises it, since blank texts are turned down before the call.
* `Assembly`'s `TableFails` is a query or a terminal update that raises, outside of every `try`, on the last attempt too.
* `Extraction` takes the query of `delete_for_book` as exact, which it is not: what it deletes are the rows of an earlier
  attempt, and a redelivery comes when the visibility timeout, many minutes, is over.
* A definition under a comment that starts with "Mutant:" is a plausible wrong version of the
  definition after it. Nothing uses it; it shows which bug a property would find.

## The runs

The runs of the handlers cut a book into at most two chunks (`removal`: one). Two is the least with
which an incomplete counter, a partial book and a manifest with something missing exist. The
environment commits a bounded number of faults (`MaxCrashes`, `MaxDuplicates`, `MaxSendFailures`); one
of each is enough to put a fault between any two steps, and the runs differ in what they combine.
Deadlock is not checked except in the runs of `Drain`: elsewhere, when every message is consumed and
the bounds are used up, the system rests.

| run | bounds | shows |
|---|---|---|
| `fanin` | 2 workers, 2 receives, 1 crash, 1 duplicate, 1 failing send | counting, the objects of a DONE row, the completion signal, and (with fairness) that the stitch message is sent |
| `narration` | 1 invocation of each handler, 2 receives of each message, 1 crash, 1 failing send, 1 retry, 1 silent chunk | keys never run ahead of objects; manifest, MP3 and row agree; the stitcher implements `Stitched`; a book settles, and settles again after a retry |
| `narration_two_stitchers` | 2 stitchers, 1 duplicate, 1 retry, 1 lagging row | `Narration` refines `NarratedBook`; whatever is in a manifest can be played |
| `narration_retry` | 1 duplicate, 1 retry | `RetrySettles` is violated |
| `intake` | 2 extractors, 2 S3 events, 2 receives, 1 crash, 2 failing sends | rows before EXTRACTED, one extraction, nothing narrated is wiped, uploads settle |
| `assembly` | 3 chunks, parts of 2, clips of 0, 1 or 5 bytes, durations of 1/4 and 2/4 ms, 2 receives, 3 faults | the writer, the offsets and the degraded path; the stitcher, call by call, implements `Stitched` |
| `cutting` | texts of 14 positions on 2 pages; target 7, maximum 8, minimum 6 | how a text is cut, and its page ranges |
| `removal` | 1 chunk, 1 invocation of each worker, 1 reader, 2 receives of a chunk message and 1 of the others, 1 fault, queries that may not show the row | the row stays away; a missing object means a deleted book; what is left over was written late, never advertised, or not shown |
| `drain` | 3 messages, 2 invocations, batches of 2, 2 receives, handlers of up to 3 ticks, 4 ticks of an invocation, a margin of 1, 1 deletion that raises | a dead-lettered message had its attempts, every message settles |
| `drain_cut_off` | 3 messages, 1 invocation, batches of 3, a margin of one poll and one message | `NoReceiveBurned` is violated |
| `chat` | 2 questions at once and one before, a limit of 2, 2 days, 3 chunks of length 1, 2 or 4 against a window of 3, 1 crash, a clear, a deletion | the quota, the window, the history, the stream and the transcript |
| `speaking` | texts of 5 positions over 2 letters, 3 reported words, clips of 3 ticks, the real attempts, pauses and time limits in half seconds, 30, 243 or 243.5 s left | marks follow the text; engines are used up in order; who is cut off had too little time |

`ExtractMaxReceive`, `SynthMaxReceive` and `StitchMaxReceive` are 3, 5 and 3 in the deployment; two
keeps the difference between a last attempt and one before it. The set `Silent` names chunks whose MP3
has no frame once its headers are stripped. `narration` has one such chunk and one that can be heard,
so a book may hold everything, something, or nothing but silence.

The bounds of `assembly`: a clip of 5 bytes fills two parts and leaves a byte over, one of 1 leaves
a part short, one of 0 is passed over; durations of 1/4 and 1/2 ms make ties of the rounding, and
boundaries that drift if each duration is rounded alone; three faults allow one attempt to fail
with its abort failing too, and the next to fail again. In `cutting` a text of 14 positions has room
for an oversized paragraph (more than 8) with another before or after it, for an oversized sentence in it, for three
chunks, for a last chunk that is merged or stuck, and for a front that stays small after its merge; the three sizes
differ, so that their uses can be told apart (the code has 1800, 2600 and 400).

In `chat` the window of 3 holds one to three chunks, depending on their lengths, or one that is longer than it, and anchors of 1 and 5
are in the middle of the book and beyond its end; the times 1 and 3 lie on two days, and questions of
the same time are ordered by ids alone. With a limit of 2 and one turn charged before, the two questions
compete for the last place. A limit of 0 is not run; there the code lets the first question of a day through
(`attribute_not_exists(#c) OR #c < :limit`), and `PaidFor` counts with it (`Chargeable`). In `drain` the margin of 1 covers a poll and no
handler, as the 30 s of the code cover one poll and not the slowest synthesis: invocations are cut off in a batch,
raise out of it, and run out between polls. In `speaking` a text of 5 has three words at most, and a look-ahead of 2
(200 in the code) is passed by words that are repeated or that the engine invented; the time limits are
those of the code: 75 s, 45 s, 1.5 s and 2 s, at most 243.5 s together. A call begins with 30 s left (the margin of
the poller), with half a second too little for all of it, or with just enough.

### What the violated runs show

* **A retry can lose an increment** (`narration_retry`). The rewind sets the counter from the read
  at the start of the call; a duplicate message counted after its chunk was reset is overwritten, and
  the book stays EXTRACTED. `application/resynthesis.py:18-21` says everything runs as after a first
  extraction.
* **A margin for one message does not cover a batch** (`drain_cut_off`). The time is looked at between
  polls, and a poll brings up to ten messages. `interface/queue_poller.py:22-28` sizes the margin for one
  long poll and one message, so that no redelivery is burned; an invocation that is cut off in the
  middle of a batch burns one for each message it had not come to. Five such receives take a chunk to
  its DLQ without an attempt. What does hold, with any margin, is `DeadLettersWereTried`: a message loses an attempt
  only to an invocation that ends in the middle of a batch.

### Exceptions the properties name

A property of a passing run that does not hold outright names what it excepts, and each exception is
behaviour of the code that TLC reaches.

* `lostCount` (in `DoneCountedOnce`, `FailedCounted`, `FanInFires`, `SettlesDespiteFaults`): the DONE row is written
  before the increment and the redelivery of a DONE chunk does not count it, so an invocation that
  dies between the two costs the book its stitch. `README.md:56` says no work is lost.
* `FailedCounted` is an inequality: FAILED is claimable, so a chunk that failed, completed the
  counter and could not send the stitch message is failed and counted again on its redelivery, and
  the counter passes the total. `application/synthesis.py:236-240` says this never happens.
* `OutputsAgree` is checked with one stitcher. With two, one lists the chunk rows before a retried or late
  chunk becomes DONE, the other after, and the loser of the terminal update may write last;
  `application/stitching.py:369-371` says both write the same bytes. With a silent chunk the loser may
  even complete an empty `book.mp3` over the one the row advertises, so `narration_two_stitchers` has
  none, and `OutputsExist` is checked with one stitcher too.
* `diedClaiming` (in `EveryUploadSettles`): the redelivery after a crash finds EXTRACTING, loses the claim,
  and is deleted as a duplicate, so the event never reaches the DLQ that the sweeper drains.
  `README.md:50-52` says such books do not stay stuck.
* `droppedFanOut`: a fan-out that fails at every receive leaves the book EXTRACTED; the sweeper does not
  touch that status.
* `failedLive` (in `OneExtraction`, `ExtractedHasRows`, `NarrationSurvives`): the sweeper fails an EXTRACTING book
  for the dead letter of an *earlier* attempt without seeing that a later upload is being extracted;
  FAILED is claimable, so one more event starts a second extraction next to the first. With three
  events TLC reaches two live extractions; the run stays at two, within which `failedLive` is
  reached but not yet harmful.
* `SilentOnlyByLongSentence`: `domain/chunking.py:31` says every chunk is non-blank; an oversized sentence
  followed by blanks can be cut so that its last chunk is blank, and the property says that this is
  the only way.
* `RuntsAreStuck` excepts a front that was merged once: `domain/chunking.py:19-22` merges a small front "symmetrically"
  to a small end, but the code does it once. A front that ends at an oversized sentence may be too small
  and yet fit its successor: a short paragraph, then an oversized one that starts with a short
  sentence. The property says that there is no other way.
* `PagesCoverChunk` says that the range covers the chunk's text, not that it is the least one: a chunk owns
  the separators around its text, so the first chunk of a book with a blank first page is said to start
  on page 1. `domain/extraction.py:56-57` says a blank page is never selected.
* `LeftoversAccountedFor` excepts what was written after the request began, outputs no row advertised, and what a lagging query
  did not show: neither `list_for_book` nor the query of `delete_for_book` is a consistent read, so the objects of a chunk that
  was just narrated, or a row that was just put, may stay.
  `use_cases.py:160-162` says no *new* claim starts after the deletion began; that is not so for chunk
  claims, which demand the row of the chunk and not that of the book, and chunk rows go last. Such a
  claim ends in objects that stay behind. The transcript of the chat stays behind too: `DeleteBook`
  does not delete it.
* `DeadLettersWereTried` subtracts an attempt for each invocation that ended in the middle of a batch (`cutShort`).
* `PaidFor` counts one question a day as within a limit of 0.
* `WordsFollowText`, of measured words that were not all reported as the text has them, promises that spans stay apart and
  that, once a word is found in its place, the words after it are for as long as they are reported. It does not promise that there is
  such a word: `domain/marks.py:46-50` says that one bad token cannot misplace every word after it, but a token shorter than
  its word may leave the cursor so far behind that what follows is out of the look-ahead, and one longer than its word carries
  the cursor past the next words, which are then found at their next occurrence. With the code's look-ahead of 200 the first
  takes a word of that length, the second a text in which the words recur (`"25 a b a b a b"` reported with
  `"twenty-five"` misplaces all seven).
* `PromptIsTurns` promises whole turns only when no turn is half stored or half cleared and none were asked
  within a microsecond of each other; otherwise only that the prompt begins with a question and ends
  with an answer.

### Fairness

Weak fairness of each invocation's handler (`SynthFairness`, ...), and nothing for crashes,
duplicates, uploads, retries or an expiring form. The code justifies it: each queue is polled on
a schedule for ever (`infra/stacks/pipeline_stack.py`, `library/interface/queue_poller.py`), an
invocation that does not die runs to its end, and a message that stays visible is received. The
actions of one handler are mutually exclusive by their program counter, except where an external
call may succeed or fail; weak fairness of their disjunction does not promise success. Calls that
fail for ever are cut by the receive count, so liveness never rests on an engine or a put
succeeding. The liveness properties therefore name what ends a book without an outcome (see above).

`Drain` looks at the schedule itself: EventBridge starts the handler again and again and an invocation
goes on until it returns or is killed (`WF` of each `Drainer`), and SQS shows a message again when its
visibility timeout is over (`WF` of each `Reappear`). Nothing is assumed of `DeleteRaises`, of the time a
handler takes or of its success; `EveryMessageSettles` rests on the receive count alone.

`Removal`, `Chat`, `Speaking`, `Assembly` and `Cutting` have safety properties only and assume no fairness.

## The theorems

Each is proved for every value of the constants that its module assumes (the named `ASSUME`s).

| module | theorem | statement |
|---|---|---|
| `SynthesisProofs` | `Typing` | `Spec => []TypeOK` |
| | `Narrated` | `Spec => []AdvertisedNarration` |
| | `DoneStays` | `Spec => DoneIsFinal` |
| | `SignalKept` | `Spec => []StitchNeverDropped` |
| | `DoneCounting` | `Spec => []DoneCountedOnce` |
| | `FailedCounting` | `Spec => []FailedCounted` |
| | `EnginesUsedUpInOrder` | `SpeakSpec => []UsedUpInOrder` |
| | `HighlightFollowsText` | `SpeakSpec => []WordsFollowText` |
| `AssemblyProofs` | `UploadsAreClosed` | `Spec => []UploadsAccountedFor` |
| | `LastAttemptDegrades` | `Spec => DeadOnlyWithoutWayOut` |
| | `MemoryBounded` | `Spec => []BufferBounded` |
| | `PartsAccepted` | `Spec => []PartsAreLegal` |
| | `WholeBookOrNone` | `Spec => []WholeOrNothing` |
| | `RangesHoldFrames` | `Spec => []ByteRangesAddressFrames` |
| | `TimelineIsExact` | `Spec => []TimelineExact` |
| | `AssemblyKeepsPromise` | `Spec => AssemblesAsPromised`, that is, `Stitched` is implemented |
| `DrainProofs` | `DeletionsAreEarned` | `Spec => []DeletedWasHandled` |
| | `DeadLettersHadTheirTries` | `Spec => []DeadLettersWereTried` |
| `ChatProofs` | `NoUnpaidRequest` | `Spec => []PaidFor` |
| | `ShownIsFinal` | `Spec => NoReplay` |
| | `ToldIsSaved` | `Spec => []DoneMeansSaved` |
| | `WindowsFit` | `Spec => []WindowFits` |
| | `ToldWhatWasSaid` | `Spec => PromptIsTurns` |
| `RemovalProofs` | `DeletedForGood` | `Spec => BookStaysDeleted` |
| | `NothingElseMissing` | `Spec => []MissingMeansDeleted` |
| | `LeftoversFound` | `Spec => []LeftoversAccountedFor` |
| `NarrationProofs` | `PlayableManifest` | `Spec => []ManifestIsPlayable` |
| | `PipelineKeepsPromise` | `Spec => KeepsPromise`, that is, `NarratedBook` is implemented |
| | `AdvertisedOutputsExist` | `ASSUME Silent = {} PROVE Spec => []OutputsExist` |
| | `OutputsFitTogether` | `ASSUME OneStitcher PROVE Spec => []OutputsAgree` |
| | `OneStitcherOutputsExist` | `ASSUME OneStitcher PROVE Spec => []OutputsExist` |
| | `OneStitcherKeepsPromise` | `ASSUME OneStitcher PROVE Spec => StitchesAsPromised`, that is, `Stitched` is implemented |
| `ExtractionProofs` | `ExtractsAlone` | `Spec => []OneExtraction` |
| | `RowsAsAnnounced` | `Spec => []ExtractedHasRows` |
| | `NarratedForGood` | `Spec => NarrationSurvives` |
| | `ChunksTileText` | `CutSpec => []Partition` |
| | `CutsPreferBoundaries` | `CutSpec => []CutsByPreference` |
| | `SilenceIsCutOff` | `CutSpec => []SilentOnlyByLongSentence` |
| | `SmallEndsAreStuck` | `CutSpec => []RuntsAreStuck` |
| | `PagesCoverText` | `CutSpec => []PagesCoverChunk` |

`FanIn` is proved about for any number of chunks, receives and faults and any finite set of workers
(`StoreAssumption`, `SynthWorkersAssumption`; only the counting needs the workers finite). `Assembly`: any
finite set of chunks, clip sizes, durations, floor of a part, receives and faults (`AssemblyAssumption`).
`Drain`: any finite set of messages, any invocations, batch size and times (`DrainAssumption`). `Chat`: any
finite set of turns, any clocks, limit, lengths and faults (`ChatAssumption`, `ContextAssumption`). `Removal`,
`Narration` and `Intake`: any number of chunks, workers of each kind, readers, retries, uploads and faults. `Cutting`:
any three sizes with `0 < minimum <= target <= maximum` (`SizesAssumption`), texts of any length on any number of pages
(`CuttingBoundsAssumption`). `Speaking`: any letters, texts, reports and durations, any look-ahead, attempts, pauses and time limits, and any time
the invocation has left (`SpeakingAssumption`, `LookaheadAssumption`).

Four theorems have a hypothesis of their own. `Silent = {}` says that every chunk has a frame to play, `OneStitcher`
that one invocation of the stitcher runs at a time: two of them, and a chunk of each kind, are what it takes to break
these properties (see the exceptions above), and any number of receives, deaths and retries is still allowed.

The inductive invariants, and why the properties need them:

* `TypeOK` of `FanIn` is inductive as it stands; it includes that an invocation which is not idle holds
  a real message, without which a returned message might fall outside the queue.
* `NarrationInv` of `SynthesisProofs` adds `Written`: an invocation that stands before the marks put has its clip in the
  bucket, one that stands before the terminal update has both objects. `AdvertisedNarration`
  alone says nothing about an invocation that is about to write DONE.
* `CompletionInv` adds that every row is present and strengthens "a message is outstanding" to
  "the stitch message was sent, or some invocation or message will look at the counter again"
  (`CompletionCarried`). The step that completes the counter goes to `publish`; a failing send
  returns the chunk message; its next receive finds the chunk DONE and re-sends, or claims a
  FAILED chunk and counts it again; its last one is dead-lettered, which the property allows.
* `CountInv` is the two counting properties with the presence of all rows. Each action changes at
  most one row and one program counter, so the proof rests on two lemmas, `WorkersChange` and
  `RowsChange`, on how the cardinalities of "workers at" and "rows with status" then move.
* `UploadsInv` is `UploadsAccountedFor` with the types it counts in: it is inductive because every
  step that enters or leaves "this stitcher holds an upload" opens, closes or orphans one.
* `WriterInv` adds where the buffer is below the floor: before a clip is read, not while it is
  written. Then it grows by one clip at most, and every part that is uploaded before the flush is
  exactly as long as the floor, which is what makes the list of parts legal when it is completed.
  `BufferBounded` alone would allow a buffer that is already full to take in the next clip.
* `LastAttemptDegrades` needs no invariant: a step that leads to "dead" is one of the three it names, because what the writer raises
  on the last attempt goes to the degraded path.
* `OutputInv` says of a writer between its clips that the chunks it has taken are the audible ones of those it had
  listed and has passed, in order (`Taken`), that its parts and its buffer together are their frames (`Joined`), and
  of a plan that is about to be put, or was put, what it is worth (`Worth`): it is the plan of all audible chunks, and if it offers audio, the
  object at the key is the whole narration; or it is the degraded plan, which offers none. The first completes the
  object with exactly those bytes, so `WholeOrNothing` does not depend on which attempt wrote it. The other
  two theorems are about the plan alone: `PlanIsLaid` describes the fold of `plan_segments` chunk by chunk, from where
  the byte ranges and the timeline follow (`SegmentsAddressFrames`, `PlanIsTimely`).
* `AssemblyKeepsPromise` maps the calls to the steps of `Stitched`: the completion is its `Join`, or its `JoinFails` when the response
  is lost; a last attempt that fails is over as soon as it fails (`GivingUp`), while its upload has still to be aborted; everything else
  stutters. `OutputInv` gives what is joined and offered, and `SomeDone` that nothing is uploaded of nothing.
* `HandledInv` adds that what an invocation is about to delete was handled. `HoldingInv` says that no
  message is in two hands and that whatever is in a hand is in flight, so that a receive cannot reach it.
  `AccountInv` says of every message, dead or not, that each of its receives was an attempt, is still to be one (it is in
  a batch and untried), or was lost to one of the invocations counted by `cutShort`: a receive puts a message in a hand, an
  attempt takes it out, and an invocation that ends in the middle of a batch drops each message of it once. A message is only
  dead-lettered after its last receive, when no hand holds it.
* `PaidInv` strengthens `PaidFor` from the turns that sent a request to all turns past their charge
  (`ChargedOn`): a turn between its charge and its request has used up a place nobody else may have.
* `ShownInv` says that text was shown only by turns past the opening of the stream, so that no step which
  counts a request is enabled. `SavedInv` says the same of the turn that is about to send the done
  frame as `DoneMeansSaved` of those that did.
* `WindowInv` says that the window of a question was cut out of the rows that were read. What that cut is, is a
  matter of sets: `DroppedBefore` is a total order on the chunks near the anchor, what is kept of them is an end piece
  of it, and the least number of drops that is enough leaves a window of which the last dropped would have been too
  much.
* `PromptIsTurns` needs of the state only its types: what is read is a set of messages sorted by their keys. In a sorted list a
  message's place says how many come after it (`SortedPlace`), and with whole turns that is two for each later turn, and one more after a
  question (`AfterMessage`). So places alternate between questions and answers, the last `2 * MAX_HISTORY_PAIRS` places hold the
  turns with fewer than `MAX_HISTORY_PAIRS` later ones, and nothing has to be taken off the ends (`WholeTurnsListed`, `PromptIs`).
* `Progress` (`RemovalProofs`) says of each part of a book that, past the step of the request that takes it away, none of it is left that
  was there when the request began (`Old`), and of the steps before what the request still has on its list. `OldShrinks`
  is the other half: whoever writes meanwhile writes something new, so `Old` only loses.
* `DeletedForGood` needs no invariant of the reachable states: it is proved of every step from any
  state without the row, one lemma for each worker.
* `KeepInv` is "the book is gone, or every key that is advertised, or held by a reader, or about to be
  advertised by a stitcher or a synthesizer, leads to its object". The disjunct carries the proof: the
  request deletes objects only after the row, so its steps either leave the objects alone or are taken
  when the row is gone, which is final. Each worker has a lemma that says which of the objects and keys it
  leaves alone (`ExtractFrame`, `SynthFrame`, `StitchFrame`, `ReadFrame`).
* `SoundInv` (`NarrationProofs`) says what each stitcher's plan is worth at the step it stands at
  (`Sound`): the chunks it lists are DONE, listed and missing ones are all there are, and it offers audio
  exactly if it lists something. `ManifestIsPlayable` follows with `Recorded`, the counterpart of `Written`; READY
  with every chunk DONE follows at the terminal update, where nothing is missing. The counters play no part in it:
  the refinement is about safety, and a counter that runs ahead only makes a book PARTIAL. `Stored` adds that
  objects stay and that a plan which offers one has written it. `AdvertisedOutputsExist` excludes silent chunks
  because of a second stitcher: with a list that lags it could replace the audio by that of silent chunks only.
* `Together` is about one stitcher: while the book is worked on its row advertises nothing (`Withdrawn`), and past each put the
  object is the one of the stitcher's own plan (`Agreed`), so that the terminal update advertises what that plan wrote. Whoever dies
  or gives up leaves a row that advertises nothing, until the next attempt has put both objects again.
* `OneStitcherKeepsPromise` needs, with `SoundInv` and `Together`, only that a plan's missing chunks are all it does not list
  (`Exhaustive`). It closes the gap between the two models of the stitcher: both implement the same `Stitched`. The chunk rows, which stand
  still in `Assembly`, are narrated further meanwhile (`Tell`); so the one step of `Stitching` allows what the calls may do.
* `IntakeInv` (`ExtractionProofs`) says, until `failedLive`, that the claim is held once and shows in the
  status, how far the rows have got at each write of its holder (`Progress`), and that before the flip
  no chunk is DONE and no message asks for one (`Announced`): a worker that wipes rows therefore wipes nothing narrated.
* `CutInv` says only that the rows are made of `ChunkText`; `Cutting` takes one step, and what is hard is what the functions
  compute. The proofs follow the code bottom up, with one notion for all its levels: `Tiling`, spans in a row that are
  each acceptable (`Covered`), short enough, cut where it is allowed (`Allowed`), and apart for a reason (`HeldApart`:
  together too long, the first of them long enough, or something oversized between them). Atoms are the stretches between starts
  (`AtomsAreStretches`); greedy grouping keeps such a tiling atom by atom (`ReadyStep`, `GreedyTiles`), whatever cuts
  the oversized atoms, and so do the whitespace split (`SplitTiles`), the sentences of a paragraph (`ParagraphSplit`), the
  paragraphs of the text (`TextTiled`) and the two merges (`MergedBackward`, `MergedForward`), which also leave ends that are
  stuck. The reasons for being apart are needed for the last property alone: they say why a front that
  was merged once cannot be merged again, except at something oversized.
* `AskingInv` says that whatever was answered while a call goes on is failures, all of edge-tts before any of Google, as many of the
  engine in use as it had attempts before this one, and that the time spent is at most what those attempts and pauses take. Counting
  them (`TimesFailed`, `TimesAfter`) gives `UsedUpInOrder` when the call ends. The bound on the time says of a call that is cut off that it
  was not given the time of the longest one (`LongestIs`, `EndsEarly`).
* `WordsFollowText` needs no invariant but types: marks are made in one step out of a text and a report, and what is hard is again what
  the functions compute. Sorted sequences exist and hold everything once (`SortingExists`, `SortedIsWhole`); the words of a text are such
  a sequence, with only spaces between two of them (`WordsInOrder`). `AlignWords` is a run with a cursor: it never goes back, so spans are
  apart whatever was reported (`SpansAreApart`), and if the text's own words are reported and near each other each of them is first found
  at its own place (`NextPlace`, `WordsAreFound`). The same holds after any word that was put in its place, whatever came before
  (`SpansFollow`, `NextIsFound`), and a report in the order of time is a document in that order (`ReportKept`). For Google, a list of anchors that passed `Monotonic` climbs (`MonotonicClimbs`), so the time
  of an offset grows with the offset across segments and roundings (`TimeGrows`, `NearestGrows`); marks that are in order already are
  what the document keeps (`DocumentKeepsOrder`).

`Recursion` is what the proofs about folds and recursive functions rest on. Induction is there stated of a set of what has the
property (`NatInductionIn`, `SubsetInductionIn`) instead of a predicate, which the provers could not instantiate. A fold and a recursive
function are in TLA+ a `CHOOSE` of some function that satisfies an equation, so before anything is known of one, that there is such a
function has to be shown, once for each: `FoldOverSets` and `RunsExist` do it for a fold over a set and for running totals,
`LeapsExist` for a function that looks further ahead in an interval, as the whitespace split does, and `FoldExists` with
`FoldIsRun` for a fold over the indexes of a sequence, which is the last value of a run. Sorted lists are a `CHOOSE`
as well: there is one for every finite set and total order, it holds everything once, and there is no other (`SortingExists`,
`SortedIsWhole`, `SortedIsUnique`).

Before it was proved each property, and each inductive invariant, was checked by TLC on the instance of its run. `DoneIsFinal`,
`DeletedWasHandled` and `DeadOnlyWithoutWayOut` are proved and not among the properties of the runs: they follow a step or two of one handler.
That a narrated chunk stays narrated is part of `NarratedBook` and of `Stitched`, which the runs do check.

## Only model-checked, and not modelled

* Liveness (`FanInFires`, `SettlesDespiteFaults`, `EveryUploadSettles`, `EveryMessageSettles`) is checked by
  TLC only; TLAPS does not do fairness and ENABLED. Every invariant and every action property of the passing runs is stated
  by a theorem above, some under a hypothesis of their own.
* `get_item` is consistent in the models; the code's is not (the queries of the stitcher and of the deletion do lag). With a lag of it a stitcher may see
  incomplete counters and consume the only stitch message; this is listed as a hazard without a property.
* The narrator of `Intake` does a chunk's narration in one step, and `Removal` has one chunk and no
  sweeper and no retry. What happens inside the narration is the subject of `Narration`.
* In the modules of the handlers text and audio are abstracted away: an extraction yields a number
  of chunks, and zero stands for a PDF the extractor rejects. `Cutting` and `Assembly` look at the
  two ends separately. `Assembly` and `Stitching` implement the same `Stitched`, but not each other: the rows that
  stand still in `Assembly` do not when a retry or a late chunk interferes, as described under the exceptions.
* `Assembly` adds durations exactly; the code adds floats, whose error over a book is far below the
  half millisecond that `TimelineExact` allows. Titles, languages, sample rates and the stored
  keys are left out.
* The time limit of Google's client is one of each socket operation; `Speaking` takes it as one of the
  call. A response that trickles in is not modelled, nor is the expiry of a signed URL.
* One book at a time: books share no row, object or message, and workers only their number. The chat's
  quota is shared by the books of a reader; a question about another book is one more turn.
* Layout analysis is geometry over a library's output and language detection a count of words;
  neither has a property that is not its own definition.
* Authentication, HTTP schemas and health are stateless; the deployment is declarative, and gives the
  models their numbers.
* The mobile app: hooks around an asynchronous player and a poller, with timers and callbacks of the
  platform. What the back end owes them (a key leads to its object, a status is final) is covered; the
  player's watchdog and its cache of marks are not.

## What could follow

1. The player and the poller of the mobile app, against the statuses of a book.
2. `Removal` with the sweeper and a retry.

## Running

    tlc -workers 2 -config MCFanIn.cfg MCFanIn        # likewise the other .cfg files
    tlapm SynthesisProofs.tla                         # likewise the other *Proofs modules
