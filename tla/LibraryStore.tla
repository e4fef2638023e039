---------------------------- MODULE LibraryStore ----------------------------
(***************************************************************************)
(* What the workers of the book pipeline share for ONE book: the book row  *)
(* and the chunk rows of the DynamoDB table, the per-chunk objects in S3,  *)
(* and the synthesize and stitch SQS queues with the synthesize DLQ.       *)
(*                                                                         *)
(* A row is read by one `get` and changed by one conditional `update`;     *)
(* each is atomic, and nothing is atomic across two of them.  A queue is a *)
(* standard SQS queue: no order, at-least-once, a receive count on every   *)
(* message.  The component modules extend this one with the handlers.      *)
(***************************************************************************)
EXTENDS Integers, FiniteSets

CONSTANTS
  MaxChunks,        \* the most chunks a book is cut into
  SynthMaxReceive,  \* receives of a chunk message before it moves to the DLQ
  StitchMaxReceive, \* receives of a stitch message before it moves to its DLQ
  MaxCrashes,       \* bound: invocations that die or lose a DynamoDB call
  MaxDuplicates,    \* bound: messages SQS delivers once more on its own
  MaxSendFailures   \* bound: sends to a queue that raise

ASSUME StoreAssumption ==
  /\ MaxChunks \in Nat \ {0}
  /\ SynthMaxReceive \in Nat \ {0}
  /\ StitchMaxReceive \in Nat \ {0}
  /\ MaxCrashes \in Nat
  /\ MaxDuplicates \in Nat
  /\ MaxSendFailures \in Nat

Chunks == 0 .. MaxChunks - 1

BookStatus == {"UPLOADED", "EXTRACTING", "EXTRACTED", "STITCHING",
               "READY", "PARTIAL", "FAILED"}
ChunkStatus == {"PENDING", "SYNTHESIZING", "DONE", "FAILED"}

\* No row under the key: never written, or deleted.
Absent == "ABSENT"

\* Statuses the claim and the terminal updates of a chunk accept.
NonTerminalChunkStatuses == {"PENDING", "SYNTHESIZING", "FAILED"}

\* Mutant: a stitcher that died keeps the book.
ExclusiveStitchStatuses == {"EXTRACTED"}

\* Statuses the claim of a book accepts; STITCHING is one of them.
StitchableBookStatuses == {"EXTRACTED", "STITCHING"}

TerminalBookStatuses == {"READY", "PARTIAL", "FAILED"}

\* Why a book is FAILED or PARTIAL; the extractor's own reasons are one value.
FailureReasons == {"none", "EXTRACTION", "DLQ_EXHAUSTED", "NO_AUDIO", "STITCH_FAILED"}

BookRows == [status      : BookStatus \cup {Absent},
             total       : 0 .. MaxChunks,
             done        : Nat,
             failed      : Nat,
             audioKey    : BOOLEAN,
             manifestKey : BOOLEAN,
             reason      : FailureReasons]

\* A chunk message that has been received r times is the pair <<c, r>>.
SynthBodies == Chunks \X (0 .. SynthMaxReceive - 1)

VARIABLES
  book,         \* the book row
  chunk,        \* chunk |-> status of its row; a DONE row carries both keys
  clips,        \* chunks whose MP3 object is in the audio bucket
  markDocs,     \* chunks whose marks document is in the marks bucket
  synthQueue,   \* body |-> how many copies are waiting
  synthDlq,     \* chunk |-> how many of its messages were dead-lettered
  stitchQueue,  \* receives |-> how many stitch messages are waiting
  faults,       \* faults the environment has used up so far
  lostCount     \* history: increments that died with their invocation

tableVars  == <<book, chunk>>
objectVars == <<clips, markDocs>>
queueVars  == <<synthQueue, synthDlq, stitchQueue>>
envVars    == <<faults, lostCount>>
storeVars  == <<tableVars, objectVars, queueVars, envVars>>

StoreTypeOK ==
  /\ book \in BookRows
  /\ chunk \in [Chunks -> ChunkStatus \cup {Absent}]
  /\ clips \subseteq Chunks
  /\ markDocs \subseteq Chunks
  /\ synthQueue \in [SynthBodies -> Nat]
  /\ synthDlq \in [Chunks -> Nat]
  /\ stitchQueue \in [0 .. StitchMaxReceive - 1 -> Nat]
  /\ faults \in [crash : 0 .. MaxCrashes, dup : 0 .. MaxDuplicates, send : 0 .. MaxSendFailures]
  /\ lostCount \in [done : Nat, failed : Nat]

-----------------------------------------------------------------------------
(* The book and chunk repositories *)

Rows == {c \in Chunks : chunk[c] # Absent}

\* ChunkCounters.is_complete
IsComplete(done, total) == total > 0 /\ done >= total

\* A fresh book row, and the row right after the EXTRACTED flip.
NewBook == [status |-> "UPLOADED", total |-> 0, done |-> 0, failed |-> 0,
            audioKey |-> FALSE, manifestKey |-> FALSE, reason |-> "none"]
ExtractedBook(n) == [NewBook EXCEPT !.status = "EXTRACTED", !.total = n]

-----------------------------------------------------------------------------
(* The queues *)

\* The synthesize queue once a batch for the chunks of `cs` was accepted.
WithChunkMessages(q, cs) ==
  [b \in SynthBodies |-> IF b[1] \in cs /\ b[2] = 0 THEN q[b] + 1 ELSE q[b]]

\* A message that is not deleted is visible again, or dead-lettered when it
\* has used up its receives.
ReturnChunkMessage(c, attempt) ==
  IF attempt < SynthMaxReceive
  THEN /\ synthQueue' = [synthQueue EXCEPT ![<<c, attempt>>] = @ + 1]
       /\ UNCHANGED synthDlq
  ELSE /\ synthDlq' = [synthDlq EXCEPT ![c] = @ + 1]
       /\ UNCHANGED synthQueue

SendStitch == stitchQueue' = [stitchQueue EXCEPT ![0] = @ + 1]

-----------------------------------------------------------------------------
(* The faults of the environment *)

SpendCrash     == faults.crash < MaxCrashes     /\ faults' = [faults EXCEPT !.crash = @ + 1]
SpendDuplicate == faults.dup < MaxDuplicates    /\ faults' = [faults EXCEPT !.dup = @ + 1]
SpendSend      == faults.send < MaxSendFailures /\ faults' = [faults EXCEPT !.send = @ + 1]

\* A crash that may take a pending increment of a DONE or FAILED chunk with it.
Crash(pendingDone, pendingFailed) ==
  /\ SpendCrash
  /\ lostCount' = [done   |-> lostCount.done + (IF pendingDone THEN 1 ELSE 0),
                   failed |-> lostCount.failed + (IF pendingFailed THEN 1 ELSE 0)]

NoFaults == faults = [crash |-> 0, dup |-> 0, send |-> 0]

\* The store just after an extraction that cut the book into n chunks.
StoreExtracted(n) ==
  /\ book = ExtractedBook(n)
  /\ chunk = [c \in Chunks |-> IF c < n THEN "PENDING" ELSE Absent]
  /\ clips = {}
  /\ markDocs = {}
  /\ synthQueue = WithChunkMessages([b \in SynthBodies |-> 0], 0 .. n - 1)
  /\ synthDlq = [c \in Chunks |-> 0]
  /\ stitchQueue = [r \in 0 .. StitchMaxReceive - 1 |-> 0]
  /\ NoFaults
  /\ lostCount = [done |-> 0, failed |-> 0]
=============================================================================
