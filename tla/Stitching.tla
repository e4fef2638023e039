------------------------------ MODULE Stitching ------------------------------
(***************************************************************************)
(* StitchBook: the handler of one stitch message.  It claims the book,     *)
(* reads the chunk rows once, concatenates the chunks that are DONE into   *)
(* book.mp3, writes the manifest, and moves the book to READY or PARTIAL.  *)
(* The claim lets a second stitcher in on purpose; the terminal update     *)
(* lets only one of them through.                                          *)
(***************************************************************************)
EXTENDS LibraryStore

CONSTANTS
  StitchWorkers,  \* concurrent invocations of the stitch handler
  Silent,         \* chunks whose audio has no frame left once its headers are stripped
  Lagging         \* chunks whose last update a query may not see yet

ASSUME SilentAssumption == Silent \subseteq Chunks /\ Lagging \subseteq Chunks

VARIABLES
  stitchPc,       \* what each invocation does next
  stitchAttempt,  \* receive count of the message it holds, 0 when idle
  sawFailures,    \* chunks_failed was not 0 when it read the book, before the claim
  plan,           \* what it is going to publish
  bookMp3,        \* the object book.mp3
  manifest,       \* the object manifest.json
  stitchDlq       \* how many stitch messages were dead-lettered

stitchVars == <<stitchPc, stitchAttempt, sawFailures, plan>>
outputVars == <<bookMp3, manifest>>
stitcherVars == <<stitchVars, outputVars, stitchDlq>>

StitchPcs == {"idle", "get", "claim", "list", "concat", "release",
              "putManifest", "finish", "ack"}

\* segments and missing partition the chunk rows; audio: book.mp3 is worth
\* advertising; degraded: concatenation was given up; manifestKey: the
\* manifest object was written.
Plans == [segments : SUBSET Chunks, missing : SUBSET Chunks,
          audio : BOOLEAN, degraded : BOOLEAN, manifestKey : BOOLEAN]
NoPlan == [segments |-> {}, missing |-> {}, audio |-> FALSE,
           degraded |-> FALSE, manifestKey |-> FALSE]

NoMp3 == [exists |-> FALSE, parts |-> {}]
NoManifest == [exists |-> FALSE, segments |-> {}, missing |-> {}, audio |-> FALSE, status |-> "none"]

StitchTypeOK ==
  /\ stitchPc \in [StitchWorkers -> StitchPcs]
  /\ stitchAttempt \in [StitchWorkers -> 0 .. StitchMaxReceive]
  /\ \A w \in StitchWorkers : stitchPc[w] # "idle" => stitchAttempt[w] > 0
  /\ sawFailures \in [StitchWorkers -> BOOLEAN]
  /\ plan \in [StitchWorkers -> Plans]
  /\ bookMp3 \in [exists : BOOLEAN, parts : SUBSET Chunks]
  /\ manifest \in [exists : BOOLEAN, segments : SUBSET Chunks, missing : SUBSET Chunks,
                   audio : BOOLEAN, status : {"none", "READY", "PARTIAL"}]
  /\ stitchDlq \in Nat

StitchInit ==
  /\ stitchPc = [w \in StitchWorkers |-> "idle"]
  /\ stitchAttempt = [w \in StitchWorkers |-> 0]
  /\ sawFailures = [w \in StitchWorkers |-> FALSE]
  /\ plan = [w \in StitchWorkers |-> NoPlan]
  /\ bookMp3 = NoMp3
  /\ manifest = NoManifest
  /\ stitchDlq = 0

-----------------------------------------------------------------------------
(* Helpers *)

StitchAt(w, here) == stitchPc[w] = here
StitchGoto(w, next) == stitchPc' = [stitchPc EXCEPT ![w] = next]

StitchStop(w) ==
  /\ stitchPc' = [stitchPc EXCEPT ![w] = "idle"]
  /\ stitchAttempt' = [stitchAttempt EXCEPT ![w] = 0]
  /\ sawFailures' = [sawFailures EXCEPT ![w] = FALSE]
  /\ plan' = [plan EXCEPT ![w] = NoPlan]

ReturnStitchMessage(attempt) ==
  IF attempt < StitchMaxReceive
  THEN stitchQueue' = [stitchQueue EXCEPT ![attempt] = @ + 1] /\ UNCHANGED stitchDlq
  ELSE stitchDlq' = stitchDlq + 1 /\ UNCHANGED stitchQueue

StitchRaise(w) == StitchStop(w) /\ ReturnStitchMessage(stitchAttempt[w])

\* Mutant: every row that has an outcome is taken for narrated.
ListedWithFailed(degraded, unseen) ==
  LET finished == {c \in Rows : chunk[c] \in {"DONE", "FAILED"}} \ unseen
  IN [NoPlan EXCEPT !.segments = finished, !.missing = Rows \ finished, !.degraded = degraded]

\* What the chunk rows say is to be narrated, and the rest.
Listed(degraded, unseen) ==
  LET done == {c \in Rows : chunk[c] = "DONE"} \ unseen
  IN [NoPlan EXCEPT !.segments = done, !.missing = Rows \ done, !.degraded = degraded]

\* Mutant: only the counter that was read before the claim is looked at.
FinalStatusByCounter(w) ==
  IF plan[w].degraded \/ plan[w].segments = {} \/ sawFailures[w] THEN "PARTIAL" ELSE "READY"

\* The status and the reason a plan ends in.
FinalStatus(w) ==
  IF plan[w].degraded \/ plan[w].segments = {} \/ plan[w].missing # {} \/ sawFailures[w]
  THEN "PARTIAL" ELSE "READY"

FinalReason(w) ==
  IF plan[w].degraded THEN "STITCH_FAILED"
  ELSE IF plan[w].segments = {} THEN "NO_AUDIO" ELSE "none"

\* The upload is completed: book.mp3 is the clips that have a frame.
JoinClips(w) == bookMp3' = [exists |-> TRUE, parts |-> plan[w].segments \ Silent]

\* The object that _finish writes.
ManifestOf(w) ==
  [exists |-> TRUE, segments |-> plan[w].segments, missing |-> plan[w].missing,
   audio |-> plan[w].audio, status |-> FinalStatus(w)]

-----------------------------------------------------------------------------
(* The handler *)

StitchReceive(w) ==
  \E r \in 0 .. StitchMaxReceive - 1 :
    /\ StitchAt(w, "idle")
    /\ stitchQueue[r] > 0
    /\ stitchQueue' = [stitchQueue EXCEPT ![r] = @ - 1]
    /\ stitchAttempt' = [stitchAttempt EXCEPT ![w] = r + 1]
    /\ StitchGoto(w, "get")
    /\ UNCHANGED <<tableVars, objectVars, synthQueue, synthDlq, envVars, sawFailures, plan, outputVars, stitchDlq>>

\* Consumed when the book is gone, finished, or not complete (DEFERRED).
StitchGet(w) ==
  /\ StitchAt(w, "get")
  /\ IF /\ book.status \notin TerminalBookStatuses \cup {Absent}
        /\ IsComplete(book.done, book.total)
     THEN /\ sawFailures' = [sawFailures EXCEPT ![w] = book.failed # 0]
          /\ StitchGoto(w, "claim")
     ELSE StitchGoto(w, "ack") /\ UNCHANGED sawFailures
  /\ UNCHANGED <<storeVars, stitchAttempt, plan, outputVars, stitchDlq>>

StitchClaim(w) ==
  /\ StitchAt(w, "claim")
  /\ IF book.status \in StitchableBookStatuses
     THEN book' = [book EXCEPT !.status = "STITCHING"] /\ StitchGoto(w, "list")
     ELSE UNCHANGED book /\ StitchGoto(w, "ack")
  /\ UNCHANGED <<chunk, objectVars, queueVars, envVars, stitchAttempt, sawFailures, plan, outputVars, stitchDlq>>

\* The query is eventually consistent: a chunk that has just become DONE may
\* still look unfinished.
StitchList(w) ==
  /\ StitchAt(w, "list")
  /\ \E unseen \in SUBSET Lagging : plan' = [plan EXCEPT ![w] = Listed(FALSE, unseen)]
  /\ StitchGoto(w, "concat")
  /\ UNCHANGED <<storeVars, stitchAttempt, sawFailures, outputVars, stitchDlq>>

\* Mutant: the manifest lists the chunks that were dropped too.
ConcatenateListingSilent(w) ==
  /\ StitchAt(w, "concat")
  /\ plan[w].segments \subseteq clips
  /\ LET heard == plan[w].segments \ Silent IN
       /\ plan' = [plan EXCEPT ![w].audio = heard # {}]
       /\ IF plan[w].segments = {} THEN UNCHANGED bookMp3 ELSE JoinClips(w)
  /\ StitchGoto(w, "putManifest")
  /\ UNCHANGED <<storeVars, stitchAttempt, sawFailures, manifest, stitchDlq>>

\* Every DONE chunk's object is read; the ones without a decodable frame are
\* dropped, the others become book.mp3 when the upload completes.
Concatenate(w) ==
  /\ StitchAt(w, "concat")
  /\ plan[w].segments \subseteq clips
  /\ LET heard == plan[w].segments \ Silent IN
       /\ plan' = [plan EXCEPT ![w].segments = heard,
                               ![w].missing = @ \cup (plan[w].segments \cap Silent),
                               ![w].audio = heard # {}]
       /\ IF plan[w].segments = {} THEN UNCHANGED bookMp3 ELSE JoinClips(w)
  /\ StitchGoto(w, "putManifest")
  /\ UNCHANGED <<storeVars, stitchAttempt, sawFailures, manifest, stitchDlq>>

\* Mutant: what was read before a read failed is completed instead of aborted.
ConcatenateFailsCompleting(w) ==
  /\ StitchAt(w, "concat")
  /\ \E read \in SUBSET (plan[w].segments \cap clips) :
       bookMp3' = [exists |-> TRUE, parts |-> read \ Silent]
  /\ IF stitchAttempt[w] < StitchMaxReceive
     THEN StitchGoto(w, "release") /\ UNCHANGED plan
     ELSE /\ plan' = [plan EXCEPT ![w].degraded = TRUE]
          /\ StitchGoto(w, "putManifest")
  /\ UNCHANGED <<storeVars, stitchAttempt, sawFailures, manifest, stitchDlq>>

\* A read or a call of the upload raises: retried by SQS, degraded on the last
\* attempt.  The upload is aborted and book.mp3 stays what it was, unless only
\* the response of the completion was lost.
ConcatenateFails(w) ==
  /\ StitchAt(w, "concat")
  /\ plan[w].segments # {}
  /\ \/ UNCHANGED bookMp3
     \/ plan[w].segments \subseteq clips /\ JoinClips(w)
  /\ IF stitchAttempt[w] < StitchMaxReceive
     THEN StitchGoto(w, "release") /\ UNCHANGED plan
     ELSE /\ plan' = [plan EXCEPT ![w].degraded = TRUE]
          /\ StitchGoto(w, "putManifest")
  /\ UNCHANGED <<storeVars, stitchAttempt, sawFailures, manifest, stitchDlq>>

StitchRelease(w) ==
  /\ StitchAt(w, "release")
  /\ book' = IF book.status = "STITCHING" THEN [book EXCEPT !.status = "EXTRACTED"] ELSE book
  /\ StitchRaise(w)
  /\ UNCHANGED <<chunk, objectVars, synthQueue, synthDlq, envVars, outputVars>>

PutManifest(w) ==
  /\ StitchAt(w, "putManifest")
  /\ manifest' = ManifestOf(w)
  /\ plan' = [plan EXCEPT ![w].manifestKey = TRUE]
  /\ StitchGoto(w, "finish")
  /\ UNCHANGED <<storeVars, stitchAttempt, sawFailures, bookMp3, stitchDlq>>

\* Mutant: a manifest that could not be written is advertised.
PutManifestFailsUnnoticed(w) ==
  /\ StitchAt(w, "putManifest")
  /\ plan' = [plan EXCEPT ![w].manifestKey = TRUE]
  /\ StitchGoto(w, "finish")
  /\ UNCHANGED <<storeVars, stitchAttempt, sawFailures, outputVars, stitchDlq>>

\* The call raises, whether or not the object was written.  Only a degraded
\* plan goes on without its manifest; any other one raises, on the last
\* attempt too, and keeps the claim.
PutManifestFails(w) ==
  /\ StitchAt(w, "putManifest")
  /\ manifest' \in {manifest, ManifestOf(w)}
  /\ IF plan[w].degraded
     THEN StitchGoto(w, "finish") /\ UNCHANGED <<stitchQueue, stitchDlq, stitchAttempt, sawFailures, plan>>
     ELSE StitchRaise(w)
  /\ UNCHANGED <<tableVars, objectVars, synthQueue, synthDlq, envVars, bookMp3>>

\* An output key that is None is not written, so an older one would stay.
StitchFinish(w) ==
  /\ StitchAt(w, "finish")
  /\ book' = IF book.status = "STITCHING"
             THEN [book EXCEPT !.status = FinalStatus(w),
                               !.audioKey = @ \/ plan[w].audio,
                               !.manifestKey = @ \/ plan[w].manifestKey,
                               !.reason = FinalReason(w)]
             ELSE book
  /\ StitchGoto(w, "ack")
  /\ UNCHANGED <<chunk, objectVars, queueVars, envVars, stitchAttempt, sawFailures, plan, outputVars, stitchDlq>>

StitchAck(w) ==
  /\ StitchAt(w, "ack")
  /\ StitchStop(w)
  /\ UNCHANGED <<storeVars, outputVars, stitchDlq>>

-----------------------------------------------------------------------------
(* The environment of the handler *)

StitchCrash(w) ==
  /\ ~StitchAt(w, "idle")
  /\ Crash(FALSE, FALSE)
  /\ StitchRaise(w)
  /\ UNCHANGED <<tableVars, objectVars, synthQueue, synthDlq, outputVars>>

StitchDuplicate(w) ==
  /\ ~StitchAt(w, "idle")
  /\ SpendDuplicate
  /\ ReturnStitchMessage(stitchAttempt[w])
  /\ UNCHANGED <<tableVars, objectVars, synthQueue, synthDlq, lostCount, stitchVars, outputVars>>

-----------------------------------------------------------------------------
StitchHandler(w) ==
  \/ StitchReceive(w) \/ StitchGet(w) \/ StitchClaim(w) \/ StitchList(w)
  \/ Concatenate(w) \/ ConcatenateFails(w) \/ StitchRelease(w)
  \/ PutManifest(w) \/ PutManifestFails(w) \/ StitchFinish(w) \/ StitchAck(w)

StitchEnvironment(w) == StitchCrash(w) \/ StitchDuplicate(w)

StitchNext == \E w \in StitchWorkers : StitchHandler(w) \/ StitchEnvironment(w)

StitchFairness ==
  \A w \in StitchWorkers : WF_<<storeVars, stitcherVars>>(StitchHandler(w))
=============================================================================
