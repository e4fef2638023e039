------------------------------ MODULE Narration ------------------------------
(***************************************************************************)
(* From an extracted book to a finished one: the synthesize and stitch     *)
(* handlers, the sweeper of the synthesize DLQ and the resynthesize call,  *)
(* each a set of concurrent invocations on the one book they share.        *)
(***************************************************************************)
EXTENDS Synthesis, Stitching, Sweeping, Resynthesis

vars == <<storeVars, synthVars, stitcherVars, sweepVars, retryVars>>

Init == StoreExtracted(MaxChunks) /\ SynthInit /\ StitchInit /\ SweepInit /\ RetryInit

Next ==
  \/ SynthNext  /\ UNCHANGED <<stitcherVars, sweepVars, retryVars>>
  \/ StitchNext /\ UNCHANGED <<synthVars, sweepVars, retryVars>>
  \/ SweepNext  /\ UNCHANGED <<synthVars, stitcherVars, retryVars>>
  \/ RetryNext  /\ UNCHANGED <<synthVars, stitcherVars, sweepVars>>

Spec == Init /\ [][Next]_vars

FairSpec == Spec /\ SynthFairness /\ StitchFairness /\ SweepFairness /\ RetryFairness

TypeOK == StoreTypeOK /\ SynthTypeOK /\ StitchTypeOK /\ SweepTypeOK /\ RetryTypeOK

-----------------------------------------------------------------------------
Done == {c \in Chunks : chunk[c] = "DONE"}

Promise == INSTANCE NarratedBook WITH
  Parts   <- Chunks,
  phase   <- CASE book.status \in {"EXTRACTED", "STITCHING"} -> "working"
               [] book.status = "READY"                      -> "ready"
               [] OTHER                                      -> "partial",
  told    <- Done,
  offered <- book.audioKey

\* Narration implements the promise of NarratedBook: a DONE chunk stays DONE,
\* READY is reached only with every chunk DONE and is never left, a book with
\* any other outcome becomes PARTIAL, and only a retry takes it up again, with
\* its audio withdrawn (stitching.py:313-385, resynthesis.py:91-131).
KeepsPromise == Promise!Spec

\* A key on the book row is never ahead of its object (stitching.py:23-25).
OutputsExist ==
  /\ book.audioKey => bookMp3.exists /\ bookMp3.parts # {}
  /\ book.manifestKey => manifest.exists

\* Every segment a manifest lists can be played on its own: its row is DONE and
\* both of its objects exist, whichever stitcher wrote the manifest
\* (stitching.py:168-170, 286-300).
ManifestIsPlayable ==
  \A c \in manifest.segments : chunk[c] = "DONE" /\ c \in clips /\ c \in markDocs

\* What a finished book offers fits together: the manifest describes the very
\* book.mp3 that the row advertises (stitching.py:12-14, 369-371).  It holds
\* when one stitcher runs at a time.
OutputsAgree ==
  book.status \in {"READY", "PARTIAL"} /\ book.audioKey /\ book.manifestKey =>
    manifest.audio /\ manifest.segments = bookMp3.parts

\* The stitcher, when there is one, as Stitched sees it.
StitchStage ==
  CASE \E w \in StitchWorkers : stitchPc[w] = "putManifest" -> "describing"
    [] \E w \in StitchWorkers : stitchPc[w] = "finish"      -> "finishing"
    [] OTHER                                                -> "joining"

StitchOffer ==
  LET p == IF StitchStage = "joining" THEN NoPlan ELSE plan[CHOOSE w \in StitchWorkers : TRUE]
  IN [segments |-> p.segments, missing |-> p.missing, audio |-> p.audio, degraded |-> p.degraded]

Document == [segments |-> manifest.segments, missing |-> manifest.missing, audio |-> manifest.audio]

OneByOne == INSTANCE Stitched WITH
  Parts <- Chunks, told <- Done, mute <- Silent,
  stage <- StitchStage, offer <- StitchOffer, mp3 <- bookMp3, document <- Document

\* One stitcher at a time keeps, whatever the synthesizers, the sweeper and the
\* retries do meanwhile, the promise that Assembly keeps call by call: book.mp3
\* and the manifest are made of one list of DONE chunks, the manifest last
\* (stitching.py:168-353).
StitchesAsPromised == OneByOne!Spec

Settled == book.status \in TerminalBookStatuses

\* A book is finished, and after a retry finished again, unless an invocation
\* died between a terminal chunk row and its increment, a stitch message used
\* up its receives, or anything at all failed and a retry was made
\* (resynthesis.py:118-131 publishes what it has rewound, or fails to).
SettlesDespiteFaults ==
  []<>(\/ Settled
       \/ lostCount # [done |-> 0, failed |-> 0]
       \/ stitchDlq > 0
       \/ retries > 0 /\ ~NoFaults)

-----------------------------------------------------------------------------
(* What the comments of the code say and the runs refute *)

\* resynthesis.py:16-21: after a retry everything runs "exactly as they do
\* after a first extraction", so the book is finished again.
RetrySettles == []<>(Settled \/ stitchDlq > 0)
=============================================================================
