--------------------------- MODULE ExtractSweeping ---------------------------
(***************************************************************************)
(* SweepDlq.sweep_extract: the Lambda fed by the extract DLQ.  A book that *)
(* is still UPLOADED or EXTRACTING when its dead-lettered S3 event is swept *)
(* becomes FAILED; any other book is left alone.                           *)
(***************************************************************************)
EXTENDS Extraction

CONSTANT ExtractSweepers   \* concurrent invocations of the sweeper

VARIABLES
  xsweepPc,       \* what each invocation does next
  failedLive,     \* history: a book was failed under a live extraction
  droppedFanOut   \* history: a swept event was the one of an EXTRACTED book

xsweepVars == <<xsweepPc, failedLive, droppedFanOut>>

XSweepPcs == {"idle", "get", "finalize", "ack"}

StrandedExtractStatuses == {"UPLOADED", "EXTRACTING"}

XSweepTypeOK ==
  /\ xsweepPc \in [ExtractSweepers -> XSweepPcs]
  /\ failedLive \in BOOLEAN
  /\ droppedFanOut \in BOOLEAN

XSweepInit ==
  /\ xsweepPc = [w \in ExtractSweepers |-> "idle"]
  /\ failedLive = FALSE
  /\ droppedFanOut = FALSE

-----------------------------------------------------------------------------
XSweepAt(w, here) == xsweepPc[w] = here
XSweepGoto(w, next) == xsweepPc' = [xsweepPc EXCEPT ![w] = next]

XSweepReceive(w) ==
  /\ XSweepAt(w, "idle")
  /\ extractDlq > 0
  /\ extractDlq' = extractDlq - 1
  /\ XSweepGoto(w, "get")
  /\ UNCHANGED <<storeVars, pdf, form, events, extractQueue, failedLive, droppedFanOut>>

XSweepGet(w) ==
  /\ XSweepAt(w, "get")
  /\ XSweepGoto(w, IF book.status \in StrandedExtractStatuses THEN "finalize" ELSE "ack")
  /\ droppedFanOut' = (droppedFanOut \/ book.status = "EXTRACTED")
  /\ UNCHANGED <<storeVars, uploadVars, failedLive>>

\* Mutant: the book that was read is failed, whatever it is by now.
XSweepFinalizeBlindly(w) ==
  /\ XSweepAt(w, "finalize")
  /\ book' = [book EXCEPT !.status = "FAILED", !.reason = "DLQ_EXHAUSTED"]
  /\ failedLive' = (failedLive \/ LiveExtractors # {})
  /\ XSweepGoto(w, "ack")
  /\ UNCHANGED <<chunk, objectVars, queueVars, envVars, uploadVars, droppedFanOut>>

\* The update looks at the status again, but not at who holds the claim.
XSweepFinalize(w) ==
  /\ XSweepAt(w, "finalize")
  /\ IF book.status \in StrandedExtractStatuses
     THEN /\ book' = [book EXCEPT !.status = "FAILED", !.reason = "DLQ_EXHAUSTED"]
          /\ failedLive' = (failedLive \/ LiveExtractors # {})
     ELSE UNCHANGED <<book, failedLive>>
  /\ XSweepGoto(w, "ack")
  /\ UNCHANGED <<chunk, objectVars, queueVars, envVars, uploadVars, droppedFanOut>>

XSweepAck(w) ==
  /\ XSweepAt(w, "ack")
  /\ XSweepGoto(w, "idle")
  /\ UNCHANGED <<storeVars, uploadVars, failedLive, droppedFanOut>>

XSweepCrash(w) ==
  /\ ~XSweepAt(w, "idle")
  /\ Crash(FALSE, FALSE)
  /\ XSweepGoto(w, "idle")
  /\ extractDlq' = extractDlq + 1
  /\ UNCHANGED <<tableVars, objectVars, queueVars, pdf, form, events, extractQueue, failedLive, droppedFanOut>>

-----------------------------------------------------------------------------
XSweepHandler(w) ==
  XSweepReceive(w) \/ XSweepGet(w) \/ XSweepFinalize(w) \/ XSweepAck(w)

XSweepNext == \E w \in ExtractSweepers : XSweepHandler(w) \/ XSweepCrash(w)

XSweepFairness ==
  \A w \in ExtractSweepers : WF_<<storeVars, uploadVars, xsweepVars>>(XSweepHandler(w))
=============================================================================
