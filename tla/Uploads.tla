------------------------------- MODULE Uploads -------------------------------
(***************************************************************************)
(* How a PDF gets in: the upload form that RequestBookUpload returns with  *)
(* the new book row and ReissueBookUpload hands out again, the browser's   *)
(* upload with it, and the S3 event that each upload puts in the extract   *)
(* queue, at least once.  A form can be used until it expires, whatever    *)
(* the book does.                                                          *)
(***************************************************************************)
EXTENDS LibraryStore

CONSTANTS
  ExtractMaxReceive,  \* receives of an S3 event before it moves to its DLQ
  MaxEvents           \* bound: how many S3 events there are in all

ASSUME UploadAssumption == ExtractMaxReceive \in Nat \ {0} /\ MaxEvents \in Nat

VARIABLES
  pdf,           \* how many chunks the stored PDF yields, NoPdf when there is none
  form,          \* a client holds an upload form that has not expired
  events,        \* S3 events so far
  extractQueue,  \* receives |-> how many S3 events are waiting
  extractDlq     \* how many S3 events were dead-lettered

uploadVars == <<pdf, form, events, extractQueue, extractDlq>>

\* A PDF that yields 0 chunks stands for every one the extractor rejects.
NoPdf == -1
Pdfs == 0 .. MaxChunks

ReissuableStatuses == {"UPLOADED", "FAILED"}

UploadTypeOK ==
  /\ pdf \in Pdfs \cup {NoPdf}
  /\ form \in BOOLEAN
  /\ events \in 0 .. MaxEvents
  /\ extractQueue \in [0 .. ExtractMaxReceive - 1 -> Nat]
  /\ extractDlq \in Nat

\* RequestBookUpload: the row and the form come in one call.
UploadInit ==
  /\ pdf = NoPdf
  /\ form = TRUE
  /\ events = 0
  /\ extractQueue = [r \in 0 .. ExtractMaxReceive - 1 |-> 0]
  /\ extractDlq = 0

-----------------------------------------------------------------------------
\* Any other status answers 409.
ReissueBookUpload ==
  /\ ~form
  /\ book.status \in ReissuableStatuses
  /\ form' = TRUE
  /\ UNCHANGED <<storeVars, pdf, events, extractQueue, extractDlq>>

FormExpires ==
  /\ form
  /\ form' = FALSE
  /\ UNCHANGED <<storeVars, pdf, events, extractQueue, extractDlq>>

UploadPdf ==
  /\ form
  /\ events < MaxEvents
  /\ events' = events + 1
  /\ pdf' \in Pdfs
  /\ extractQueue' = [extractQueue EXCEPT ![0] = @ + 1]
  /\ UNCHANGED <<storeVars, form, extractDlq>>

\* S3 or SQS delivers the event of an upload once more.
RepeatEvent ==
  /\ pdf # NoPdf
  /\ events < MaxEvents
  /\ events' = events + 1
  /\ extractQueue' = [extractQueue EXCEPT ![0] = @ + 1]
  /\ UNCHANGED <<storeVars, pdf, form, extractDlq>>

\* An event that is not deleted is visible again, or dead-lettered when it has
\* used up its receives.
ReturnExtractMessage(attempt) ==
  IF attempt < ExtractMaxReceive
  THEN extractQueue' = [extractQueue EXCEPT ![attempt] = @ + 1] /\ UNCHANGED extractDlq
  ELSE extractDlq' = extractDlq + 1 /\ UNCHANGED extractQueue

UploadNext == ReissueBookUpload \/ FormExpires \/ UploadPdf \/ RepeatEvent
=============================================================================
