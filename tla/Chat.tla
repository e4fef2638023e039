-------------------------------- MODULE Chat --------------------------------
(***************************************************************************)
(* Questions about ONE book by ONE reader: each question charges the daily *)
(* quota, reads the chunk rows and the transcript, streams an answer from  *)
(* the model to the client and stores the turn (AskBookQuestion and the    *)
(* streaming endpoint).  Questions run next to each other, to a request    *)
(* that clears the transcript (ClearBookChat) and to a deletion of the     *)
(* book.  Every call to the table or the model is a step of its own.       *)
(*                                                                         *)
(* A turn is the question that opened it; time is counted in the           *)
(* microseconds that matter to the order of messages.                      *)
(***************************************************************************)
EXTENDS ChatContext

CONSTANTS
  Turns,             \* numbers of the questions that are asked
  Past,              \* those asked and stored before
  NumChunks,         \* chunks of the book
  Lengths,           \* lengths a chunk's text may have
  Anchors,           \* positions of the reader that clients send
  DailyLimit,        \* settings.chat_daily_limit
  Times,             \* bound: what the clocks may show
  DayLength,         \* ticks of a day
  MaxDeltas,         \* bound: pieces of text of one answer
  MaxCrashes         \* bound: invocations that die

\* The questions a day can be charged with: the first one is, whatever the
\* limit, because the condition of the update holds of a count that is absent.
Chargeable == IF DailyLimit = 0 THEN 1 ELSE DailyLimit

ASSUME ChatAssumption ==
  /\ IsFiniteSet(Turns) /\ Turns \subseteq Nat /\ Past \subseteq Turns
  /\ NumChunks \in Nat \ {0}
  /\ Lengths \subseteq Nat
  /\ Anchors \subseteq Int
  /\ DailyLimit \in Nat /\ Cardinality(Past) <= Chargeable
  /\ DayLength \in Nat \ {0}
  /\ Times \subseteq Nat
  /\ MaxDeltas \in Nat
  /\ MaxCrashes \in Nat

Chunks   == 0 .. NumChunks - 1
Day(t)   == t \div DayLength
Days     == {Day(t) : t \in Times \cup {0}}
Messages == [turn : Turns, role : Roles]

\* _MAX_ATTEMPTS of the model adapter.
MaxRequests == 2

AskPcs == {"new", "charge", "chunks", "history", "open", "stream", "save", "done", "over"}

VARIABLES
  bookRow,     \* "noText" before extraction, "text", or "gone"
  quota,       \* day |-> questions charged
  transcript,  \* messages stored
  askPc,       \* what each question does next
  asked,       \* turn |-> [at, id]: its time, and what its ids order by
  context,     \* turn |-> [anchor, rows, lengths, window, anchored, prompt], while needed
  requests,    \* turn |-> requests sent to the model
  shown,       \* turn |-> pieces of text the client has received
  told,        \* turns whose client has received the done frame
  clearPc,     \* "idle" or "delete"
  toDelete,    \* messages the clear has still to delete
  wiped,       \* history: messages the clear deleted
  crashes      \* invocations that died

storedVars == <<quota, transcript>>
turnVars   == <<asked, context, requests, shown, told>>
clearVars  == <<clearPc, toDelete, wiped>>
vars == <<bookRow, storedVars, askPc, turnVars, clearVars, crashes>>

TypeOK ==
  /\ bookRow \in {"noText", "text", "gone"}
  /\ quota \in [Days -> Nat]
  /\ transcript \subseteq Messages
  /\ askPc \in [Turns -> AskPcs]
  /\ asked \in [Turns -> [at : Times \cup {0}, id : 0 .. 1]]
  /\ requests \in [Turns -> 0 .. MaxRequests]
  /\ shown \in [Turns -> 0 .. MaxDeltas]
  /\ told \subseteq Turns
  /\ crashes \in 0 .. MaxCrashes

NotAsked  == [at |-> 0, id |-> 0]
NoContext == [anchor |-> 0, rows |-> {}, lengths |-> [c \in Chunks |-> 0], window |-> {},
              anchored |-> TRUE, prompt |-> <<>>]

Init ==
  /\ bookRow = "noText"
  /\ quota = [d \in Days |-> IF d = 0 THEN Cardinality(Past) ELSE 0]
  /\ transcript = [turn : Past, role : Roles]
  /\ askPc = [t \in Turns |-> IF t \in Past THEN "over" ELSE "new"]
  /\ asked = [t \in Turns |-> IF t \in Past THEN [at |-> 0, id |-> 1] ELSE NotAsked]
  /\ context = [t \in Turns |-> NoContext]
  /\ requests = [t \in Turns |-> IF t \in Past THEN 1 ELSE 0]
  /\ shown = [t \in Turns |-> 0]
  /\ told = {}
  /\ clearPc = "idle" /\ toDelete = {} /\ wiped = {}
  /\ crashes = 0

-----------------------------------------------------------------------------
(* The table *)

At(t, here) == askPc[t] = here
Goto(t, next) == askPc' = [askPc EXCEPT ![t] = next]

\* Mutant: both messages of a turn are dated alike.
SameStamp(m) == asked[m.turn].at

\* created_at: the answer is dated one microsecond after its question.
Stamp(m) == asked[m.turn].at + (IF m.role = "assistant" THEN 1 ELSE 0)

\* The id of a message is random: either message of a turn may have the smaller.
IdOf(m) == IF m.role = "user" THEN asked[m.turn].id ELSE 1 - asked[m.turn].id

\* The order of the sort keys CHAT#<created_at>#<message id>.
Earlier(m, n) ==
  \/ Stamp(m) < Stamp(n)
  \/ Stamp(m) = Stamp(n) /\ IdOf(m) < IdOf(n)
  \/ Stamp(m) = Stamp(n) /\ IdOf(m) = IdOf(n) /\ m.turn < n.turn

\* list_messages: chronological, by a consistent read.
ListMessages == InOrder(transcript, Earlier)

TurnMessages(t) == {[turn |-> t, role |-> r] : r \in Roles}

\* chat_availability, for a book that is there.
Available == bookRow = "text"

-----------------------------------------------------------------------------
(* A question *)

\* The book is loaded and the time is taken, by the clock of the invocation.
Ask(t) ==
  /\ At(t, "new")
  /\ IF Available
     THEN /\ \E now \in Times : asked' = [asked EXCEPT ![t].at = now]
          /\ Goto(t, "charge")
     ELSE UNCHANGED asked /\ Goto(t, "over")
  /\ UNCHANGED <<bookRow, storedVars, context, requests, shown, told, clearVars, crashes>>

\* The request is turned down and leaves nothing behind.
Forget(t) == Goto(t, "over") /\ asked' = [asked EXCEPT ![t] = NotAsked]

\* Mutant: the count may pass the limit by one.
RoomLeftOnce(count) == count <= DailyLimit

\* attribute_not_exists(#c) OR #c < :limit: a day without a row counts 0.
RoomLeft(count) == count = 0 \/ count < DailyLimit

\* increment_and_check: one conditional update, of the day of the question.
Charge(t) ==
  /\ At(t, "charge")
  /\ LET d == Day(asked[t].at) IN
     IF RoomLeft(quota[d])
     THEN quota' = [quota EXCEPT ![d] = @ + 1] /\ Goto(t, "chunks") /\ UNCHANGED asked
     ELSE Forget(t) /\ UNCHANGED quota
  /\ UNCHANGED <<bookRow, transcript, context, requests, shown, told, clearVars, crashes>>

\* The chunk rows a read finds: DeleteBook takes them one by one, the first
\* ones first, after the row of the book.
RowsLeft == IF bookRow = "gone" THEN {n .. NumChunks - 1 : n \in 0 .. NumChunks} ELSE {Chunks}

\* list_for_book, and the window around the anchor.  No row at all is an
\* error of the server, after the question was charged.
ReadChunks(t) ==
  /\ At(t, "chunks")
  /\ \E rows \in RowsLeft :
       IF rows = {}
       THEN Forget(t) /\ UNCHANGED context
       ELSE /\ \E sent \in Anchors, lengths \in [Chunks -> Lengths] :
                 LET anchor == Clamped(sent, Cardinality(rows)) IN
                 context' = [context EXCEPT ![t] =
                   [NoContext EXCEPT !.anchor = anchor, !.rows = rows, !.lengths = lengths,
                                     !.window = Window(rows, anchor, lengths)]]
            /\ Goto(t, "history")
            /\ UNCHANGED asked
  /\ UNCHANGED <<bookRow, storedVars, requests, shown, told, clearVars, crashes>>

\* list_messages and the rest of resolve_context.  Of the window only this
\* matters from here on: whether the anchor is in it.
ReadHistory(t) ==
  /\ At(t, "history")
  /\ context' = [context EXCEPT ![t] =
       [NoContext EXCEPT !.anchored = context[t].anchor \in context[t].window,
                         !.prompt = Prompt(ListMessages)]]
  /\ Goto(t, "open")
  /\ UNCHANGED <<bookRow, storedVars, asked, requests, shown, told, clearVars, crashes>>

\* From here on the context is not needed any more.
LeaveOpen(t, next) == Goto(t, next) /\ context' = [context EXCEPT ![t] = NoContext]

\* No model is configured: the stub sends nothing out.  It may quote the
\* anchor, which the window may not have; then the answer is empty.
OpenStub(t) ==
  /\ At(t, "open")
  /\ \/ LeaveOpen(t, "stream")
     \/ ~context[t].anchored /\ LeaveOpen(t, "save")
  /\ UNCHANGED <<bookRow, storedVars, asked, requests, shown, told, clearVars, crashes>>

\* A request is accepted, turned down for now (429, 5xx), or fails for good.
Open(t) ==
  /\ At(t, "open")
  /\ requests[t] < MaxRequests
  /\ requests' = [requests EXCEPT ![t] = @ + 1]
  /\ \/ LeaveOpen(t, "stream")
     \/ requests'[t] < MaxRequests /\ UNCHANGED <<askPc, context>>
     \/ LeaveOpen(t, "save")
  /\ UNCHANGED <<bookRow, storedVars, asked, shown, told, clearVars, crashes>>

Delta(t) ==
  /\ At(t, "stream")
  /\ shown[t] < MaxDeltas
  /\ shown' = [shown EXCEPT ![t] = @ + 1]
  /\ UNCHANGED <<bookRow, storedVars, askPc, asked, context, requests, told, clearVars, crashes>>

\* Mutant: a connection that drops is opened again.
StreamEndsOrReopens(t) ==
  /\ At(t, "stream")
  /\ \E next \in {"save", "open"} : Goto(t, next)
  /\ UNCHANGED <<bookRow, storedVars, turnVars, clearVars, crashes>>

\* The answer is complete, breaks off, or its connection drops: no second
\* request in any case.  The ids the messages got are random.
StreamEnds(t) ==
  /\ At(t, "stream")
  /\ IF shown[t] = 0
     THEN UNCHANGED asked
     ELSE \E id \in 0 .. 1 : asked' = [asked EXCEPT ![t].id = id]
  /\ Goto(t, "save")
  /\ UNCHANGED <<bookRow, storedVars, context, requests, shown, told, clearVars, crashes>>

\* Mutant: the done frame does not wait for the answer to be stored too.
SaveQuestion(t) ==
  /\ At(t, "save")
  /\ transcript' = transcript \cup {[turn |-> t, role |-> "user"]}
  /\ Goto(t, "done")
  /\ UNCHANGED <<bookRow, quota, turnVars, clearVars, crashes>>

\* save_turn puts the two messages one by one, in any order.  An answer
\* without text is not stored, nor is its question.
Save(t) ==
  /\ At(t, "save")
  /\ LET missing == IF shown[t] = 0 THEN {} ELSE TurnMessages(t) \ (transcript \cup wiped) IN
     IF missing = {}
     THEN UNCHANGED transcript /\ Goto(t, "done")
     ELSE \E m \in missing : transcript' = transcript \cup {m} /\ UNCHANGED askPc
  /\ UNCHANGED <<bookRow, quota, turnVars, clearVars, crashes>>

\* The done frame is the last thing the client sees.
Done(t) ==
  /\ At(t, "done")
  /\ told' = told \cup {t}
  /\ Goto(t, "over")
  /\ UNCHANGED <<bookRow, storedVars, asked, context, requests, shown, clearVars, crashes>>

\* The Lambda dies, a call to the table raises, or the client leaves and the
\* generator is never closed.
AskCrash(t) ==
  /\ ~At(t, "new") /\ ~At(t, "over")
  /\ crashes < MaxCrashes
  /\ crashes' = crashes + 1
  /\ LeaveOpen(t, "over")
  /\ UNCHANGED <<bookRow, storedVars, asked, requests, shown, told, clearVars>>

-----------------------------------------------------------------------------
(* Clearing the transcript *)

\* The book is loaded, whether it has a text or not, and its messages listed.
ClearBegin ==
  /\ clearPc = "idle"
  /\ bookRow # "gone"
  /\ toDelete' = transcript
  /\ clearPc' = "delete"
  /\ UNCHANGED <<bookRow, storedVars, askPc, turnVars, wiped, crashes>>

ClearDelete(m) ==
  /\ m \in toDelete
  /\ toDelete' = toDelete \ {m}
  /\ transcript' = transcript \ {m}
  /\ wiped' = wiped \cup {m}
  /\ UNCHANGED <<bookRow, quota, askPc, turnVars, clearPc, crashes>>

-----------------------------------------------------------------------------
(* The environment *)

\* The book is extracted, and deleted at some time after.
BookChanges ==
  /\ \/ bookRow = "noText" /\ bookRow' = "text"
     \/ bookRow = "text" /\ bookRow' = "gone"
  /\ UNCHANGED <<storedVars, askPc, turnVars, clearVars, crashes>>

-----------------------------------------------------------------------------
Question(t) ==
  \/ Ask(t) \/ Charge(t) \/ ReadChunks(t) \/ ReadHistory(t)
  \/ OpenStub(t) \/ Open(t) \/ Delta(t) \/ StreamEnds(t)
  \/ Save(t) \/ Done(t) \/ AskCrash(t)

Clear == ClearBegin \/ \E m \in Messages : ClearDelete(m)

Next == (\E t \in Turns : Question(t)) \/ Clear \/ BookChanges

Spec == Init /\ [][Next]_vars

-----------------------------------------------------------------------------
(* Properties *)

\* The daily limit holds for what the deployment pays for: whatever questions
\* run at once, a request to the model is covered by a charge to the day its
\* turn is dated, and no day is charged beyond the limit.  (A limit of 0 lets
\* the first question of each day through.)
PaidFor ==
  \A d \in Days :
    /\ quota[d] <= Chargeable
    /\ Cardinality({t \in Turns : requests[t] > 0 /\ Day(asked[t].at) = d}) <= quota[d]

\* Text the reader has seen is never started over: once a piece was shown no
\* further request is made for the turn (module docstring of the adapter).
NoReplay == [][\A t \in Turns : shown[t] > 0 => requests'[t] = requests[t]]_vars

\* What the model is told of the conversation begins with a question and ends
\* with an answer.  When no turn is half stored or half cleared and no two
\* were asked within a microsecond, it is the last turns, whole and in order:
\* the random ids never swap an answer with its question.
WholeTurns == \A m \in transcript : TurnMessages(m.turn) \subseteq transcript
AskedApart ==
  \A m, n \in transcript : m.turn # n.turn => Apart(asked[m.turn].at, asked[n.turn].at) > 1
Follows(m, n) ==
  asked[m.turn].at < asked[n.turn].at \/ (m.turn = n.turn /\ m.role = "user" /\ n.role = "assistant")
LastTurns ==
  LET stored == {m.turn : m \in transcript}
      recent == {t \in stored : Cardinality({s \in stored : asked[s].at > asked[t].at}) < MAX_HISTORY_PAIRS}
  IN  InOrder([turn : recent, role : Roles], Follows)
PromptIsTurns ==
  [][\A t \in Turns : askPc[t] = "history" /\ askPc'[t] = "open" =>
       /\ context'[t].prompt # <<>> => Head(context'[t].prompt).role = "user" /\ Last(context'[t].prompt).role = "assistant"
       /\ WholeTurns /\ AskedApart => context'[t].prompt = LastTurns]_vars

\* A client that was told the answer is done finds it in the transcript,
\* question and answer, unless a clear has deleted them since.
DoneMeansSaved ==
  \A t \in told : shown[t] > 0 => TurnMessages(t) \subseteq transcript \cup wiped

\* As long as the rows of the book are all there, the window is a run of
\* chunks around the anchor, within the ceiling unless the anchor alone is
\* over it, and no chunk was dropped that had room.
WindowFits ==
  \A t \in Turns : context[t].rows = Chunks =>
    LET w == context[t].window
        a == context[t].anchor
        near == {c \in Chunks : Apart(c, a) <= CONTEXT_NEIGHBOURS}
    IN /\ a \in w /\ w \subseteq near
       /\ \A c \in w : \A d \in Chunks : (c < d /\ d < a) \/ (a < d /\ d < c) => d \in w
       /\ TextOf(w, context[t].lengths) <= MAX_CONTEXT_CHARS \/ w = {a}
       /\ \A c \in near \ w :
            (\A d \in near \ w : d = c \/ DroppedBefore(d, c, a))
              => TextOf(w \cup {c}, context[t].lengths) > MAX_CONTEXT_CHARS
=============================================================================
