----------------------------- MODULE ChatContext -----------------------------
(***************************************************************************)
(* What a question is put to the model with: a window of chunks around     *)
(* where the reader is, and the last turns of the conversation             *)
(* (resolve_context).  A text is its length, a message is a turn and a     *)
(* role; messages are ordered by the time and the id in their sort key.    *)
(***************************************************************************)
EXTENDS Integers, FiniteSets, SequencesExt, Sorting

CONSTANTS
  CONTEXT_NEIGHBOURS,  \* chunks taken on either side of the anchor
  MAX_CONTEXT_CHARS,   \* ceiling of the window's text
  MAX_HISTORY_PAIRS    \* turns of the conversation that are sent along

ASSUME ContextAssumption ==
  /\ CONTEXT_NEIGHBOURS \in Nat
  /\ MAX_CONTEXT_CHARS \in Nat \ {0}
  /\ MAX_HISTORY_PAIRS \in Nat \ {0}

Roles == {"user", "assistant"}

-----------------------------------------------------------------------------
(* The window *)

\* Mutant: an anchor beyond the end is taken as it comes.
ClampedBelow(anchor, n) == IF anchor < 0 THEN 0 ELSE anchor

Clamped(anchor, n) == IF anchor < 0 THEN 0 ELSE IF anchor >= n THEN n - 1 ELSE anchor

Apart(c, anchor) == IF c < anchor THEN anchor - c ELSE c - anchor

\* c goes before d: it is farther from the anchor, or as far and later.
DroppedBefore(c, d, anchor) ==
  \/ Apart(c, anchor) > Apart(d, anchor)
  \/ Apart(c, anchor) = Apart(d, anchor) /\ c > d

\* The window w once its k farthest chunks were dropped.
Kept(w, anchor, k) ==
  {c \in w : Cardinality({d \in w : DroppedBefore(d, c, anchor)}) >= k}

TextOf(w, lengths) == FoldSet(LAMBDA c, total : total + lengths[c], 0, w)

\* Chunks are dropped as long as the window is over the ceiling and more than
\* one is left.
Trimmed(w, anchor, lengths) ==
  LET enough == {k \in 0 .. Cardinality(w) :
                   \/ TextOf(Kept(w, anchor, k), lengths) <= MAX_CONTEXT_CHARS
                   \/ Cardinality(Kept(w, anchor, k)) <= 1}
  IN  Kept(w, anchor, CHOOSE k \in enough : \A j \in enough : k <= j)

\* The place of a chunk in the list, which is in the order of the indexes.
Position(c, rows) == Cardinality({d \in rows : d < c})

\* The window is cut out of the list by position; the rows of a book that is
\* being deleted may leave other chunks there than the positions say.
Window(rows, anchor, lengths) ==
  Trimmed({c \in rows : Apart(Position(c, rows), anchor) <= CONTEXT_NEIGHBOURS}, anchor, lengths)

-----------------------------------------------------------------------------
(* The conversation *)

\* Questions at the end that have no answer after them are dropped.
AnsweredPart(history) ==
  LET last == SelectLastInSubSeq(history, 1, Len(history), LAMBDA m : m.role = "assistant")
  IN  SubSeq(history, 1, last)

\* Answers at the start are dropped.
FromQuestion(history) ==
  LET first == SelectInSubSeq(history, 1, Len(history), LAMBDA m : m.role = "user")
  IN  IF first = 0 THEN <<>> ELSE SubSeq(history, first, Len(history))

\* The last pairs, which may begin with an answer again.
Prompt(history) ==
  LET whole == FromQuestion(AnsweredPart(history))
      from  == Len(whole) - 2 * MAX_HISTORY_PAIRS + 1
  IN  FromQuestion(SubSeq(whole, IF from < 1 THEN 1 ELSE from, Len(whole)))
=============================================================================
