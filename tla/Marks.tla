-------------------------------- MODULE Marks --------------------------------
(***************************************************************************)
(* Which words of a chunk are heard when: the engines' reports laid over   *)
(* the text that was spoken.  A text is a sequence of letters and spaces;  *)
(* an offset counts the letters before a place, and a span <<s, e>> goes   *)
(* from one offset to another.                                             *)
(***************************************************************************)
EXTENDS Integers, FiniteSetsExt, SequencesExt, Sorting

CONSTANT Lookahead  \* how far ahead a word is still looked for

ASSUME LookaheadAssumption == Lookahead \in Nat

Space == " "

Within(text, s, e) == SubSeq(text, s + 1, e)

-----------------------------------------------------------------------------
(* Words *)

IsWord(text, s, e) ==
  /\ s < e
  /\ \A i \in (s + 1) .. e : text[i] # Space
  /\ s > 0 => text[s] = Space
  /\ e < Len(text) => text[e + 1] = Space

\* The longest runs without a space, in the order of the text.
IterWords(text) ==
  InOrder({w \in (0 .. Len(text)) \X (0 .. Len(text)) : IsWord(text, w[1], w[2])},
          LAMBDA v, w : v[1] < w[1])

WordsOf(text) == [i \in DOMAIN IterWords(text) |->
                    Within(text, IterWords(text)[i][1], IterWords(text)[i][2])]

-----------------------------------------------------------------------------
(* Measured marks: the engine says which word, not where *)

Hits(text, word, cursor) ==
  {p \in cursor .. (Len(text) - Len(word)) : Within(text, p, p + Len(word)) = word}

\* The word is where it next occurs, if that is near; else it is put at the
\* cursor, and the cursor moves on by its length all the same.
PlaceOf(text, word, cursor) ==
  LET hits == Hits(text, word, cursor)
  IN  IF word # <<>> /\ hits # {} /\ Min(hits) - cursor <= Lookahead THEN Min(hits) ELSE cursor

Align(text, aligned, word) ==
  LET place == PlaceOf(text, word, aligned.cursor)
  IN  [cursor |-> place + Len(word),
       spans  |-> Append(aligned.spans, <<place, place + Len(word)>>)]

AlignWords(text, words) ==
  FoldLeft(LAMBDA aligned, word : Align(text, aligned, word),
           [cursor |-> 0, spans |-> <<>>], words).spans

\* words: what the engine heard, each with the time it began and how long it
\* lasted.
MeasuredMarks(text, words) ==
  LET spans == AlignWords(text, [i \in DOMAIN words |-> words[i].word])
  IN  [i \in DOMAIN words |->
         [t |-> words[i].t, d |-> words[i].d, s |-> spans[i][1], e |-> spans[i][2]]]

-----------------------------------------------------------------------------
(* Estimated marks: the engine says when a sentence begins *)

\* An anchor is an offset and its time.  timepoints has at most one for every
\* sentence; those that go back in time are dropped, and fewer than two say
\* nothing.
Monotonic(timepoints) ==
  FoldLeft(LAMBDA kept, anchor :
             IF kept # <<>> /\ (anchor[1] <= Last(kept)[1] \/ anchor[2] < Last(kept)[2])
             THEN kept ELSE Append(kept, anchor),
           <<>>, InOrder(timepoints, LAMBDA a, b : a[1] < b[1]))

WholeChunk(text, duration) == <<<<0, 0>>, <<Len(text), duration>>>>

AnchorsFromTimepoints(text, timepoints, duration) ==
  LET kept  == Monotonic(timepoints)
      start == IF kept[1][1] # 0 THEN <<<<0, 0>>>> ELSE <<>>
      end   == IF Last(kept)[1] # Len(text) THEN <<<<Len(text), duration>>>> ELSE <<>>
  IN  IF Len(kept) < 2 THEN WholeChunk(text, duration) ELSE start \o kept \o end

\* Nearest integer to n / d, a half to the even one.
Nearest(n, d) ==
  LET down == n \div d
      rest == 2 * (n % d)
  IN  IF rest > d \/ (rest = d /\ down % 2 = 1) THEN down + 1 ELSE down

\* Mutant: the time of the anchor before, not interpolated.
TimeAtAnchor(anchors, offset) ==
  LET passed == {i \in 1 .. (Len(anchors) - 1) : anchors[i][1] <= offset}
  IN  anchors[IF passed = {} THEN 1 ELSE Max(passed)][2] + offset

\* Interpolated between the last anchor that is passed and the next.
TimeAt(anchors, offset) ==
  LET passed == {i \in 1 .. (Len(anchors) - 1) : anchors[i][1] <= offset}
      lo     == IF passed = {} THEN 1 ELSE Max(passed)
      wide   == anchors[lo + 1][1] - anchors[lo][1]
      past   == IF offset < anchors[lo][1] THEN 0 ELSE Min({offset - anchors[lo][1], wide})
  IN  Max({0, Nearest(anchors[lo][2] * wide + past * (anchors[lo + 1][2] - anchors[lo][2]), wide)})

EstimateWordMarks(text, anchors) ==
  LET words == IterWords(text)
  IN  [i \in DOMAIN words |->
         LET t == TimeAt(anchors, words[i][1])
         IN  [t |-> t, d |-> Max({t, TimeAt(anchors, words[i][2])}) - t,
              s |-> words[i][1], e |-> words[i][2]]]

-----------------------------------------------------------------------------
(* The document a reader searches by time *)

MarksDocument(marks) ==
  LET order == InOrder(DOMAIN marks,
                 LAMBDA i, j : marks[i].t < marks[j].t \/ (marks[i].t = marks[j].t /\ i < j))
  IN  [i \in DOMAIN order |-> marks[order[i]]]
=============================================================================
