------------------------------- MODULE Cutting -------------------------------
(***************************************************************************)
(* How ExtractBook cuts the text of a PDF into chunk rows: paragraph by    *)
(* paragraph, an oversized paragraph sentence by sentence, an oversized    *)
(* sentence at whitespace, small remainders merged; and the pages each     *)
(* chunk is said to be on.                                                 *)
(*                                                                         *)
(* Characters are positions 0 .. length - 1.  Of a text the cutting tells  *)
(* apart which positions are blank, where a paragraph starts and where a   *)
(* sentence starts.  A span <<a, b>> is the positions a .. b - 1.          *)
(***************************************************************************)
EXTENDS Integers, Sequences, SequencesExt, FiniteSets, FiniteSetsExt

CONSTANTS
  target,     \* a chunk that has reached this size is closed
  maximum,    \* no chunk is longer
  minimum,    \* a shorter chunk at either end is merged, if it can be
  MaxLength,  \* bound: positions of a text
  MaxPages    \* bound: pages of a text

ASSUME SizesAssumption == /\ target \in Nat /\ maximum \in Nat /\ minimum \in Nat
                          /\ 0 < minimum /\ minimum <= target /\ target <= maximum
ASSUME CuttingBoundsAssumption == MaxLength \in Nat /\ MaxPages \in Nat \ {0}

VARIABLES
  text,     \* the text and the pages it came from
  outcome,  \* "extracting", "EXTRACTED" or "FAILED"
  rows      \* the chunk rows: the span of each and its first and last page

cutVars == <<text, outcome, rows>>

Size(span) == span[2] - span[1]

-----------------------------------------------------------------------------
(* The texts an extractor can hand over *)

Positions(length) == 0 .. length - 1
WordStarts(t) == {p \in Positions(t.length) \ t.blank : p = 0 \/ p - 1 \in t.blank}

\* How many blanks there are before position p.
GapBefore(t, p) == p - Max({q \in 0 .. p : q = 0 \/ q - 1 \notin t.blank})

\* Where the text of the page that starts at p ends, and where the next page starts.
PageEnd(t, p) ==
  LET next == {q \in t.pages : q > p}
      limit == IF next = {} THEN t.length ELSE Min(next)
  IN Max({q \in p .. limit : q = p \/ q - 1 \notin t.blank})

\* Where the pages of a text may start, the first at its start.
PageStarts(length) == {{0} \cup Range(later) : later \in [1 .. MaxPages - 1 -> 0 .. length]}

\* Page texts are stripped and joined by a blank line, or by one space where
\* a sentence runs on.
PagesJoined(t) ==
  /\ PageEnd(t, Max(t.pages)) = t.length
  /\ \A p \in t.pages : p \notin t.blank \/ PageEnd(t, p) = p
  /\ \A p, q \in t.pages : (p < q /\ \A r \in t.pages : r <= p \/ r >= q) =>
       \/ q - PageEnd(t, p) = 2
       \/ q - PageEnd(t, p) = 1 /\ q < PageEnd(t, q) /\ WordStarts(t) \cap 0 .. q - 1 # {}

\* A paragraph starts after a blank line; every page does, but for a run-on.
ParagraphsSeparated(t, paragraphs) ==
  LET words == WordStarts(t)
      first == {p \in words : \A q \in words : p <= q}
      broken == {p \in words : GapBefore(t, p) >= 2}
  IN /\ first \cup (t.pages \cap broken) \subseteq paragraphs
     /\ paragraphs \subseteq first \cup broken

-----------------------------------------------------------------------------
(* chunk_text *)

\* The i-th start, in the order of the text.
Nth(starts, i) == CHOOSE p \in starts : Cardinality({q \in starts : q < p}) = i - 1

\* The spans from one start to the next; the first takes in what precedes it.
AtomsFromTrimmedSpans(starts, from, to) ==
  LET n == Cardinality(starts)
  IN  [i \in 1 .. n |-> <<IF i = 1 THEN from ELSE Nth(starts, i),
                          IF i = n THEN to ELSE Nth(starts, i + 1)>>]

Flush(group) ==
  [raw |-> IF group.pending = <<>> THEN group.raw ELSE Append(group.raw, group.pending),
   pending |-> <<>>]

\* Mutant: the limit is compared with the atom alone.
AccumulateUnbounded(group, atom) ==
  IF group.pending = <<>> THEN [group EXCEPT !.pending = atom]
  ELSE [group EXCEPT !.pending = <<@[1], atom[2]>>]

\* The group with an atom that fits a chunk.
Accumulate(group, atom) ==
  IF group.pending = <<>> THEN [group EXCEPT !.pending = atom]
  ELSE IF atom[2] - group.pending[1] > maximum THEN [Flush(group) EXCEPT !.pending = atom]
  ELSE [group EXCEPT !.pending = <<@[1], atom[2]>>]

\* The group with any atom; split has the spans an oversized one is cut into.
AddAtom(group, atom, split) ==
  IF Size(atom) > maximum
  THEN [raw |-> Flush(group).raw \o split[atom], pending |-> <<>>]
  ELSE LET held == Accumulate(group, atom)
       IN IF Size(held.pending) >= target THEN Flush(held) ELSE held

GreedyGroup(atoms, split) ==
  LET group[i \in 0 .. Len(atoms)] ==
        IF i = 0 THEN [raw |-> <<>>, pending |-> <<>>] ELSE AddAtom(group[i - 1], atoms[i], split)
  IN  Flush(group[Len(atoms)]).raw

\* Mutant: a piece ends where its maximum ends.
CutMidWord(p) == p + maximum

\* Where the piece that starts at p is cut: after the last blank it can hold.
Cut(p) ==
  LET afterBlank == {i \in p + 1 .. p + maximum : i - 1 \in text.blank}
  IN IF afterBlank = {} THEN p + maximum ELSE Max(afterBlank)

SplitAtWhitespace(span) ==
  LET pieces[p \in span[1] .. span[2]] ==
        IF span[2] - p > maximum THEN <<<<p, Cut(p)>>>> \o pieces[Cut(p)]
        ELSE IF span[2] > p THEN <<<<p, span[2]>>>> ELSE <<>>
  IN pieces[span[1]]

Regions == (0 .. text.length) \X (0 .. text.length)

\* Mutant: an oversized paragraph is cut at whitespace at once.
SplitParagraphAtWhitespace(span) == SplitAtWhitespace(span)

\* A paragraph holds a word, so there is always a sentence.
SplitOversizedParagraph(span) ==
  LET starts == {p \in text.paragraphs \cup text.sentences : span[1] <= p /\ p < span[2]}
  IN  GreedyGroup(AtomsFromTrimmedSpans(starts, span[1], span[2]),
                  [sentence \in Regions |-> SplitAtWhitespace(sentence)])

\* Mutant: a merged chunk may not be exactly as long as allowed.
MergeBackwardStrictly(raw) ==
  LET n == Len(raw) IN
  IF n > 1 /\ Size(raw[n]) < minimum /\ raw[n][2] - raw[n - 1][1] < maximum
  THEN Append(SubSeq(raw, 1, n - 2), <<raw[n - 1][1], raw[n][2]>>)
  ELSE raw

\* The last chunk merges into its predecessor while it is too small and fits,
\* so the last one begins where the chunk does that is the first to stop it.
MergeBackward(raw) ==
  LET end == Last(raw)[2]
      stops == {n \in 1 .. Len(raw) :
                  n > 1 => end - raw[n][1] >= minimum \/ end - raw[n - 1][1] > maximum}
  IN  Append(SubSeq(raw, 1, Max(stops) - 1), <<raw[Max(stops)][1], end>>)

\* The first chunk merges into its successor, once.
MergeForward(chunks) ==
  IF /\ Len(chunks) > 1
     /\ Size(chunks[1]) < minimum
     /\ chunks[2][2] - chunks[1][1] <= maximum
  THEN <<<<chunks[1][1], chunks[2][2]>>>> \o SubSeq(chunks, 3, Len(chunks))
  ELSE chunks

MergeRunts(raw) == MergeForward(MergeBackward(raw))

ChunkText ==
  IF text.paragraphs = {} THEN <<>>
  ELSE MergeRunts(GreedyGroup(AtomsFromTrimmedSpans(text.paragraphs, 0, text.length),
                              [paragraph \in Regions |-> SplitOversizedParagraph(paragraph)]))

-----------------------------------------------------------------------------
(* The rows *)

\* bisect_right over the starts of the pages: the last page that starts at or before p.
PageAt(p) == Cardinality({q \in text.pages : q <= p})

\* Mutant: a chunk is on the page it starts on.
PageRangeForStart(span) == <<PageAt(span[1]), PageAt(span[1])>>

PageRangeFor(span) == <<PageAt(span[1]), PageAt(Max({span[1], span[2] - 1}))>>

CutInit ==
  /\ \E length \in 0 .. MaxLength : \E pages \in PageStarts(length), blank \in SUBSET Positions(length) :
       LET paged == [length |-> length, blank |-> blank, pages |-> pages] IN
       /\ PagesJoined(paged)
       /\ \E paragraphs \in SUBSET WordStarts(paged) :
            /\ ParagraphsSeparated(paged, paragraphs)
            /\ \E sentences \in SUBSET (WordStarts(paged) \ paragraphs) :
                 text = [length |-> length, blank |-> blank, pages |-> pages,
                         paragraphs |-> paragraphs, sentences |-> sentences]
  /\ outcome = "extracting"
  /\ rows = <<>>

\* The chunks of the text become rows; without any the book has no text layer.
CutBook ==
  /\ outcome = "extracting"
  /\ LET boundaries == ChunkText IN
     /\ outcome' = IF boundaries = <<>> THEN "FAILED" ELSE "EXTRACTED"
     /\ rows' = [i \in DOMAIN boundaries |->
                   [span |-> boundaries[i], onPages |-> PageRangeFor(boundaries[i])]]
  /\ UNCHANGED text

CutSpec == CutInit /\ [][CutBook]_cutVars

-----------------------------------------------------------------------------
(* Properties *)

CutTyped ==
  /\ outcome \in {"extracting", "EXTRACTED", "FAILED"}
  /\ text.blank \subseteq Positions(text.length)
  /\ \A i \in DOMAIN rows :
       /\ rows[i].span \in (0 .. text.length) \X (0 .. text.length)
       /\ rows[i].onPages \in (1 .. MaxPages) \X (1 .. MaxPages)

Done == outcome = "EXTRACTED"
Spans == {rows[i].span : i \in DOMAIN rows}
InnerCuts == {rows[i].span[2] : i \in DOMAIN rows} \ {text.length}
HoldsWord(span) == \E p \in span[1] .. span[2] - 1 : p \notin text.blank

\* The chunks tile the text, in order, and none is empty or longer than the
\* maximum, so the character offsets of the rows address the text of the book.
Partition ==
  Done =>
    /\ rows # <<>> /\ rows[1].span[1] = 0 /\ Last(rows).span[2] = text.length
    /\ \A i \in 1 .. Len(rows) - 1 : rows[i].span[2] = rows[i + 1].span[1]
    /\ \A span \in Spans : 0 < Size(span) /\ Size(span) <= maximum

\* The atoms of the text, taken from the starts alone.
Stretches(starts) ==
  {<<IF \A q \in starts : p <= q THEN 0 ELSE p,
     Min({q \in starts : q > p} \cup {text.length})>> : p \in starts}
Paragraphs == Stretches(text.paragraphs)
Sentences == Stretches(text.paragraphs \cup text.sentences)
Words == {span \in (0 .. text.length) \X (0 .. text.length) :
            span[1] < span[2] /\ \A p \in span[1] .. span[2] - 1 : p \notin text.blank}
Inside(cut, span) == span[1] < cut /\ cut < span[2]

\* Only what is too long for a chunk is cut, a paragraph, a sentence or a
\* word: the boundary preference of the chunker, which the narration pauses
\* at and the highlight jumps at.
CutsByPreference ==
  Done => \A cut \in InnerCuts :
    /\ \A span \in Paragraphs \cup Sentences : Inside(cut, span) => Size(span) > maximum
    /\ \A span \in Words : Inside(cut, span) =>
         \E word \in Words : Inside(cut, word) /\ Size(word) > maximum

\* A chunk without a word is cut off a sentence that is too long for a chunk
\* together with the blanks around it; what cannot be spoken never fills a
\* chunk otherwise.
SilentOnlyByLongSentence ==
  Done => \A span \in Spans : HoldsWord(span) \/
            \E s \in Sentences : s[1] <= span[1] /\ span[2] <= s[2] /\ Size(s) > maximum

\* A chunk at either end is too small only if merging it would be too much;
\* the first one, which is merged once, also when it reaches from before a
\* paragraph that is too long to a sentence in it that is too long.
RuntsAreStuck ==
  Done /\ Len(rows) > 1 =>
    LET n == Len(rows)
        first == rows[1].span
        last  == rows[n].span
    IN /\ Size(last) < minimum => last[2] - rows[n - 1].span[1] > maximum
       /\ Size(first) < minimum =>
            \/ rows[2].span[2] - first[1] > maximum
            \/ /\ \E p \in Paragraphs : Inside(p[1], first) /\ Size(p) > maximum
               /\ \E s \in Sentences : s[1] = first[2] /\ Size(s) > maximum

\* The page range of a chunk covers every page it has text from.
PagesCoverChunk ==
  Done => \A i \in DOMAIN rows : \A p \in text.pages :
    HoldsWord(<<Max({p, rows[i].span[1]}), Min({PageEnd(text, p), rows[i].span[2]})>>)
      => rows[i].onPages[1] <= PageAt(p) /\ PageAt(p) <= rows[i].onPages[2]
=============================================================================
