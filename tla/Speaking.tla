------------------------------ MODULE Speaking ------------------------------
(***************************************************************************)
(* One call of the speech synthesizer for a chunk: the engines a           *)
(* deployment is given, their attempts, the fallback from one to the next, *)
(* and the marks made of what the engine that speaks reports.  Synthesis   *)
(* sees of all this an outcome, or that its Lambda dies.  Times of the      *)
(* engines are in half seconds, times within the audio in ticks.           *)
(***************************************************************************)
EXTENDS Marks

CONSTANTS
  Letters,     \* the letters of texts
  MaxText,     \* bound: letters and spaces of a text
  MaxHeard,    \* bound: words an engine reports
  MaxReported, \* bound: letters of a word it reports
  MaxDuration, \* bound: ticks of a clip
  Attempts,      \* attempts of an engine
  EdgeTimeout,   \* after which an attempt of edge-tts is given up
  GoogleTimeout, \* after which an attempt of Google is given up
  EdgePause,     \* between two attempts of edge-tts
  GooglePause,   \* between two attempts of Google
  Budgets        \* times an invocation may have left when the call begins

ASSUME SpeakingAssumption ==
  /\ Space \notin Letters
  /\ {MaxText, MaxHeard, MaxReported, MaxDuration, Attempts} \subseteq Nat \ {0}
  /\ {EdgeTimeout, GoogleTimeout, EdgePause, GooglePause} \subseteq Nat
  /\ Budgets \subseteq Nat

\* The longest a call takes, when all attempts of both engines time out.
LongestCall ==
  Attempts * (EdgeTimeout + GoogleTimeout) + (Attempts - 1) * (EdgePause + GooglePause)

VARIABLES
  text,      \* the text of the chunk
  engines,   \* the engines that are left, the one in use first
  attempt,   \* the attempt of the engine in use
  budget,    \* the time the invocation has left when the call begins
  spent,     \* time spent since then
  heard,     \* what the engine that spoke reported
  duration,  \* of the clip, in ticks
  marks,     \* the words of the marks document
  outcome,   \* what the caller gets
  answers    \* history: every answer of an engine

speakVars == <<text, engines, attempt, budget, spent, heard, duration, marks, outcome, answers>>

-----------------------------------------------------------------------------
(* The deployment *)

\* get_speech_synthesizer: outside production an engine is only called by a
\* developer who asked for it.
SpeechSynthesizer(environment, stubMode, hasGoogleSecret) ==
  CASE environment = "local" /\ stubMode = "edge_tts" -> <<"edge">>
    [] environment # "prod" /\ stubMode = "silent"    -> <<"silent">>
    [] environment = "prod" /\ hasGoogleSecret        -> <<"edge", "google">>
    [] environment = "prod" /\ ~hasGoogleSecret       -> <<"edge">>
    [] OTHER                                          -> <<"stub">>

\* A blank text is turned down before the engine is called.
Texts == {s \in UNION {[1 .. n -> Letters \cup {Space}] : n \in 1 .. MaxText} :
            \E i \in DOMAIN s : s[i] # Space}

SpeakInit ==
  /\ text \in Texts
  /\ \E environment \in {"local", "pr", "prod"}, stubMode \in {"disabled", "silent", "edge_tts"},
        hasGoogleSecret \in BOOLEAN :
       engines = SpeechSynthesizer(environment, stubMode, hasGoogleSecret)
  /\ attempt = 1
  /\ budget \in Budgets /\ spent = 0
  /\ heard = <<>>
  /\ duration = 0
  /\ marks = <<>>
  /\ outcome = "calling"
  /\ answers = <<>>

-----------------------------------------------------------------------------
(* Answers *)

Uses(engine) == outcome = "calling" /\ Head(engines) = engine

Answers(answer) == answers' = Append(answers, <<Head(engines), answer>>)

TimeoutOf(engine) == IF engine = "edge" THEN EdgeTimeout ELSE GoogleTimeout
PauseOf(engine)   == IF engine = "edge" THEN EdgePause ELSE GooglePause

\* Mutant: whatever an engine raises goes to the caller.
GiveUpOnAll(failure) ==
  /\ outcome' = failure
  /\ UNCHANGED <<engines, attempt>>

\* Whatever an engine raises, the next one is tried; the last one's failure
\* goes to the caller.  (The fallback passes UnsynthesizableText on, which no
\* engine here raises: blank texts are turned down before the call.)
GiveUp(failure) ==
  IF Len(engines) > 1
  THEN engines' = Tail(engines) /\ attempt' = 1 /\ UNCHANGED outcome
  ELSE outcome' = failure /\ UNCHANGED <<engines, attempt>>

\* The time an attempt may take, and the pause after it.
AttemptTime ==
  TimeoutOf(Head(engines)) + (IF attempt < Attempts THEN PauseOf(Head(engines)) ELSE 0)

\* An attempt raises, times out, or returns no audio that has a frame.
AttemptFails ==
  /\ Uses("edge") \/ Uses("google")
  /\ \E time \in {0, TimeoutOf(Head(engines))} :
       IF attempt < Attempts
       THEN /\ attempt' = attempt + 1
            /\ spent' = spent + time + PauseOf(Head(engines))
            /\ UNCHANGED <<engines, outcome>>
       ELSE /\ spent' = spent + time
            /\ GiveUp("unavailable")
  /\ spent' <= budget
  /\ Answers("failed")
  /\ UNCHANGED <<text, budget, heard, duration, marks>>

\* An invocation drains many messages and may begin a call with hardly any time
\* left: the Lambda is killed in the attempt or in the pause after it.
CutOff ==
  /\ Uses("edge") \/ Uses("google")
  /\ spent + AttemptTime > budget
  /\ outcome' = "cutOff"
  /\ UNCHANGED <<text, engines, attempt, budget, spent, heard, duration, marks, answers>>

\* A status that no attempt will change, 400 or 403.
GoogleRefuses ==
  /\ Uses("google")
  /\ Answers("refused")
  /\ GiveUp("unavailable")
  /\ UNCHANGED <<text, budget, spent, heard, duration, marks>>

\* A response that cannot be decoded raises out of the loop of the attempts.
GoogleMalformed ==
  /\ Uses("google")
  /\ Answers("malformed")
  /\ GiveUp("raised")
  /\ UNCHANGED <<text, budget, spent, heard, duration, marks>>

StubDisabled ==
  /\ Uses("stub")
  /\ Answers("disabled")
  /\ GiveUp("disabled")
  /\ UNCHANGED <<text, budget, spent, heard, duration, marks>>

Speaks(report, length, words) ==
  /\ Answers("spoken")
  /\ heard' = report
  /\ duration' = length
  /\ marks' = MarksDocument(words)
  /\ outcome' = "spoken"
  /\ UNCHANGED <<text, engines, attempt, budget, spent>>

\* What edge-tts can report as a word: one of the text, a part of one, or none.
Reports == {Within(text, s, e) : s \in 0 .. Len(text), e \in 0 .. Len(text)}
             \cap UNION {[1 .. n -> Letters] : n \in 0 .. MaxReported}

\* The words come one after the other, or the last of them first.
EdgeSpeaks ==
  /\ Uses("edge")
  /\ \E n \in 0 .. MaxHeard : \E words \in [1 .. n -> Reports], backwards \in BOOLEAN :
       LET report == [i \in 1 .. n |-> [word |-> words[i], t |-> IF backwards THEN n - i ELSE i,
                                       d |-> 1]]
       IN  Speaks(report, MaxDuration, MeasuredMarks(text, report))

\* Sentences begin at words, the first at the first word, and each that is
\* marked is reported or not; no mark is sent with a text too long for them.
Sentences == {firsts \in SUBSET {IterWords(text)[i][1] : i \in DOMAIN IterWords(text)} :
                IterWords(text)[1][1] \in firsts}

GoogleSpeaks ==
  /\ Uses("google")
  /\ \E sentences \in Sentences, length \in 1 .. MaxDuration : \E told \in SUBSET sentences :
     \E time \in [told -> 0 .. MaxDuration] :
       LET timepoints == {<<first, time[first]>> : first \in told}
       IN  Speaks(timepoints, length,
                  EstimateWordMarks(text, AnchorsFromTimepoints(text, timepoints, length)))

SilentSpeaks ==
  /\ Uses("silent")
  /\ \E length \in 1 .. MaxDuration :
       Speaks({}, length, EstimateWordMarks(text, WholeChunk(text, length)))

SpeakNext ==
  \/ AttemptFails \/ CutOff \/ GoogleRefuses \/ GoogleMalformed \/ StubDisabled
  \/ EdgeSpeaks \/ GoogleSpeaks \/ SilentSpeaks

SpeakSpec == SpeakInit /\ [][SpeakNext]_speakVars

-----------------------------------------------------------------------------
(* Properties *)

Spans(words) == {<<words[i].s, words[i].e>> : i \in DOMAIN words}

\* Every word is in the document once and no two are heard at a time, and all
\* of them before the clip ends.
Estimated ==
  (\A timepoint \in heard : timepoint[2] <= duration) =>
    /\ [i \in DOMAIN marks |-> <<marks[i].s, marks[i].e>>] = IterWords(text)
    /\ \A i \in DOMAIN marks :
         marks[i].t + marks[i].d <= IF i < Len(marks) THEN marks[i + 1].t ELSE duration

\* The words of the text are near each other, as normalised text has them.
Near ==
  \A i \in DOMAIN IterWords(text) :
    IterWords(text)[i][1] - (IF i = 1 THEN 0 ELSE IterWords(text)[i - 1][2]) <= Lookahead

\* The i-th mark is where the text has its j-th word.
At(i, j) == <<marks[i].s, marks[i].e>> = IterWords(text)[j]

\* The document is in the order of time, no letter belongs to two words,
\* whatever the engine reported, and when it reported the words of the text,
\* they are where the text has them.  After a bad token this is so again from the
\* first word on that is found where the text has it.
Measured ==
  /\ \A i \in 2 .. Len(marks) : marks[i - 1].t <= marks[i].t
  /\ \A i, j \in DOMAIN marks : i # j => marks[i].e <= marks[j].s \/ marks[j].e <= marks[i].s
  /\ Near /\ [i \in DOMAIN heard |-> heard[i].word] = WordsOf(text)
       => Spans(marks) = ToSet(IterWords(text))
  /\ Near /\ (\A i \in 2 .. Len(heard) : heard[i - 1].t <= heard[i].t)
       => \A i \in 2 .. Len(heard), j \in 2 .. Len(IterWords(text)) :
            At(i - 1, j - 1) /\ heard[i].word = WordsOf(text)[j] => At(i, j)

\* The highlight follows the text: the words of a clip are found by time, in
\* the order of the text, whichever engine spoke (domain/marks.py:39-56,
\* 73-77, 131-134).
WordsFollowText ==
  outcome = "spoken" => IF Last(answers)[1] = "edge" THEN Measured ELSE Estimated

Given(engine, answer) == Cardinality({i \in DOMAIN answers : answers[i] = <<engine, answer>>})

\* Google is only paid for when edge-tts has failed every time, nothing is
\* asked again that was refused, and a chunk is only unavailable when every
\* engine was used up; and a call that is cut off in between had less time when
\* it began than all the attempts may take.
UsedUpInOrder ==
  /\ (\E i \in DOMAIN answers : answers[i][1] = "google") => Given("edge", "failed") = Attempts
  /\ \A i \in DOMAIN answers : answers[i][2] # "failed" => i = Len(answers)
  /\ outcome = "unavailable" =>
       /\ Len(engines) = 1
       /\ Last(answers)[2] = "refused" \/ Given(Head(engines), "failed") = Attempts
  /\ outcome = "cutOff" => budget < LongestCall
=============================================================================
