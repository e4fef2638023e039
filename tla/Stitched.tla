------------------------------ MODULE Stitched ------------------------------
(***************************************************************************)
(* What one stitcher promises about the two outputs of a book, without     *)
(* bytes, parts, receives or rows: book.mp3 is replaced as a whole, by all *)
(* that can be heard of the chunks that were listed, the manifest is       *)
(* written after it from the same list, and whatever fails is either begun *)
(* again or given up with a manifest that offers no audio.                 *)
(***************************************************************************)
EXTENDS FiniteSets

CONSTANT Parts   \* the chunks of the book

VARIABLES
  told,      \* the chunks that are narrated
  mute,      \* the chunks with nothing to hear
  stage,     \* "joining", "describing" or "finishing"
  offer,     \* what is about to be published
  mp3,       \* the object book.mp3
  document   \* the object manifest.json

vars == <<told, mute, stage, offer, mp3, document>>

NoMp3      == [exists |-> FALSE, parts |-> {}]
NoDocument == [segments |-> {}, missing |-> {}, audio |-> FALSE]
NoOffer    == [segments |-> {}, missing |-> {}, audio |-> FALSE, degraded |-> FALSE]

\* book.mp3 made of a list of chunks, and what it lets the manifest offer.
Joined(list) == [exists |-> TRUE, parts |-> list \ mute]

Offered(segments, degraded) ==
  [segments |-> segments, missing |-> Parts \ segments,
   audio |-> segments # {} /\ ~degraded, degraded |-> degraded]

\* The manifest does not say whether it is degraded.
Described(what) == [segments |-> what.segments, missing |-> what.missing, audio |-> what.audio]

Init ==
  /\ told \subseteq Parts /\ mute \subseteq Parts
  /\ stage = "joining" /\ offer = NoOffer
  /\ mp3 = NoMp3 /\ document = NoDocument

\* Whatever was about to be published is forgotten.
Again == stage' = "joining" /\ offer' = NoOffer

\* More chunks are narrated, none is taken back.
Tell ==
  /\ told \subseteq told' /\ told' \subseteq Parts
  /\ UNCHANGED <<mute, stage, offer, mp3, document>>

\* What is listed is narrated; some of it may have been overlooked.
Join ==
  /\ stage = "joining"
  /\ \E list \in SUBSET told :
       /\ mp3' = IF list = {} THEN mp3 ELSE Joined(list)
       /\ offer' = Offered(list \ mute, FALSE)
  /\ stage' = "describing"
  /\ UNCHANGED <<told, mute, document>>

\* A failure leaves the old book.mp3 or the new one.
JoinFails ==
  /\ stage = "joining"
  /\ \E list \in (SUBSET told) \ {{}} :
       /\ mp3' \in {mp3, Joined(list)}
       /\ Again \/ (stage' = "describing" /\ offer' = Offered(list, TRUE))
  /\ UNCHANGED <<told, mute, document>>

Describe ==
  /\ stage = "describing"
  /\ document' = Described(offer)
  /\ stage' = "finishing"
  /\ UNCHANGED <<told, mute, offer, mp3>>

\* Only what offers no audio is finished without its manifest.
DescribeFails ==
  /\ stage = "describing"
  /\ document' \in {document, Described(offer)}
  /\ Again \/ (offer.degraded /\ stage' = "finishing" /\ UNCHANGED offer)
  /\ UNCHANGED <<told, mute, mp3>>

\* The row is updated, or the stitcher dies.
Leave == Again /\ UNCHANGED <<told, mute, mp3, document>>

Next == Tell \/ Join \/ JoinFails \/ Describe \/ DescribeFails \/ Leave

Spec == Init /\ [][Next]_vars
=============================================================================
