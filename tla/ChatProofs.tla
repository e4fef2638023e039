------------------------------ MODULE ChatProofs ------------------------------
(***************************************************************************)
(* Proofs about Chat, for any number of questions at once, any limit and   *)
(* any clocks: what the daily limit pays for is never exceeded, text that  *)
(* was shown is never requested a second time, a client that was told its  *)
(* answer is done finds the turn stored, the window of a prompt fits, lies *)
(* around the reader, and is as long as the chunks allow, and what is told *)
(* of the conversation is its last turns.                                  *)
(***************************************************************************)
EXTENDS Chat, Recursion, FiniteSetTheorems, TLAPS

-----------------------------------------------------------------------------
(* Typing *)

LEMMA DayOfTime == ASSUME NEW at \in Times \cup {0} PROVE Day(at) \in Days
  BY DEF Days

LEMMA ChatTyped == Init => TypeOK
  <1> SUFFICES ASSUME Init PROVE TypeOK
    OBVIOUS
  <1>1. Cardinality(Past) \in Nat
    BY ChatAssumption, FS_Subset, FS_CardinalityType
  <1>2. \A t \in Turns : asked[t] \in [at : Times \cup {0}, id : 0 .. 1]
    BY DEF Init, NotAsked
  <1>3. asked \in [Turns -> [at : Times \cup {0}, id : 0 .. 1]]
    BY <1>2 DEF Init
  <1>4. /\ bookRow \in {"noText", "text", "gone"}
        /\ quota \in [Days -> Nat]
        /\ transcript \subseteq Messages
        /\ askPc \in [Turns -> AskPcs]
    BY <1>1, ChatAssumption DEF Init, AskPcs, Messages
  <1>5. /\ requests \in [Turns -> 0 .. MaxRequests]
        /\ shown \in [Turns -> 0 .. MaxDeltas]
        /\ told \subseteq Turns
        /\ crashes \in 0 .. MaxCrashes
    BY ChatAssumption DEF Init, MaxRequests
  <1> QED
    BY <1>3, <1>4, <1>5 DEF TypeOK

\* Every new value of asked is that of a turn at a time with an id.
LEMMA AskedTyped ==
  ASSUME TypeOK, NEW t \in Turns,
         \/ UNCHANGED asked
         \/ \E now \in Times : asked' = [asked EXCEPT ![t].at = now]
         \/ \E id \in 0 .. 1 : asked' = [asked EXCEPT ![t].id = id]
         \/ asked' = [asked EXCEPT ![t] = NotAsked]
  PROVE  asked' \in [Turns -> [at : Times \cup {0}, id : 0 .. 1]]
  BY DEF TypeOK, NotAsked

LEMMA ChatTypedStep == TypeOK /\ [Next]_vars => TypeOK'
  <1> SUFFICES ASSUME TypeOK, [Next]_vars PROVE TypeOK'
    OBVIOUS
  <1> USE DEF At, Goto, LeaveOpen, storedVars, turnVars, clearVars
  <1>1. ASSUME NEW t \in Turns, Ask(t) PROVE TypeOK'
    <2>1. asked' \in [Turns -> [at : Times \cup {0}, id : 0 .. 1]]
      BY <1>1, AskedTyped DEF Ask
    <2> QED
      BY <1>1, <2>1 DEF Ask, TypeOK, AskPcs
  <1>2. ASSUME NEW t \in Turns, Charge(t) PROVE TypeOK'
    <2>1. asked' \in [Turns -> [at : Times \cup {0}, id : 0 .. 1]]
      BY <1>2, AskedTyped DEF Charge, Forget
    <2>2. quota' \in [Days -> Nat]
      BY <1>2 DEF Charge, TypeOK
    <2> QED
      BY <1>2, <2>1, <2>2 DEF Charge, Forget, TypeOK, AskPcs
  <1>3. ASSUME NEW t \in Turns, ReadChunks(t) PROVE TypeOK'
    <2>1. asked' \in [Turns -> [at : Times \cup {0}, id : 0 .. 1]]
      BY <1>3, AskedTyped DEF ReadChunks, Forget
    <2>2. askPc' \in [Turns -> AskPcs]
      BY <1>3 DEF ReadChunks, Forget, TypeOK, AskPcs
    <2>3. UNCHANGED <<bookRow, quota, transcript, requests, shown, told, crashes>>
      BY <1>3 DEF ReadChunks
    <2> QED
      BY <2>1, <2>2, <2>3 DEF TypeOK
  <1>4. ASSUME NEW t \in Turns, ReadHistory(t) PROVE TypeOK'
    BY <1>4 DEF ReadHistory, TypeOK, AskPcs
  <1>5. ASSUME NEW t \in Turns, OpenStub(t) PROVE TypeOK'
    BY <1>5 DEF OpenStub, TypeOK, AskPcs
  <1>6. ASSUME NEW t \in Turns, Open(t) PROVE TypeOK'
    <2>1. requests' \in [Turns -> 0 .. MaxRequests]
      BY <1>6 DEF Open, TypeOK, MaxRequests
    <2>2. askPc' \in [Turns -> AskPcs]
      BY <1>6 DEF Open, TypeOK, AskPcs
    <2>3. UNCHANGED <<bookRow, quota, transcript, asked, shown, told, crashes>>
      BY <1>6 DEF Open
    <2> QED
      BY <2>1, <2>2, <2>3 DEF TypeOK
  <1>7. ASSUME NEW t \in Turns, Delta(t) PROVE TypeOK'
    BY <1>7, ChatAssumption DEF Delta, TypeOK
  <1>8. ASSUME NEW t \in Turns, StreamEnds(t) PROVE TypeOK'
    <2>1. asked' \in [Turns -> [at : Times \cup {0}, id : 0 .. 1]]
      BY <1>8, AskedTyped DEF StreamEnds
    <2> QED
      BY <1>8, <2>1 DEF StreamEnds, TypeOK, AskPcs
  <1>9. ASSUME NEW t \in Turns, Save(t) PROVE TypeOK'
    <2>1. transcript' \subseteq Messages
      BY <1>9 DEF Save, TypeOK, TurnMessages, Messages
    <2>2. askPc' \in [Turns -> AskPcs]
      BY <1>9 DEF Save, TypeOK, AskPcs
    <2>3. UNCHANGED <<bookRow, quota, asked, requests, shown, told, crashes>>
      BY <1>9 DEF Save
    <2> QED
      BY <2>1, <2>2, <2>3 DEF TypeOK
  <1>10. ASSUME NEW t \in Turns, Done(t) PROVE TypeOK'
    BY <1>10 DEF Done, TypeOK, AskPcs
  <1>11. ASSUME NEW t \in Turns, AskCrash(t) PROVE TypeOK'
    BY <1>11, ChatAssumption DEF AskCrash, TypeOK, AskPcs
  <1>12. CASE Clear
    BY <1>12 DEF Clear, ClearBegin, ClearDelete, TypeOK
  <1>13. CASE BookChanges
    BY <1>13 DEF BookChanges, TypeOK
  <1>14. CASE UNCHANGED vars
    BY <1>14 DEF vars, TypeOK
  <1> QED
    BY <1>1, <1>2, <1>3, <1>4, <1>5, <1>6, <1>7, <1>8, <1>9, <1>10, <1>11, <1>12, <1>13, <1>14
       DEF Next, Question

-----------------------------------------------------------------------------
(* What the daily limit pays for *)

\* A turn that has sent a request, or may send its first.
Charged(t) == requests[t] > 0 \/ askPc[t] \in {"chunks", "history", "open"}
ChargedOn(d) == {t \in Turns : Charged(t) /\ Day(asked[t].at) = d}

PaidInv ==
  /\ \A d \in Days : quota[d] <= Chargeable /\ Cardinality(ChargedOn(d)) <= quota[d]
  /\ \A t \in Turns : askPc[t] \in {"new", "charge", "chunks", "history"} => requests[t] = 0

LEMMA ChargedFinite ==
  ASSUME NEW d
  PROVE  IsFiniteSet(ChargedOn(d)) /\ Cardinality(ChargedOn(d)) \in Nat
  <1>1. ChargedOn(d) \subseteq Turns
    BY DEF ChargedOn
  <1> QED
    BY <1>1, ChatAssumption, FS_Subset, FS_CardinalityType

LEMMA PaidInit == Init => PaidInv
  <1> SUFFICES ASSUME Init PROVE PaidInv
    OBVIOUS
  <1>1. IsFiniteSet(Past) /\ Cardinality(Past) \in Nat
    BY ChatAssumption, FS_Subset, FS_CardinalityType
  <1>2. Day(0) = 0
    BY ChatAssumption DEF Day
  <1>3. \A t \in Turns : (Charged(t) <=> t \in Past) /\ asked[t].at = 0
    BY DEF Init, Charged, NotAsked
  <1>4. ASSUME NEW d \in Days
        PROVE  quota[d] <= Chargeable /\ Cardinality(ChargedOn(d)) <= quota[d]
    <2>1. CASE d = 0
      <3>1. ChargedOn(d) = Past
        BY <1>2, <1>3, <2>1, ChatAssumption DEF ChargedOn
      <3>2. quota[d] = Cardinality(Past)
        BY <2>1, <1>4 DEF Init
      <3> QED
        BY <3>1, <3>2, <1>1, ChatAssumption
    <2>2. CASE d # 0
      <3>1. ChargedOn(d) = {}
        BY <1>2, <1>3, <2>2 DEF ChargedOn
      <3>2. quota[d] = 0 /\ Cardinality({}) = 0
        BY <2>2, <1>4, FS_EmptySet DEF Init
      <3> QED
        BY <3>1, <3>2, ChatAssumption DEF Chargeable
    <2> QED
      BY <2>1, <2>2
  <1> QED
    BY <1>4 DEF PaidInv, Init

\* A step that charges nothing and lets no turn count that did not count.
LEMMA PaidSame ==
  ASSUME TypeOK, PaidInv, UNCHANGED quota,
         \A t \in Turns : Charged(t)' => Charged(t) /\ asked'[t].at = asked[t].at,
         \A t \in Turns : askPc'[t] \in {"new", "charge", "chunks", "history"} => requests'[t] = 0
  PROVE  PaidInv'
  <1>1. ASSUME NEW d \in Days PROVE Cardinality(ChargedOn(d)') <= quota[d]
    <2>1. ChargedOn(d)' \subseteq ChargedOn(d)
      BY DEF ChargedOn
    <2>2. Cardinality(ChargedOn(d)') <= Cardinality(ChargedOn(d)) /\ Cardinality(ChargedOn(d)') \in Nat
      BY <2>1, ChargedFinite, FS_Subset, FS_CardinalityType
    <2> QED
      BY <2>2, ChargedFinite DEF PaidInv, TypeOK
  <1> QED
    BY <1>1 DEF PaidInv

LEMMA PaidStep == TypeOK /\ PaidInv /\ [Next]_vars => PaidInv'
  <1> SUFFICES ASSUME TypeOK, PaidInv, [Next]_vars PROVE PaidInv'
    OBVIOUS
  <1> USE DEF At, Goto, LeaveOpen, storedVars, turnVars, clearVars
  <1>0. \A t \in Turns :
          /\ requests[t] \in Nat
          /\ askPc[t] \in {"new", "charge", "chunks", "history"} => requests[t] = 0
    BY DEF TypeOK, PaidInv, MaxRequests
  <1>1. ASSUME NEW t \in Turns, Ask(t) PROVE PaidInv'
    <2>1. UNCHANGED <<quota, requests>> /\ askPc[t] = "new"
          /\ askPc' \in {[askPc EXCEPT ![t] = "charge"], [askPc EXCEPT ![t] = "over"]}
      BY <1>1 DEF Ask
    <2>2. \A s \in Turns : s # t => asked'[s] = asked[s]
      BY <1>1 DEF Ask, TypeOK
    <2> QED
      BY <1>0, <2>1, <2>2, PaidSame DEF Charged, TypeOK
  <1>2. ASSUME NEW t \in Turns, Charge(t) PROVE PaidInv'
    <2>0. asked[t].at \in Times \cup {0}
      BY DEF TypeOK
    <2> PICK d \in Days : d = Day(asked[t].at)
      BY <2>0, DayOfTime
    <2>1. askPc[t] = "charge" /\ UNCHANGED requests
      BY <1>2 DEF Charge
    <2>2. CASE RoomLeft(quota[d])
      <3>1. /\ quota' = [quota EXCEPT ![d] = @ + 1] /\ UNCHANGED asked
            /\ askPc' = [askPc EXCEPT ![t] = "chunks"]
        BY <1>2, <2>2 DEF Charge
      <3>2. \A s \in Turns : s # t => (Charged(s)' <=> Charged(s))
        BY <2>1, <3>1 DEF Charged, TypeOK
      <3>3. Charged(t)' /\ ~Charged(t)
        BY <1>0, <2>1, <3>1 DEF Charged, TypeOK
      <3>4. ChargedOn(d)' = ChargedOn(d) \cup {t} /\ t \notin ChargedOn(d)
        BY <3>1, <3>2, <3>3 DEF ChargedOn
      <3>5. \A e \in Days : e # d => ChargedOn(e)' = ChargedOn(e)
        BY <3>1, <3>2, <3>3 DEF ChargedOn
      <3>6. Cardinality(ChargedOn(d)') = Cardinality(ChargedOn(d)) + 1
        BY <3>4, ChargedFinite, FS_AddElement
      <3>7. quota[d] \in Nat /\ quota'[d] = quota[d] + 1 /\ quota'[d] <= Chargeable
            /\ \A e \in Days : e # d => quota'[e] = quota[e]
        BY <2>1, <2>2, <3>1, ChatAssumption DEF TypeOK, RoomLeft, Chargeable
      <3>8. \A e \in Days : quota'[e] <= Chargeable /\ Cardinality(ChargedOn(e)') <= quota'[e]
        <4> TAKE e \in Days
        <4>1. CASE e = d
          <5>1. Cardinality(ChargedOn(d)) \in Nat /\ Cardinality(ChargedOn(d)) <= quota[d]
            BY <2>1, ChargedFinite DEF PaidInv
          <5>2. Cardinality(ChargedOn(d)') <= quota'[d]
            BY <3>6, <3>7, <5>1
          <5>3. quota'[d] <= Chargeable
            BY <3>7, ChatAssumption
          <5> QED
            BY <4>1, <5>2, <5>3
        <4>2. CASE e # d
          BY <3>5, <3>7, <4>2 DEF PaidInv
        <4> QED
          BY <4>1, <4>2
      <3> QED
        BY <1>0, <2>1, <3>1, <3>8 DEF PaidInv, TypeOK
    <2>3. CASE ~RoomLeft(quota[d])
      <3>1. /\ UNCHANGED quota /\ askPc' = [askPc EXCEPT ![t] = "over"]
            /\ \A s \in Turns : s # t => asked'[s] = asked[s]
        BY <1>2, <2>3 DEF Charge, Forget, TypeOK
      <3> QED
        BY <1>0, <2>1, <3>1, PaidSame DEF Charged, TypeOK
    <2> QED
      BY <2>2, <2>3
  <1>3. ASSUME NEW t \in Turns, ReadChunks(t) PROVE PaidInv'
    <2>1. /\ UNCHANGED <<quota, requests>> /\ askPc[t] = "chunks"
          /\ \/ askPc' = [askPc EXCEPT ![t] = "over"] /\ asked' = [asked EXCEPT ![t] = NotAsked]
             \/ askPc' = [askPc EXCEPT ![t] = "history"] /\ UNCHANGED asked
      BY <1>3 DEF ReadChunks, Forget
    <2> QED
      BY <1>0, <2>1, PaidSame DEF Charged, TypeOK
  <1>4. ASSUME NEW t \in Turns, ReadHistory(t) PROVE PaidInv'
    BY <1>0, <1>4, PaidSame DEF ReadHistory, Charged, TypeOK
  <1>5. ASSUME NEW t \in Turns, OpenStub(t) PROVE PaidInv'
    BY <1>0, <1>5, PaidSame DEF OpenStub, Charged, TypeOK
  <1>6. ASSUME NEW t \in Turns, Open(t) PROVE PaidInv'
    <2>1. /\ UNCHANGED <<quota, asked>> /\ askPc[t] = "open"
          /\ requests' = [requests EXCEPT ![t] = @ + 1]
          /\ \A s \in Turns : s # t => askPc'[s] = askPc[s]
          /\ askPc'[t] \in {"open", "stream", "save"}
      BY <1>6 DEF Open, TypeOK
    <2> QED
      BY <1>0, <2>1, PaidSame DEF Charged, TypeOK
  <1>7. ASSUME NEW t \in Turns, Delta(t) PROVE PaidInv'
    BY <1>0, <1>7, PaidSame DEF Delta, Charged
  <1>8. ASSUME NEW t \in Turns, StreamEnds(t) PROVE PaidInv'
    <2>1. \A s \in Turns : asked'[s].at = asked[s].at
      BY <1>8 DEF StreamEnds, TypeOK
    <2> QED
      BY <1>0, <1>8, <2>1, PaidSame DEF StreamEnds, Charged, TypeOK
  <1>9. ASSUME NEW t \in Turns, Save(t) PROVE PaidInv'
    <2>1. UNCHANGED <<quota, asked, requests>> /\ askPc[t] = "save"
          /\ (UNCHANGED askPc \/ askPc' = [askPc EXCEPT ![t] = "done"])
      BY <1>9 DEF Save
    <2> QED
      BY <1>0, <2>1, PaidSame DEF Charged, TypeOK
  <1>10. ASSUME NEW t \in Turns, Done(t) PROVE PaidInv'
    BY <1>0, <1>10, PaidSame DEF Done, Charged, TypeOK
  <1>11. ASSUME NEW t \in Turns, AskCrash(t) PROVE PaidInv'
    BY <1>0, <1>11, PaidSame DEF AskCrash, Charged, TypeOK
  <1>12. CASE Clear
    BY <1>0, <1>12, PaidSame DEF Clear, ClearBegin, ClearDelete, Charged
  <1>13. CASE BookChanges
    BY <1>0, <1>13, PaidSame DEF BookChanges, Charged
  <1>14. CASE UNCHANGED vars
    BY <1>0, <1>14, PaidSame DEF vars, Charged
  <1> QED
    BY <1>1, <1>2, <1>3, <1>4, <1>5, <1>6, <1>7, <1>8, <1>9, <1>10, <1>11, <1>12, <1>13, <1>14
       DEF Next, Question

LEMMA PaidEnough == TypeOK /\ PaidInv => PaidFor
  <1> SUFFICES ASSUME TypeOK, PaidInv, NEW d \in Days
               PROVE  /\ quota[d] <= Chargeable
                      /\ Cardinality({t \in Turns : requests[t] > 0 /\ Day(asked[t].at) = d}) <= quota[d]
    BY DEF PaidFor
  <1> DEFINE asking == {t \in Turns : requests[t] > 0 /\ Day(asked[t].at) = d}
  <1>1. asking \subseteq ChargedOn(d)
    BY DEF ChargedOn, Charged
  <1>2. Cardinality(asking) <= Cardinality(ChargedOn(d)) /\ Cardinality(asking) \in Nat
    BY <1>1, ChargedFinite, FS_Subset, FS_CardinalityType
  <1> QED
    BY <1>2, ChargedFinite DEF PaidInv, TypeOK

\* However many questions run at once, on however many days, a request to the
\* model is covered by a charge and no day is charged beyond its limit, or
\* beyond the one question that a limit of 0 lets through.
THEOREM NoUnpaidRequest == Spec => []PaidFor
  <1>1. Init => TypeOK /\ PaidInv
    BY ChatTyped, PaidInit
  <1>2. TypeOK /\ PaidInv /\ [Next]_vars => (TypeOK /\ PaidInv)'
    BY ChatTypedStep, PaidStep
  <1> QED
    BY <1>1, <1>2, PaidEnough, PTL DEF Spec

-----------------------------------------------------------------------------
(* Nothing that was shown is asked for again *)

ShownInv == \A t \in Turns : shown[t] > 0 => askPc[t] \in {"stream", "save", "done", "over"}

LEMMA ShownInit == Init => ShownInv
  BY DEF Init, ShownInv

LEMMA ShownStep == TypeOK /\ ShownInv /\ [Next]_vars => ShownInv'
  <1> SUFFICES ASSUME TypeOK, ShownInv, [Next]_vars PROVE ShownInv'
    OBVIOUS
  <1> USE DEF At, Goto, LeaveOpen, storedVars, turnVars, clearVars
  <1>0. askPc \in [Turns -> AskPcs] /\ shown \in [Turns -> 0 .. MaxDeltas]
    BY DEF TypeOK
  <1>1. ASSUME NEW t \in Turns, Ask(t) PROVE ShownInv'
    BY <1>0, <1>1 DEF Ask, ShownInv
  <1>2. ASSUME NEW t \in Turns, Charge(t) PROVE ShownInv'
    BY <1>0, <1>2 DEF Charge, Forget, ShownInv
  <1>3. ASSUME NEW t \in Turns, ReadChunks(t) PROVE ShownInv'
    <2>1. /\ UNCHANGED shown /\ askPc[t] = "chunks"
          /\ askPc' \in {[askPc EXCEPT ![t] = "over"], [askPc EXCEPT ![t] = "history"]}
      BY <1>3 DEF ReadChunks, Forget
    <2> QED
      BY <1>0, <2>1 DEF ShownInv
  <1>4. ASSUME NEW t \in Turns, ReadHistory(t) PROVE ShownInv'
    BY <1>0, <1>4 DEF ReadHistory, ShownInv
  <1>5. ASSUME NEW t \in Turns, OpenStub(t) PROVE ShownInv'
    BY <1>0, <1>5 DEF OpenStub, ShownInv
  <1>6. ASSUME NEW t \in Turns, Open(t) PROVE ShownInv'
    BY <1>0, <1>6 DEF Open, ShownInv
  <1>7. ASSUME NEW t \in Turns, Delta(t) PROVE ShownInv'
    BY <1>0, <1>7 DEF Delta, ShownInv
  <1>8. ASSUME NEW t \in Turns, StreamEnds(t) PROVE ShownInv'
    BY <1>0, <1>8 DEF StreamEnds, ShownInv
  <1>9. ASSUME NEW t \in Turns, Save(t) PROVE ShownInv'
    <2>1. /\ UNCHANGED shown /\ askPc[t] = "save"
          /\ (UNCHANGED askPc \/ askPc' = [askPc EXCEPT ![t] = "done"])
      BY <1>9 DEF Save
    <2> QED
      BY <1>0, <2>1 DEF ShownInv
  <1>10. ASSUME NEW t \in Turns, Done(t) PROVE ShownInv'
    BY <1>0, <1>10 DEF Done, ShownInv
  <1>11. ASSUME NEW t \in Turns, AskCrash(t) PROVE ShownInv'
    BY <1>0, <1>11 DEF AskCrash, ShownInv
  <1>12. CASE Clear
    BY <1>12 DEF Clear, ClearBegin, ClearDelete, ShownInv
  <1>13. CASE BookChanges
    BY <1>13 DEF BookChanges, ShownInv
  <1>14. CASE UNCHANGED vars
    BY <1>14 DEF vars, ShownInv
  <1> QED
    BY <1>1, <1>2, <1>3, <1>4, <1>5, <1>6, <1>7, <1>8, <1>9, <1>10, <1>11, <1>12, <1>13, <1>14
       DEF Next, Question

\* Only a question that waits for its first piece of text sends a request.
LEMMA RequestsBeforeText ==
  ASSUME TypeOK, ShownInv, Next, NEW t \in Turns, shown[t] > 0
  PROVE  requests'[t] = requests[t]
  <1> USE DEF storedVars, turnVars, clearVars
  <1>1. ASSUME NEW s \in Turns, Open(s) PROVE requests'[t] = requests[t]
    <2>1. s # t /\ requests' = [requests EXCEPT ![s] = @ + 1]
      BY <1>1 DEF Open, At, ShownInv
    <2> QED
      BY <2>1 DEF TypeOK
  <1>2. ASSUME NEW s \in Turns, Question(s), ~Open(s) PROVE UNCHANGED requests
    BY <1>2 DEF Question, Ask, Charge, ReadChunks, ReadHistory, OpenStub, Delta, StreamEnds,
                Save, Done, AskCrash
  <1>3. CASE Clear
    BY <1>3 DEF Clear, ClearBegin, ClearDelete
  <1>4. CASE BookChanges
    BY <1>4 DEF BookChanges
  <1> QED
    BY <1>1, <1>2, <1>3, <1>4 DEF Next

\* Once a piece of the answer was shown, no further request is made for it:
\* no retry can start a text over that the reader has begun to read.
THEOREM ShownIsFinal == Spec => NoReplay
  <1>1. Init => TypeOK /\ ShownInv
    BY ChatTyped, ShownInit
  <1>2. TypeOK /\ ShownInv /\ [Next]_vars => (TypeOK /\ ShownInv)'
    BY ChatTypedStep, ShownStep
  <1>3. TypeOK /\ ShownInv /\ [Next]_vars
          => [\A t \in Turns : shown[t] > 0 => requests'[t] = requests[t]]_vars
    BY RequestsBeforeText
  <1> QED
    BY <1>1, <1>2, <1>3, PTL DEF Spec, NoReplay

-----------------------------------------------------------------------------
(* A turn that is done is stored *)

SavedInv ==
  /\ \A t \in told : askPc[t] = "over"
  /\ \A t \in Turns : t \in told \/ askPc[t] = "done" =>
       (shown[t] > 0 => TurnMessages(t) \subseteq transcript \cup wiped)

LEMMA SavedInit == Init => SavedInv
  BY DEF Init, SavedInv

\* A step that tells nobody, saves nothing and takes nothing away.
LEMMA SavedSame ==
  ASSUME SavedInv, UNCHANGED <<told, shown>>,
         transcript \cup wiped \subseteq transcript' \cup wiped',
         \A t \in Turns : askPc'[t] = "done" => askPc[t] = "done",
         \A t \in told : askPc'[t] = "over"
  PROVE  SavedInv'
  BY DEF SavedInv, TurnMessages

LEMMA SavedStep == TypeOK /\ SavedInv /\ [Next]_vars => SavedInv'
  <1> SUFFICES ASSUME TypeOK, SavedInv, [Next]_vars PROVE SavedInv'
    OBVIOUS
  <1> USE DEF At, Goto, LeaveOpen, storedVars, turnVars, clearVars
  <1>0. /\ askPc \in [Turns -> AskPcs] /\ shown \in [Turns -> 0 .. MaxDeltas] /\ told \subseteq Turns
        /\ \A t \in told : askPc[t] = "over"
    BY DEF TypeOK, SavedInv
  <1>1. ASSUME NEW t \in Turns, Ask(t) PROVE SavedInv'
    BY <1>0, <1>1, SavedSame DEF Ask
  <1>2. ASSUME NEW t \in Turns, Charge(t) PROVE SavedInv'
    BY <1>0, <1>2, SavedSame DEF Charge, Forget
  <1>3. ASSUME NEW t \in Turns, ReadChunks(t) PROVE SavedInv'
    <2>1. /\ UNCHANGED <<told, shown, transcript, wiped>> /\ askPc[t] = "chunks"
          /\ askPc' \in {[askPc EXCEPT ![t] = "over"], [askPc EXCEPT ![t] = "history"]}
      BY <1>3 DEF ReadChunks, Forget
    <2> QED
      BY <1>0, <2>1, SavedSame
  <1>4. ASSUME NEW t \in Turns, ReadHistory(t) PROVE SavedInv'
    BY <1>0, <1>4, SavedSame DEF ReadHistory
  <1>5. ASSUME NEW t \in Turns, OpenStub(t) PROVE SavedInv'
    BY <1>0, <1>5, SavedSame DEF OpenStub
  <1>6. ASSUME NEW t \in Turns, Open(t) PROVE SavedInv'
    BY <1>0, <1>6, SavedSame DEF Open
  <1>7. ASSUME NEW t \in Turns, Delta(t) PROVE SavedInv'
    <2>1. /\ askPc[t] = "stream" /\ UNCHANGED <<told, askPc, transcript, wiped>>
          /\ \A s \in Turns : s # t => shown'[s] = shown[s]
      BY <1>7 DEF Delta, TypeOK
    <2>2. t \notin told
      BY <1>0, <2>1
    <2> QED
      BY <2>1, <2>2 DEF SavedInv, TurnMessages
  <1>8. ASSUME NEW t \in Turns, StreamEnds(t) PROVE SavedInv'
    BY <1>0, <1>8, SavedSame DEF StreamEnds
  <1>9. ASSUME NEW t \in Turns, Save(t) PROVE SavedInv'
    <2> DEFINE missing == IF shown[t] = 0 THEN {} ELSE TurnMessages(t) \ (transcript \cup wiped)
    <2>1. askPc[t] = "save" /\ UNCHANGED <<told, shown, wiped>>
      BY <1>9 DEF Save
    <2>2. CASE missing = {}
      <3>1. UNCHANGED transcript /\ askPc' = [askPc EXCEPT ![t] = "done"]
        BY <1>9, <2>2 DEF Save
      <3>2. shown[t] > 0 => TurnMessages(t) \subseteq transcript \cup wiped
        BY <1>0, <2>2
      <3>3. t \notin told
        BY <1>0, <2>1
      <3> QED
        BY <1>0, <2>1, <3>1, <3>2, <3>3 DEF SavedInv, TurnMessages
    <2>3. CASE missing # {}
      <3>1. UNCHANGED askPc /\ transcript \subseteq transcript'
        BY <1>9, <2>3 DEF Save
      <3> QED
        BY <1>0, <2>1, <3>1, SavedSame
    <2> QED
      BY <2>2, <2>3
  <1>10. ASSUME NEW t \in Turns, Done(t) PROVE SavedInv'
    <2>1. /\ askPc[t] = "done" /\ told' = told \cup {t} /\ askPc' = [askPc EXCEPT ![t] = "over"]
          /\ UNCHANGED <<shown, transcript, wiped>>
      BY <1>10 DEF Done
    <2> QED
      BY <1>0, <2>1 DEF SavedInv, TurnMessages
  <1>11. ASSUME NEW t \in Turns, AskCrash(t) PROVE SavedInv'
    BY <1>0, <1>11, SavedSame DEF AskCrash
  <1>12. CASE Clear
    BY <1>0, <1>12, SavedSame DEF Clear, ClearBegin, ClearDelete
  <1>13. CASE BookChanges
    BY <1>0, <1>13, SavedSame DEF BookChanges
  <1>14. CASE UNCHANGED vars
    BY <1>0, <1>14, SavedSame DEF vars
  <1> QED
    BY <1>1, <1>2, <1>3, <1>4, <1>5, <1>6, <1>7, <1>8, <1>9, <1>10, <1>11, <1>12, <1>13, <1>14
       DEF Next, Question

\* A client that received the done frame finds question and answer in the
\* transcript, or a clear has deleted them since.
THEOREM ToldIsSaved == Spec => []DoneMeansSaved
  <1>1. Init => TypeOK /\ SavedInv
    BY ChatTyped, SavedInit
  <1>2. TypeOK /\ SavedInv /\ [Next]_vars => (TypeOK /\ SavedInv)'
    BY ChatTypedStep, SavedStep
  <1>3. TypeOK /\ SavedInv => DoneMeansSaved
    BY DEF SavedInv, DoneMeansSaved, TypeOK
  <1> QED
    BY <1>1, <1>2, <1>3, PTL DEF Spec
-----------------------------------------------------------------------------
(* The window *)

\* The text of a window has a length.
LEMMA TextTyped ==
  ASSUME NEW w, IsFiniteSet(w), NEW lengths, \A c \in w : lengths[c] \in Nat
  PROVE  TextOf(w, lengths) \in Nat
  <1> DEFINE pick == [s \in SUBSET w |-> CHOOSE c \in s : TRUE]
             Add == [p \in w \X Nat |-> p[2] + lengths[p[1]]]
             Sum(sum) == sum = [s \in SUBSET w |->
                IF s = {} THEN 0
                ELSE LET c == CHOOSE c \in s : TRUE IN sum[s \ {c}] + lengths[c]]
             total == CHOOSE sum : Sum(sum)
             Good == {s \in SUBSET w : total[s] \in Nat}
  <1>1. \A s \in SUBSET w : pick[s] = (CHOOSE c \in s : TRUE) /\ (s # {} => pick[s] \in s)
    OBVIOUS
  <1>2. /\ Add \in [w \X Nat -> Nat]
        /\ \A c \in w, n \in Nat : Add[<<c, n>>] = n + lengths[c]
    OBVIOUS
  <1> HIDE DEF Add, pick
  <1>3. PICK iter \in [SUBSET w -> Nat] :
          Folds(iter, w, 0, pick, Add)
    <2>1. Picks(pick, w) /\ 0 \in Nat
      BY <1>1 DEF Picks
    <2> QED
      BY <1>2, <2>1, FoldOverSets
  <1>4. ASSUME NEW s \in SUBSET w, s # {}
        PROVE  iter[s] = iter[s \ {pick[s]}] + lengths[pick[s]]
    <2>1. pick[s] \in w /\ iter[s \ {pick[s]}] \in Nat
      BY <1>1, <1>4
    <2> QED
      BY <1>2, <1>3, <1>4, <2>1 DEF Folds
  <1>5. Sum(iter)
    BY <1>1, <1>3, <1>4 DEF Folds
  <1>6. Sum(total)
    BY <1>5
  <1>7. TextOf(w, lengths) = total[w]
    BY DEF TextOf, FoldSet, MapThenFoldSet
  <1> HIDE DEF total
  <1>8. \A s \in SUBSET w : total[s] = IF s = {} THEN 0 ELSE total[s \ {pick[s]}] + lengths[pick[s]]
    BY <1>1, <1>6
  <1>9. {} \in Good /\ \A s \in SUBSET w : s # {} /\ (\A c \in s : s \ {c} \in Good) => s \in Good
    <2>1. total[{}] = 0
      BY <1>8
    <2>2. ASSUME NEW s \in SUBSET w, s # {}, \A c \in s : s \ {c} \in Good PROVE s \in Good
      <3>1. total[s] = total[s \ {pick[s]}] + lengths[pick[s]]
        BY <1>8, <2>2
      <3>2. total[s \ {pick[s]}] \in Nat /\ lengths[pick[s]] \in Nat
        BY <1>1, <2>2
      <3> QED
        BY <3>1, <3>2
    <2> QED
      BY <2>1, <2>2
  <1> HIDE DEF Good
  <1>10. SUBSET w \subseteq Good
    BY <1>9, SubsetInductionIn
  <1> QED
    BY <1>7, <1>10 DEF Good

\* The chunks of W that are dropped before c.
Ahead(W, anchor, c) == {d \in W : DroppedBefore(d, c, anchor)}

\* Dropping is in an order: of two chunks one goes first.
LEMMA DroppedInOrder ==
  ASSUME NEW c \in Int, NEW d \in Int, NEW e \in Int, NEW anchor \in Int
  PROVE  /\ ~DroppedBefore(c, c, anchor)
         /\ DroppedBefore(c, d, anchor) /\ DroppedBefore(d, e, anchor) => DroppedBefore(c, e, anchor)
         /\ c # d => DroppedBefore(c, d, anchor) \/ DroppedBefore(d, c, anchor)
         /\ c # anchor => DroppedBefore(c, anchor, anchor)
         /\ Apart(d, anchor) < Apart(c, anchor) => DroppedBefore(c, d, anchor)
  BY DEF DroppedBefore, Apart

\* So the counts of what goes before each chunk are all different.
LEMMA AheadGrows ==
  ASSUME NEW W, W \subseteq Int, IsFiniteSet(W), NEW anchor \in Int,
         NEW c \in W, NEW d \in W, DroppedBefore(c, d, anchor)
  PROVE  /\ Cardinality(Ahead(W, anchor, c)) \in Nat /\ Cardinality(Ahead(W, anchor, d)) \in Nat
         /\ Cardinality(Ahead(W, anchor, c)) < Cardinality(Ahead(W, anchor, d))
  <1>1. IsFiniteSet(Ahead(W, anchor, c)) /\ IsFiniteSet(Ahead(W, anchor, d))
    BY FS_Subset DEF Ahead
  <1>2. Ahead(W, anchor, c) \subseteq Ahead(W, anchor, d)
    BY DroppedInOrder DEF Ahead
  <1>3. c \in Ahead(W, anchor, d) /\ c \notin Ahead(W, anchor, c)
    BY DroppedInOrder DEF Ahead
  <1>4. /\ Cardinality(Ahead(W, anchor, c)) \in Nat /\ Cardinality(Ahead(W, anchor, d)) \in Nat
        /\ Cardinality(Ahead(W, anchor, c)) <= Cardinality(Ahead(W, anchor, d))
        /\ Cardinality(Ahead(W, anchor, c)) # Cardinality(Ahead(W, anchor, d))
    BY <1>1, <1>2, <1>3, FS_CardinalityType, FS_Subset
  <1> QED
    BY <1>4

\* What trimming leaves of a window: it is trimmed as far as it has to be and
\* no farther, from the outside, and never of its anchor.
LEMMA TrimmedWindow ==
  ASSUME NEW W, W \subseteq Int, IsFiniteSet(W), NEW anchor \in W, NEW lengths
  PROVE  LET w == Trimmed(W, anchor, lengths) IN
         /\ anchor \in w /\ w \subseteq W
         /\ \A c \in w, d \in W : Apart(d, anchor) < Apart(c, anchor) => d \in w
         /\ TextOf(w, lengths) <= MAX_CONTEXT_CHARS \/ w = {anchor}
         /\ \A c \in W \ w : (\A d \in W \ w : d = c \/ DroppedBefore(d, c, anchor))
              => ~(TextOf(w \cup {c}, lengths) <= MAX_CONTEXT_CHARS)
  <1> DEFINE rank == [c \in W |-> Cardinality(Ahead(W, anchor, c))]
             Fits(k) == \/ TextOf(Kept(W, anchor, k), lengths) <= MAX_CONTEXT_CHARS
                        \/ Cardinality(Kept(W, anchor, k)) <= 1
             enough == {k \in 0 .. Cardinality(W) : Fits(k)}
             least == CHOOSE k \in enough : \A j \in enough : k <= j
             last == Cardinality(W) - 1
  <1>1. \A k, c : c \in Kept(W, anchor, k) <=> c \in W /\ rank[c] >= k
    BY DEF Kept, Ahead
  <1>2. Trimmed(W, anchor, lengths) = Kept(W, anchor, least)
    BY DEF Trimmed
  <1>3. \A c \in W : rank[c] \in Nat /\ rank[c] <= last
    <2> SUFFICES ASSUME NEW c \in W PROVE rank[c] \in Nat /\ rank[c] <= last
      OBVIOUS
    <2>1. Ahead(W, anchor, c) \subseteq W \ {c} /\ anchor \in Int
      BY DroppedInOrder DEF Ahead
    <2>2. IsFiniteSet(W \ {c}) /\ Cardinality(W \ {c}) = last
      BY FS_RemoveElement
    <2> QED
      BY <2>1, <2>2, FS_Subset, FS_CardinalityType
  <1>4. \A c, d \in W : DroppedBefore(c, d, anchor) => rank[c] < rank[d]
    BY AheadGrows
  <1>5. rank[anchor] = last /\ last \in Nat /\ Cardinality(W) = last + 1
    <2>1. Ahead(W, anchor, anchor) = W \ {anchor}
      BY DroppedInOrder DEF Ahead
    <2>2. Cardinality(W \ {anchor}) = last /\ Cardinality(W) \in Nat
      BY FS_RemoveElement, FS_CardinalityType
    <2> QED
      BY <1>3, <2>1, <2>2
  <1> HIDE DEF rank, last
  <1>6. last \in enough
    <2>1. Kept(W, anchor, last) = {anchor}
      <3>1. ASSUME NEW c \in W, c # anchor PROVE ~(rank[c] >= last)
        <4>1. rank[c] < rank[anchor]
          BY <1>4, <3>1, DroppedInOrder
        <4> QED
          BY <1>3, <1>5, <4>1
      <3>2. rank[anchor] >= last
        BY <1>5
      <3>3. \A c : c \in Kept(W, anchor, last) <=> c \in W /\ rank[c] >= last
        BY <1>1
      <3> QED
        BY <3>1, <3>2, <3>3
    <2>2. Cardinality(Kept(W, anchor, last)) <= 1
      BY <2>1, FS_Singleton
    <2> QED
      BY <1>5, <2>2
  <1> HIDE DEF Fits
  <1>7. /\ least \in Nat /\ Fits(least) /\ least <= last
        /\ \A k \in Nat : k < least => ~Fits(k)
    <2>1. enough \subseteq Nat
      BY <1>5
    <2>2. \E k \in enough : \A j \in enough : k <= j
      BY <1>6, <2>1, LeastNatural
    <2>3. least \in enough /\ \A j \in enough : least <= j
      BY <2>2
    <2> HIDE DEF least
    <2> QED
      BY <1>5, <1>6, <2>1, <2>3
  <1> HIDE DEF least, enough
  <1> DEFINE w == Kept(W, anchor, least)
  <1>8. \A c : c \in w <=> c \in W /\ rank[c] >= least
    BY <1>1
  <1>14. least \in Nat /\ \A c \in W : rank[c] \in Nat
    BY <1>3, <1>7
  <1> HIDE DEF w
  <1>9. anchor \in w /\ w \subseteq W
    BY <1>5, <1>7, <1>8
  <1>10. ASSUME NEW c \in w, NEW d \in W, Apart(d, anchor) < Apart(c, anchor) PROVE d \in w
    <2>1. rank[c] < rank[d]
      BY <1>4, <1>9, <1>10, DroppedInOrder
    <2>2. c \in W /\ rank[c] >= least
      BY <1>8, <1>10
    <2>3. rank[d] >= least
      BY <1>14, <2>1, <2>2
    <2> QED
      BY <1>8, <2>3
  <1>11. TextOf(w, lengths) <= MAX_CONTEXT_CHARS \/ w = {anchor}
    <2>1. CASE Cardinality(w) <= 1
      <3>1. IsFiniteSet(w) /\ w # {} /\ Cardinality(w) \in Nat
        BY <1>9, FS_Subset, FS_CardinalityType
      <3>2. Cardinality(w) = 1
        BY <2>1, <3>1, FS_EmptySet
      <3>3. \E c : w = {c}
        BY <3>1, <3>2, FS_Singleton
      <3> QED
        BY <1>9, <3>3
    <2> QED
      BY <1>7, <2>1 DEF Fits, w
  <1>12. ASSUME NEW c \in W \ w, \A d \in W \ w : d = c \/ DroppedBefore(d, c, anchor)
         PROVE  ~(TextOf(w \cup {c}, lengths) <= MAX_CONTEXT_CHARS)
    <2>1. least - 1 \in Nat /\ rank[c] < least
      BY <1>3, <1>7, <1>8
    <2>2. ~Fits(least - 1)
      BY <1>7, <2>1
    <2>3. Kept(W, anchor, least - 1) # w
      BY <1>7, <2>2 DEF Fits, w
    <2>4. PICK d \in W : rank[d] = least - 1 /\ d \notin w
      <3>1. PICK d : d \in w <=> d \notin Kept(W, anchor, least - 1)
        BY <2>3
      <3>2. d \in W /\ rank[d] \in Nat /\ rank[d] >= least - 1 /\ ~(rank[d] >= least)
        <4>1. d \in Kept(W, anchor, least - 1) <=> d \in W /\ rank[d] >= least - 1
          BY <1>1
        <4>2. d \in w <=> d \in W /\ rank[d] >= least
          BY <1>8
        <4>3. d \in W
          BY <3>1, <4>1, <4>2
        <4>4. rank[d] \in Nat /\ least \in Nat
          BY <1>14, <4>3
        <4> QED
          BY <3>1, <4>1, <4>2, <4>3, <4>4
      <3> QED
        BY <1>7, <1>8, <2>1, <3>2
    <2>5. d = c
      <3>1. CASE d # c
        <4>1. rank[d] < rank[c]
          BY <1>4, <1>12, <2>4, <3>1
        <4> QED
          BY <1>3, <1>7, <2>1, <2>4, <4>1
      <3> QED
        BY <3>1
    <2>6. Kept(W, anchor, least - 1) = w \cup {c}
      <3>1. ASSUME NEW e \in W PROVE rank[e] >= least - 1 <=> e \in w \cup {c}
        <4>1. CASE e = c
          BY <2>1, <2>4, <2>5, <4>1
        <4>2. CASE e # c /\ e \notin w
          <5>1. rank[e] < rank[c]
            BY <1>4, <1>12, <4>2
          <5> QED
            BY <1>3, <1>7, <2>4, <2>5, <4>2, <5>1
        <4>3. CASE e \in w
          BY <1>3, <1>7, <1>8, <4>3
        <4> QED
          BY <4>1, <4>2, <4>3
      <3>2. \A e : e \in Kept(W, anchor, least - 1) <=> e \in w \cup {c}
        BY <1>1, <1>8, <3>1
      <3> QED
        BY <3>2
    <2> QED
      BY <2>2, <2>6 DEF Fits
  <1>13. Trimmed(W, anchor, lengths) = w
    BY <1>2 DEF w
  <1> QED
    BY <1>9, <1>10, <1>11, <1>12, <1>13

\* In a list of all chunks each is at the place of its index.
LEMMA PositionIsIndex == ASSUME NEW c \in Chunks PROVE Position(c, Chunks) = c
  <1>1. {d \in Chunks : d < c} = 0 .. c - 1
    BY ChatAssumption DEF Chunks
  <1>2. Cardinality(0 .. c - 1) = c
    BY FS_Interval DEF Chunks
  <1> QED
    BY <1>1, <1>2 DEF Position

\* A window that was cut out of all chunks, and what was known when it was.
CutOut(t) ==
  context[t].rows = Chunks =>
    /\ context[t].anchor \in Chunks
    /\ context[t].lengths \in [Chunks -> Nat]
    /\ context[t].window = Window(Chunks, context[t].anchor, context[t].lengths)
WindowInv == DOMAIN context = Turns /\ \A t \in Turns : CutOut(t)

LEMMA NoContextHasNoRows == NoContext.rows # Chunks
  <1>1. 0 \in Chunks
    BY ChatAssumption DEF Chunks
  <1> QED
    BY <1>1 DEF NoContext

LEMMA WindowInit == Init => WindowInv
  BY NoContextHasNoRows DEF Init, WindowInv, CutOut

\* A context that comes is without rows, or has what was read of them.
LEMMA WindowSet ==
  ASSUME WindowInv, NEW t \in Turns, NEW new, context' = [context EXCEPT ![t] = new],
         new.rows = Chunks =>
           /\ new.anchor \in Chunks /\ new.lengths \in [Chunks -> Nat]
           /\ new.window = Window(Chunks, new.anchor, new.lengths)
  PROVE  WindowInv'
  <1>1. DOMAIN context' = Turns
    BY DEF WindowInv
  <1>2. ASSUME NEW s \in Turns PROVE CutOut(s)'
    <2>1. context'[s] = IF s = t THEN new ELSE context[s]
      BY DEF WindowInv
    <2> QED
      BY <2>1 DEF WindowInv, CutOut
  <1> QED
    BY <1>1, <1>2 DEF WindowInv

LEMMA WindowStep == WindowInv /\ [Next]_vars => WindowInv'
  <1> SUFFICES ASSUME WindowInv, [Next]_vars PROVE WindowInv'
    OBVIOUS
  <1>1. ASSUME UNCHANGED context PROVE WindowInv'
    BY <1>1 DEF WindowInv, CutOut
  <1>2. ASSUME NEW t \in Turns, LeaveOpen(t, "stream") \/ LeaveOpen(t, "save") \/ LeaveOpen(t, "over")
        PROVE  WindowInv'
    <2>1. context' = [context EXCEPT ![t] = NoContext]
      BY <1>2 DEF LeaveOpen
    <2> QED
      BY <2>1, NoContextHasNoRows, WindowSet
  <1>3. ASSUME NEW t \in Turns, ReadChunks(t) PROVE WindowInv'
    <2>1. PICK rows \in RowsLeft :
            IF rows = {} THEN UNCHANGED context
            ELSE \E sent \in Anchors, lengths \in [Chunks -> Lengths] :
                   context' = [context EXCEPT ![t] =
                     [NoContext EXCEPT !.anchor = Clamped(sent, Cardinality(rows)), !.rows = rows,
                                       !.lengths = lengths,
                                       !.window = Window(rows, Clamped(sent, Cardinality(rows)), lengths)]]
      BY <1>3 DEF ReadChunks
    <2>2. CASE rows = {}
      BY <1>1, <2>1, <2>2
    <2>3. CASE rows # {}
      <3>1. PICK sent \in Anchors, lengths \in [Chunks -> Lengths] :
              context' = [context EXCEPT ![t] =
                [NoContext EXCEPT !.anchor = Clamped(sent, Cardinality(rows)), !.rows = rows,
                                  !.lengths = lengths,
                                  !.window = Window(rows, Clamped(sent, Cardinality(rows)), lengths)]]
        BY <2>1, <2>3
      <3> DEFINE new == [NoContext EXCEPT !.anchor = Clamped(sent, Cardinality(rows)), !.rows = rows,
                           !.lengths = lengths,
                           !.window = Window(rows, Clamped(sent, Cardinality(rows)), lengths)]
      <3>2. /\ new.rows = rows /\ new.anchor = Clamped(sent, Cardinality(rows)) /\ new.lengths = lengths
            /\ new.window = Window(rows, Clamped(sent, Cardinality(rows)), lengths)
        BY DEF NoContext
      <3>3. Cardinality(Chunks) = NumChunks
        BY ChatAssumption, FS_Interval DEF Chunks
      <3>4. Clamped(sent, NumChunks) \in Chunks
        BY ChatAssumption DEF Clamped, Chunks
      <3>5. lengths \in [Chunks -> Nat]
        BY ChatAssumption
      <3> HIDE DEF new
      <3>6. context' = [context EXCEPT ![t] = new]
        BY <3>1 DEF new
      <3> QED
        BY <3>2, <3>3, <3>4, <3>5, <3>6, WindowSet
    <2> QED
      BY <2>2, <2>3
  <1>4. ASSUME NEW t \in Turns, ReadHistory(t) PROVE WindowInv'
    <2> DEFINE new == [NoContext EXCEPT !.anchored = context[t].anchor \in context[t].window,
                                        !.prompt = Prompt(ListMessages)]
    <2>1. context' = [context EXCEPT ![t] = new] /\ new.rows = NoContext.rows
      BY <1>4 DEF ReadHistory, NoContext
    <2> HIDE DEF new
    <2> QED
      BY <2>1, NoContextHasNoRows, WindowSet
  <1>5. ASSUME NEW t \in Turns, OpenStub(t) \/ Open(t) \/ AskCrash(t) PROVE WindowInv'
    <2>1. \/ LeaveOpen(t, "stream") \/ LeaveOpen(t, "save") \/ LeaveOpen(t, "over")
          \/ UNCHANGED context
      BY <1>5 DEF OpenStub, Open, AskCrash
    <2> QED
      BY <1>1, <1>2, <2>1
  <1>6. ASSUME NEW t \in Turns,
               Ask(t) \/ Charge(t) \/ Delta(t) \/ StreamEnds(t) \/ Save(t) \/ Done(t)
        PROVE  WindowInv'
    BY <1>1, <1>6 DEF Ask, Charge, Delta, StreamEnds, Save, Done, turnVars
  <1>7. CASE Clear \/ BookChanges \/ UNCHANGED vars
    BY <1>1, <1>7 DEF Clear, ClearBegin, ClearDelete, BookChanges, vars, turnVars
  <1> QED
    BY <1>3, <1>4, <1>5, <1>6, <1>7 DEF Next, Question

\* However long the book, its chunks and the ceiling: the window that a
\* question is put with is cut around the anchor and trimmed from the outside,
\* as far as it has to be and no farther.
THEOREM WindowsFit == Spec => []WindowFits
  <1>1. Init => WindowInv
    BY WindowInit
  <1>2. WindowInv /\ [Next]_vars => WindowInv'
    BY WindowStep
  <1>3. ASSUME WindowInv PROVE WindowFits
    <2> SUFFICES ASSUME NEW t \in Turns, context[t].rows = Chunks
                 PROVE  LET w == context[t].window
                            a == context[t].anchor
                            near == {c \in Chunks : Apart(c, a) <= CONTEXT_NEIGHBOURS}
                        IN /\ a \in w /\ w \subseteq near
                           /\ \A c \in w : \A d \in Chunks : (c < d /\ d < a) \/ (a < d /\ d < c) => d \in w
                           /\ TextOf(w, context[t].lengths) <= MAX_CONTEXT_CHARS \/ w = {a}
                           /\ \A c \in near \ w :
                                (\A d \in near \ w : d = c \/ DroppedBefore(d, c, a))
                                  => TextOf(w \cup {c}, context[t].lengths) > MAX_CONTEXT_CHARS
      BY DEF WindowFits
    <2> DEFINE a == context[t].anchor
               near == {c \in Chunks : Apart(c, a) <= CONTEXT_NEIGHBOURS}
               lengths == context[t].lengths
               w == Trimmed(near, a, lengths)
    <2>1. a \in Chunks /\ context[t].lengths \in [Chunks -> Nat]
      BY <1>3 DEF WindowInv, CutOut
    <2>2. context[t].window = w
      <3>1. context[t].window = Window(Chunks, a, context[t].lengths)
        BY <1>3 DEF WindowInv, CutOut
      <3>2. {c \in Chunks : Apart(Position(c, Chunks), a) <= CONTEXT_NEIGHBOURS} = near
        BY PositionIsIndex
      <3> QED
        BY <3>1, <3>2 DEF Window
    <2>3. near \subseteq Int /\ near \subseteq Chunks /\ IsFiniteSet(Chunks) /\ IsFiniteSet(near) /\ a \in near
      <3>1. IsFiniteSet(Chunks) /\ Chunks \subseteq Int
        BY ChatAssumption, FS_Interval DEF Chunks
      <3>2. Apart(a, a) = 0
        <4>1. a \in Int
          BY <2>1, <3>1
        <4> HIDE DEF a
        <4> QED
          BY <4>1 DEF Apart
      <3>3. Apart(a, a) <= CONTEXT_NEIGHBOURS
        BY <3>2, ContextAssumption
      <3> QED
        BY <2>1, <3>1, <3>3, FS_Subset
    <2> HIDE DEF a, near, lengths
    <2>4. /\ a \in w /\ w \subseteq near
          /\ \A c \in w, d \in near : Apart(d, a) < Apart(c, a) => d \in w
          /\ TextOf(w, lengths) <= MAX_CONTEXT_CHARS \/ w = {a}
          /\ \A c \in near \ w : (\A d \in near \ w : d = c \/ DroppedBefore(d, c, a))
               => ~(TextOf(w \cup {c}, lengths) <= MAX_CONTEXT_CHARS)
      BY <2>3, TrimmedWindow
    <2> HIDE DEF w
    <2>5. ASSUME NEW c \in w, NEW d \in Chunks, (c < d /\ d < a) \/ (a < d /\ d < c) PROVE d \in w
      <3>1. c \in Int /\ d \in Int /\ a \in Int /\ Apart(c, a) <= CONTEXT_NEIGHBOURS
        BY <2>1, <2>4 DEF Chunks, near
      <3>2. Apart(d, a) < Apart(c, a) /\ Apart(d, a) \in Int /\ Apart(c, a) \in Int
        BY <2>5, <3>1 DEF Apart
      <3>3. d \in near
        BY <3>1, <3>2, ContextAssumption DEF near
      <3> QED
        BY <2>4, <3>2, <3>3
    <2>6. ASSUME NEW c \in near PROVE TextOf(w \cup {c}, lengths) \in Nat
      <3>1. w \cup {c} \subseteq Chunks
        BY <2>3, <2>4
      <3>2. IsFiniteSet(w \cup {c})
        BY <2>3, <3>1, FS_Subset
      <3> QED
        BY <2>1, <3>1, <3>2, TextTyped DEF lengths
    <2>7. ASSUME NEW c \in near \ w, \A d \in near \ w : d = c \/ DroppedBefore(d, c, a)
          PROVE  TextOf(w \cup {c}, lengths) > MAX_CONTEXT_CHARS
      BY <2>4, <2>6, <2>7, ContextAssumption
    <2> QED
      BY <2>2, <2>4, <2>5, <2>7 DEF a, near, lengths
  <1> QED
    BY <1>1, <1>2, <1>3, PTL DEF Spec, WindowFits

-----------------------------------------------------------------------------
(* The prompt *)

Said == Seq(Messages)

\* The least of some naturals.
LEMMA LeastIsIn ==
  ASSUME NEW I, I \subseteq Nat, I # {}
  PROVE  Min(I) \in I /\ \A i \in I : Min(I) <= i
  <1>1. \E i \in I : \A j \in I : i <= j
    BY LeastNatural
  <1> QED
    BY <1>1 DEF Min

\* The greatest of some places.
LEMMA GreatestPlace ==
  ASSUME NEW n \in Nat, NEW I \in SUBSET (1 .. n), I # {}
  PROVE  Max(I) \in I /\ \A i \in I : i <= Max(I)
  <1>1. IsFiniteSet(I) /\ I \subseteq Nat
    <2>1. IsFiniteSet(1 .. n)
      BY FS_Interval
    <2>2. IsFiniteSet(I)
      BY <2>1, FS_Subset
    <2> QED
      BY <2>2
  <1>2. \E x \in I : \A y \in I : y <= x
    BY <1>1, GreatestNatural
  <1>3. \E x \in I : \A y \in I : x >= y
    BY <1>1, <1>2
  <1>4. Max(I) \in I /\ \A y \in I : Max(I) >= y
    BY <1>3 DEF Max
  <1> QED
    BY <1>1, <1>4

\* What is left of a list from its first question on.
LEMMA FromQuestionIs ==
  ASSUME NEW h \in Said
  PROVE  /\ FromQuestion(h) \in Said
         /\ FromQuestion(h) # <<>> =>
              /\ h # <<>> /\ FromQuestion(h)[1].role = "user"
              /\ FromQuestion(h)[Len(FromQuestion(h))] = h[Len(h)]
         /\ h # <<>> /\ h[1].role = "user" => FromQuestion(h) = h
  <1> DEFINE I == {i \in 1 .. Len(h) : h[i].role = "user"}
             first == IF I # {} THEN Min(I) ELSE 0
  <1>1. FromQuestion(h) = IF first = 0 THEN <<>> ELSE SubSeq(h, first, Len(h))
    BY DEF FromQuestion, SelectInSubSeq
  <1>2. Len(h) \in Nat /\ I \subseteq Nat /\ h \in Seq(Messages)
    BY DEF Said
  <1>3. CASE I = {}
    <2>1. FromQuestion(h) = <<>>
      BY <1>1, <1>3
    <2>2. h # <<>> => 1 \in 1 .. Len(h)
      BY <1>2
    <2> QED
      BY <1>3, <2>1, <2>2 DEF Said
  <1>4. CASE I # {}
    <2>1. first \in I /\ \A i \in I : first <= i
      BY <1>2, <1>4, LeastIsIn
    <2>2. first \in 1 .. Len(h) /\ h[first].role = "user"
      BY <2>1
    <2>3. FromQuestion(h) = SubSeq(h, first, Len(h))
      <3> HIDE DEF I, first
      <3>1. first # 0
        BY <1>2, <2>2
      <3> QED
        BY <1>1, <3>1
    <2>4. 1 \in 1 .. Len(h) /\ h[1].role = "user" => first = 1
      <3>1. 1 \in 1 .. Len(h) /\ h[1].role = "user" => 1 \in I
        OBVIOUS
      <3> HIDE DEF I, first
      <3> QED
        BY <1>2, <2>1, <2>2, <3>1
    <2> HIDE DEF I, first
    <2>5. /\ SubSeq(h, first, Len(h)) \in Seq(Messages)
          /\ Len(SubSeq(h, first, Len(h))) = Len(h) - first + 1
          /\ SubSeq(h, first, Len(h))[1] = h[first]
          /\ SubSeq(h, first, Len(h))[Len(h) - first + 1] = h[Len(h)]
      BY <1>2, <2>2
    <2>6. h # <<>> /\ h[1].role = "user" => FromQuestion(h) = h
      <3>1. SubSeq(h, 1, Len(h)) = h
        BY <1>2
      <3> QED
        BY <1>2, <2>2, <2>3, <2>4, <3>1
    <2>7. h # <<>>
      BY <1>2, <2>2
    <2> QED
      BY <2>2, <2>3, <2>5, <2>6, <2>7 DEF Said
  <1> QED
    BY <1>3, <1>4

\* What is left of a list up to its last answer.
LEMMA AnsweredPartIs ==
  ASSUME NEW h \in Said
  PROVE  /\ AnsweredPart(h) \in Said
         /\ AnsweredPart(h) # <<>> => AnsweredPart(h)[Len(AnsweredPart(h))].role = "assistant"
         /\ h # <<>> /\ h[Len(h)].role = "assistant" => AnsweredPart(h) = h
  <1> DEFINE I == {i \in 1 .. Len(h) : h[i].role = "assistant"}
             last == IF I # {} THEN Max(I) ELSE 0
  <1>1. AnsweredPart(h) = SubSeq(h, 1, last)
    BY DEF AnsweredPart, SelectLastInSubSeq
  <1>2. Len(h) \in Nat /\ h \in Seq(Messages)
    BY DEF Said
  <1>3. CASE I = {}
    <2>1. AnsweredPart(h) = <<>>
      <3>1. SubSeq(h, 1, 0) = <<>>
        BY <1>2
      <3> QED
        BY <1>1, <1>3, <3>1
    <2>2. h # <<>> => Len(h) \in 1 .. Len(h)
      BY <1>2
    <2> QED
      BY <1>3, <2>1, <2>2 DEF Said
  <1>4. CASE I # {}
    <2>1. last \in I /\ \A i \in I : i <= last
      <3>1. Max(I) \in I /\ \A i \in I : i <= Max(I)
        BY <1>2, <1>4, GreatestPlace
      <3> QED
        BY <1>4, <3>1
    <2>2. last \in 1 .. Len(h) /\ h[last].role = "assistant"
      BY <2>1
    <2>3. Len(h) \in 1 .. Len(h) /\ h[Len(h)].role = "assistant" => last = Len(h)
      <3>1. Len(h) \in 1 .. Len(h) /\ h[Len(h)].role = "assistant" => Len(h) \in I
        OBVIOUS
      <3> HIDE DEF I, last
      <3> QED
        BY <1>2, <2>1, <2>2, <3>1
    <2> HIDE DEF I, last
    <2>4. /\ SubSeq(h, 1, last) \in Seq(Messages)
          /\ Len(SubSeq(h, 1, last)) = last
          /\ SubSeq(h, 1, last)[last] = h[last]
      BY <1>2, <2>2
    <2>5. h # <<>> /\ h[Len(h)].role = "assistant" => AnsweredPart(h) = h
      <3>1. SubSeq(h, 1, Len(h)) = h
        BY <1>2
      <3>2. h # <<>> => Len(h) \in 1 .. Len(h)
        BY <1>2
      <3>3. AnsweredPart(h) = SubSeq(h, 1, last)
        BY <1>1
      <3> QED
        BY <2>3, <3>1, <3>2, <3>3
    <2> QED
      BY <1>1, <2>2, <2>4, <2>5 DEF Said
  <1> QED
    BY <1>3, <1>4

\* The end of a list.
LEMMA EndOfList ==
  ASSUME NEW h \in Said, NEW from \in 1 .. Len(h)
  PROVE  /\ SubSeq(h, from, Len(h)) \in Said /\ SubSeq(h, from, Len(h)) # <<>>
         /\ SubSeq(h, from, Len(h))[1] = h[from]
         /\ SubSeq(h, from, Len(h))[Len(SubSeq(h, from, Len(h)))] = h[Len(h)]
  <1>1. Len(h) \in Nat /\ h \in Seq(Messages)
    BY DEF Said
  <1>2. Len(SubSeq(h, from, Len(h))) = Len(h) - from + 1
    BY <1>1
  <1>3. SubSeq(h, from, Len(h)) \in Seq(Messages) /\ SubSeq(h, from, Len(h)) # <<>>
    <2>1. SubSeq(h, from, Len(h)) \in Seq(Messages)
      BY <1>1
    <2>2. Len(SubSeq(h, from, Len(h))) >= 1
      BY <1>1, <1>2
    <2>3. SubSeq(h, from, Len(h)) # <<>>
      <3> SUFFICES ASSUME SubSeq(h, from, Len(h)) = <<>> PROVE FALSE
        OBVIOUS
      <3>1. Len(<<>>) = 0
        OBVIOUS
      <3> QED
        BY <2>2, <3>1
    <2> QED
      BY <2>1, <2>3
  <1>4. SubSeq(h, from, Len(h))[1] = h[from]
    BY <1>1
  <1>5. SubSeq(h, from, Len(h))[Len(h) - from + 1] = h[Len(h)]
    BY <1>1
  <1> QED
    BY <1>2, <1>3, <1>4, <1>5 DEF Said

\* Where the last turns begin in a list of n messages.
Begins(n) == IF n - 2 * MAX_HISTORY_PAIRS + 1 < 1 THEN 1 ELSE n - 2 * MAX_HISTORY_PAIRS + 1

\* A prompt begins with a question and ends with an answer; nothing is taken
\* off a list that does so itself, and has a question where its end begins.
LEMMA PromptIs ==
  ASSUME NEW h \in Said
  PROVE  /\ Prompt(h) # <<>> =>
              Prompt(h)[1].role = "user" /\ Prompt(h)[Len(Prompt(h))].role = "assistant"
         /\ h # <<>> /\ h[1].role = "user" /\ h[Len(h)].role = "assistant"
              /\ h[Begins(Len(h))].role = "user"
            => Prompt(h) = SubSeq(h, Begins(Len(h)), Len(h))
         /\ h = <<>> => Prompt(h) = <<>>
  <1> DEFINE answered == AnsweredPart(h)
             whole == FromQuestion(answered)
             end == SubSeq(whole, Begins(Len(whole)), Len(whole))
  <1>1. Prompt(h) = FromQuestion(end)
    BY DEF Prompt, Begins
  <1>2. /\ answered \in Said
        /\ answered # <<>> => answered[Len(answered)].role = "assistant"
        /\ h # <<>> /\ h[Len(h)].role = "assistant" => answered = h
    BY AnsweredPartIs
  <1> HIDE DEF answered
  <1>3. /\ whole \in Said
        /\ whole # <<>> => answered # <<>> /\ whole[Len(whole)] = answered[Len(answered)]
        /\ answered # <<>> /\ answered[1].role = "user" => whole = answered
    BY <1>2, FromQuestionIs
  <1> HIDE DEF whole
  <1>4. Len(whole) \in Nat /\ whole \in Seq(Messages)
    BY <1>3 DEF Said
  <1>5. CASE whole = <<>>
    <2>1. Len(whole) = 0
      BY <1>5
    <2>2. Begins(0) = 1
      BY ContextAssumption DEF Begins
    <2>3. end = <<>>
      BY <1>4, <2>1, <2>2
    <2>4. <<>> \in Said
      BY DEF Said
    <2>5. FromQuestion(<<>>) = <<>>
      BY <2>4, FromQuestionIs
    <2> QED
      BY <1>1, <1>2, <1>3, <1>5, <2>3, <2>5
  <1>6. CASE whole # <<>>
    <2>1. Begins(Len(whole)) \in 1 .. Len(whole)
      <3>1. Len(whole) >= 1
        BY <1>4, <1>6
      <3> QED
        BY <1>4, <3>1, ContextAssumption DEF Begins
    <2>2. /\ end \in Said /\ end # <<>> /\ end[1] = whole[Begins(Len(whole))]
          /\ end[Len(end)] = whole[Len(whole)]
      BY <1>3, <2>1, EndOfList
    <2> HIDE DEF end
    <2>3. /\ Prompt(h) # <<>> =>
               Prompt(h)[1].role = "user" /\ Prompt(h)[Len(Prompt(h))] = end[Len(end)]
          /\ end[1].role = "user" => Prompt(h) = end
      BY <1>1, <2>2, FromQuestionIs
    <2>4. h # <<>>
      <3>1. CASE h = <<>>
        <4>1. answered = <<>>
          <5>1. SubSeq(<<>>, 1, 0) = <<>> /\ Len(<<>>) = 0 /\ 1 .. 0 = {}
            OBVIOUS
          <5> QED
            BY <3>1, <5>1 DEF answered, AnsweredPart, SelectLastInSubSeq
        <4> QED
          BY <1>3, <1>6, <4>1
      <3> QED
        BY <3>1
    <2> QED
      BY <1>2, <1>3, <1>6, <2>2, <2>3, <2>4 DEF end
  <1> QED
    BY <1>5, <1>6

\* Each of some turns has two messages.
LEMMA TurnsTwice ==
  ASSUME NEW T, IsFiniteSet(T)
  PROVE  /\ IsFiniteSet([turn : T, role : Roles])
         /\ Cardinality([turn : T, role : Roles]) = 2 * Cardinality(T)
  <1> DEFINE f == [p \in T \X Roles |-> [turn |-> p[1], role |-> p[2]]]
  <1>1. IsFiniteSet(Roles) /\ Cardinality(Roles) = 2
    <2>1. IsFiniteSet({"user"}) /\ Cardinality({"user"}) = 1
      BY FS_Singleton
    <2>2. IsFiniteSet({"user"} \cup {"assistant"}) /\ Cardinality({"user"} \cup {"assistant"}) = 1 + 1
      BY <2>1, FS_AddElement
    <2>3. Roles = {"user"} \cup {"assistant"}
      BY DEF Roles
    <2> QED
      BY <2>2, <2>3
  <1>2. /\ IsFiniteSet(T \X Roles) /\ Cardinality(T) \in Nat
        /\ Cardinality(T \X Roles) = Cardinality(T) * Cardinality(Roles)
    BY <1>1, FS_Product, FS_CardinalityType
  <1>3. f \in Bijection(T \X Roles, [turn : T, role : Roles])
    <2>1. f \in [T \X Roles -> [turn : T, role : Roles]]
      OBVIOUS
    <2>2. \A p, q \in T \X Roles : f[p] = f[q] => p = q
      OBVIOUS
    <2>3. \A m \in [turn : T, role : Roles] : \E p \in T \X Roles : f[p] = m
      <3> SUFFICES ASSUME NEW m \in [turn : T, role : Roles] PROVE \E p \in T \X Roles : f[p] = m
        OBVIOUS
      <3>1. <<m.turn, m.role>> \in T \X Roles /\ f[<<m.turn, m.role>>] = m
        OBVIOUS
      <3> QED
        BY <3>1
    <2> QED
      BY <2>1, <2>2, <2>3 DEF Bijection, Injection, Surjection, IsInjective
  <1>4. ExistsBijection(T \X Roles, [turn : T, role : Roles])
    BY <1>3 DEF ExistsBijection
  <1>5. /\ IsFiniteSet([turn : T, role : Roles])
        /\ Cardinality([turn : T, role : Roles]) = Cardinality(T \X Roles)
    BY <1>2, <1>4, FS_Bijection
  <1> QED
    BY <1>1, <1>2, <1>5

EarlierPairs == {p \in transcript \X transcript : Earlier(p[1], p[2])}

LEMMA StampTyped ==
  ASSUME TypeOK, NEW m \in transcript
  PROVE  /\ m \in Messages /\ m.turn \in Turns /\ m.turn \in Nat /\ m.role \in {"user", "assistant"}
         /\ asked[m.turn].at \in Nat /\ Stamp(m) \in Nat /\ IdOf(m) \in Int
         /\ m = [turn |-> m.turn, role |-> m.role]
  <1>1. m \in Messages /\ m.turn \in Turns /\ m.role \in {"user", "assistant"}
        /\ m = [turn |-> m.turn, role |-> m.role]
    BY DEF TypeOK, Messages, Roles
  <1>2. asked[m.turn] \in [at : Times \cup {0}, id : 0 .. 1]
    BY <1>1 DEF TypeOK
  <1>3. asked[m.turn].at \in Nat /\ asked[m.turn].id \in Int
    <2> DEFINE turn == asked[m.turn]
    <2> HIDE DEF turn
    <2>1. turn \in [at : Times \cup {0}, id : 0 .. 1]
      BY <1>2 DEF turn
    <2>2. Times \cup {0} \subseteq Nat
      BY ChatAssumption
    <2>3. turn.at \in Nat /\ turn.id \in Int
      BY <2>1, <2>2
    <2> QED
      BY <2>3 DEF turn
  <1>4. m.turn \in Nat
    BY <1>1, ChatAssumption
  <1>5. Stamp(m) \in Nat /\ IdOf(m) \in Int
    BY <1>3 DEF Stamp, IdOf
  <1> QED
    BY <1>1, <1>3, <1>4, <1>5

\* The sort keys of the messages put any two of them in one order.
LEMMA EarlierOrders ==
  ASSUME TypeOK
  PROVE  IsFiniteSet(transcript) /\ Ordering(EarlierPairs, transcript)
  <1>1. IsFiniteSet(transcript)
    <2>1. IsFiniteSet([turn : Turns, role : Roles])
      BY TurnsTwice, ChatAssumption
    <2>2. transcript \subseteq [turn : Turns, role : Roles]
      BY DEF TypeOK, Messages
    <2> QED
      BY <2>1, <2>2, FS_Subset
  <1>2. \A m, n \in transcript : <<m, n>> \in EarlierPairs <=> Earlier(m, n)
    BY DEF EarlierPairs
  <1>3. ASSUME NEW m \in transcript, NEW n \in transcript, m # n PROVE Earlier(m, n) \/ Earlier(n, m)
    <2>1. m.turn = n.turn => Stamp(m) # Stamp(n)
      BY <1>3, StampTyped DEF Stamp
    <2> QED
      BY <2>1, StampTyped DEF Earlier
  <1>4. \A m \in transcript : ~Earlier(m, m)
    BY StampTyped DEF Earlier
  <1>5. ASSUME NEW m \in transcript, NEW n \in transcript, NEW o \in transcript,
               Earlier(m, n), Earlier(n, o)
        PROVE  Earlier(m, o)
    <2>1. /\ Stamp(m) \in Nat /\ Stamp(n) \in Nat /\ Stamp(o) \in Nat
          /\ IdOf(m) \in Int /\ IdOf(n) \in Int /\ IdOf(o) \in Int
          /\ m.turn \in Nat /\ n.turn \in Nat /\ o.turn \in Nat
      BY StampTyped
    <2> QED
      BY <1>5, <2>1 DEF Earlier
  <1>6. Ordering(EarlierPairs, transcript)
    BY <1>2, <1>3, <1>4, <1>5 DEF Ordering
  <1> QED
    BY <1>1, <1>6

\* A list of messages in order is a sorted set.
LEMMA MessagesListed ==
  ASSUME TypeOK
  PROVE  /\ ListMessages \in [1 .. Cardinality(transcript) -> transcript]
         /\ Along(ListMessages, Cardinality(transcript), EarlierPairs)
  <1> DEFINE n == Cardinality(transcript)
  <1>1. IsFiniteSet(transcript) /\ Ordering(EarlierPairs, transcript)
    BY EarlierOrders
  <1>2. ListMessages = CHOOSE s \in [1 .. n -> transcript] :
                         \A i, j \in DOMAIN s : i < j => Earlier(s[i], s[j])
    BY DEF ListMessages, InOrder
  <1>3. \A s \in [1 .. n -> transcript] :
          Along(s, n, EarlierPairs) <=> \A i, j \in DOMAIN s : i < j => Earlier(s[i], s[j])
    <2> SUFFICES ASSUME NEW s \in [1 .. n -> transcript]
                 PROVE  Along(s, n, EarlierPairs) <=> \A i, j \in 1 .. n : i < j => Earlier(s[i], s[j])
      OBVIOUS
    <2>1. \A i, j \in 1 .. n : <<s[i], s[j]>> \in EarlierPairs <=> Earlier(s[i], s[j])
      BY DEF EarlierPairs
    <2> QED
      BY <2>1 DEF Along
  <1> HIDE DEF n
  <1>4. \E s \in [1 .. n -> transcript] : Along(s, n, EarlierPairs)
    BY <1>1, SortingExists DEF n
  <1>5. ListMessages \in [1 .. n -> transcript] /\ Along(ListMessages, n, EarlierPairs)
    BY <1>2, <1>3, <1>4
  <1> QED
    BY <1>5 DEF n

Stored == {m.turn : m \in transcript}
LaterTurns(t) == {s \in Stored : asked[s].at > asked[t].at}
RecentTurns == {t \in Stored : Cardinality(LaterTurns(t)) < MAX_HISTORY_PAIRS}

\* Asked apart, messages are in the order of their turns.
LEMMA EarlierFollows ==
  ASSUME TypeOK, AskedApart, NEW m \in transcript, NEW n \in transcript
  PROVE  Earlier(m, n) <=> Follows(m, n)
  <1>1. /\ asked[m.turn].at \in Nat /\ asked[n.turn].at \in Nat
        /\ m.role \in {"user", "assistant"} /\ n.role \in {"user", "assistant"}
        /\ IdOf(m) \in Int /\ IdOf(n) \in Int /\ m.turn \in Nat /\ n.turn \in Nat
    BY StampTyped
  <1>2. CASE m.turn = n.turn
    BY <1>1, <1>2 DEF Earlier, Follows, Stamp, IdOf
  <1>3. CASE m.turn # n.turn
    <2>1. Apart(asked[m.turn].at, asked[n.turn].at) > 1
      BY <1>3 DEF AskedApart
    <2>2. Stamp(m) < Stamp(n) <=> asked[m.turn].at < asked[n.turn].at
      BY <1>1, <2>1 DEF Apart, Stamp
    <2>3. Stamp(m) # Stamp(n)
      BY <1>1, <2>1 DEF Apart, Stamp
    <2> QED
      BY <1>3, <2>2, <2>3 DEF Earlier, Follows
  <1> QED
    BY <1>2, <1>3

\* Whole turns are stored with both of their messages.
LEMMA StoredWhole ==
  ASSUME TypeOK, WholeTurns
  PROVE  /\ transcript = [turn : Stored, role : Roles]
         /\ IsFiniteSet(Stored) /\ Stored \subseteq Turns
         /\ Cardinality(transcript) = 2 * Cardinality(Stored)
  <1>1. Stored \subseteq Turns
    BY StampTyped DEF Stored
  <1>2. IsFiniteSet(Stored)
    BY <1>1, ChatAssumption, FS_Subset
  <1>3. transcript = [turn : Stored, role : Roles]
    <2>1. ASSUME NEW m \in transcript PROVE m \in [turn : Stored, role : Roles]
      <3>1. m.turn \in Stored /\ m.role \in Roles /\ m = [turn |-> m.turn, role |-> m.role]
        BY StampTyped DEF Stored, Roles
      <3> QED
        BY <3>1
    <2>2. ASSUME NEW m \in [turn : Stored, role : Roles] PROVE m \in transcript
      <3>1. m.turn \in Stored /\ m.role \in Roles /\ m = [turn |-> m.turn, role |-> m.role]
        OBVIOUS
      <3>2. PICK n \in transcript : n.turn = m.turn
        BY <3>1 DEF Stored
      <3>3. TurnMessages(n.turn) \subseteq transcript
        BY DEF WholeTurns
      <3>4. m \in TurnMessages(n.turn)
        BY <3>1, <3>2 DEF TurnMessages
      <3> QED
        BY <3>3, <3>4
    <2> QED
      BY <2>1, <2>2
  <1>4. Cardinality([turn : Stored, role : Roles]) = 2 * Cardinality(Stored)
    BY <1>2, TurnsTwice
  <1> QED
    BY <1>1, <1>2, <1>3, <1>4

\* After a message come both messages of each later turn, and after a
\* question its answer.
LEMMA AfterMessage ==
  ASSUME TypeOK, WholeTurns, AskedApart, NEW m \in transcript
  PROVE  /\ Cardinality(LaterTurns(m.turn)) \in Nat
         /\ Cardinality({y \in transcript : <<m, y>> \in EarlierPairs})
              = 2 * Cardinality(LaterTurns(m.turn)) + (IF m.role = "user" THEN 1 ELSE 0)
  <1> DEFINE later == LaterTurns(m.turn)
             theirs == [turn : later, role : Roles]
             answer == [turn |-> m.turn, role |-> "assistant"]
             After == {y \in transcript : <<m, y>> \in EarlierPairs}
  <1>1. IsFiniteSet(later) /\ later \subseteq Stored
    BY StoredWhole, FS_Subset DEF LaterTurns
  <1>2. Cardinality(later) \in Nat /\ IsFiniteSet(theirs) /\ Cardinality(theirs) = 2 * Cardinality(later)
    BY <1>1, TurnsTwice, FS_CardinalityType
  <1>3. transcript = [turn : Stored, role : Roles]
    BY StoredWhole
  <1>4. \A y \in transcript : y \in After <=> Follows(m, y)
    BY EarlierFollows DEF EarlierPairs
  <1>5. /\ m.turn \in Stored /\ m.role \in {"user", "assistant"} /\ answer \in transcript
        /\ asked[m.turn].at \in Nat
    <2>1. m.turn \in Stored /\ m.role \in {"user", "assistant"} /\ asked[m.turn].at \in Nat
      BY StampTyped DEF Stored
    <2> QED
      BY <1>3, <2>1 DEF Roles
  <1>6. \A y \in transcript : y \in theirs <=> asked[m.turn].at < asked[y.turn].at
    <2> SUFFICES ASSUME NEW y \in transcript PROVE y \in theirs <=> asked[m.turn].at < asked[y.turn].at
      OBVIOUS
    <2>1. /\ y.turn \in Stored /\ y.role \in Roles /\ y = [turn |-> y.turn, role |-> y.role]
          /\ asked[y.turn].at \in Nat
      BY StampTyped DEF Stored, Roles
    <2>2. y \in theirs <=> y.turn \in later
      BY <2>1
    <2>3. y.turn \in later <=> asked[y.turn].at > asked[m.turn].at
      BY <2>1 DEF LaterTurns
    <2> QED
      BY <1>5, <2>1, <2>2, <2>3
  <1>7. theirs \subseteq transcript /\ After \subseteq transcript
    BY <1>1, <1>3
  <1>8. answer \notin theirs
    BY <1>5, <1>6
  <1>9. \A y \in transcript : y = answer <=> y.turn = m.turn /\ y.role = "assistant"
    BY StampTyped
  <1> HIDE DEF later, theirs, answer, After
  <1>10. CASE m.role = "assistant"
    <2>1. \A y \in transcript : y \in After <=> y \in theirs
      BY <1>4, <1>6, <1>10 DEF Follows
    <2>2. After = theirs
      BY <1>7, <2>1
    <2>3. Cardinality(After) = 2 * Cardinality(later) + (IF m.role = "user" THEN 1 ELSE 0)
      BY <1>2, <1>10, <2>2
    <2> QED
      BY <1>2, <2>3 DEF After, later
  <1>11. CASE m.role = "user"
    <2>1. \A y \in transcript : y \in After <=> y \in theirs \cup {answer}
      BY <1>4, <1>6, <1>9, <1>11 DEF Follows
    <2>2. After = theirs \cup {answer}
      BY <1>5, <1>7, <2>1
    <2>3. Cardinality(theirs \cup {answer}) = Cardinality(theirs) + 1
      BY <1>2, <1>8, FS_AddElement
    <2>4. Cardinality(After) = 2 * Cardinality(later) + (IF m.role = "user" THEN 1 ELSE 0)
      BY <1>2, <1>11, <2>2, <2>3
    <2> QED
      BY <1>2, <2>4 DEF After, later
  <1> QED
    BY <1>5, <1>10, <1>11

\* A message has its place in the list by how many turns are later.
LEMMA PlaceOfMessage ==
  ASSUME TypeOK, WholeTurns, AskedApart, NEW i \in 1 .. Cardinality(transcript)
  PROVE  /\ ListMessages[i] \in transcript
         /\ Cardinality(LaterTurns(ListMessages[i].turn)) \in Nat
         /\ Cardinality(transcript) - i
              = 2 * Cardinality(LaterTurns(ListMessages[i].turn))
                  + (IF ListMessages[i].role = "user" THEN 1 ELSE 0)
  <1> DEFINE m == ListMessages[i]
  <1>1. /\ ListMessages \in [1 .. Cardinality(transcript) -> transcript]
        /\ Along(ListMessages, Cardinality(transcript), EarlierPairs)
    BY MessagesListed
  <1>2. IsFiniteSet(transcript) /\ Ordering(EarlierPairs, transcript)
    BY EarlierOrders
  <1>3. Cardinality({y \in transcript : <<m, y>> \in EarlierPairs}) = Cardinality(transcript) - i
    BY <1>1, <1>2, SortedPlace
  <1>4. m \in transcript
    BY <1>1
  <1>5. /\ Cardinality(LaterTurns(m.turn)) \in Nat
        /\ Cardinality({y \in transcript : <<m, y>> \in EarlierPairs})
             = 2 * Cardinality(LaterTurns(m.turn)) + (IF m.role = "user" THEN 1 ELSE 0)
    BY <1>4, AfterMessage
  <1> QED
    BY <1>3, <1>4, <1>5

\* A list of whole turns begins with a question and ends with an answer, and
\* where its last turns begin there is a question.
LEMMA WholeTurnsListed ==
  ASSUME TypeOK, WholeTurns, AskedApart, NEW h, h = ListMessages
  PROVE  /\ h \in Said /\ Len(h) = Cardinality(transcript) /\ Len(h) \in Nat
         /\ \A i \in 1 .. Len(h) : h[i].turn \in RecentTurns <=> i >= Begins(Len(h))
         /\ h # <<>> =>
              /\ Begins(Len(h)) \in 1 .. Len(h)
              /\ h[1].role = "user" /\ h[Len(h)].role = "assistant" /\ h[Begins(Len(h))].role = "user"
  <1> DEFINE n == Cardinality(transcript)
             later(i) == Cardinality(LaterTurns(h[i].turn))
  <1>1. h \in [1 .. n -> transcript] /\ IsFiniteSet(transcript)
    BY MessagesListed, EarlierOrders
  <1>2. n \in Nat
    BY <1>1, FS_CardinalityType
  <1>3. Cardinality(Stored) \in Nat /\ n = 2 * Cardinality(Stored)
    BY StoredWhole, FS_CardinalityType
  <1>4. \A i \in 1 .. n : /\ h[i] \in transcript /\ later(i) \in Nat
                          /\ n - i = 2 * later(i) + (IF h[i].role = "user" THEN 1 ELSE 0)
    BY PlaceOfMessage
  <1>5. \A i \in 1 .. n : h[i].role \in {"user", "assistant"} /\ h[i].turn \in Stored
    BY <1>4, StampTyped DEF Stored
  <1>6. \A i \in 1 .. n : h[i].turn \in RecentTurns <=> later(i) < MAX_HISTORY_PAIRS
    BY <1>5 DEF RecentTurns
  <1>7. h \in Seq(Messages) /\ Len(h) = n
    <2>1. transcript \subseteq Messages
      BY DEF TypeOK
    <2>2. h \in [1 .. n -> Messages]
      BY <1>1, <2>1
    <2> HIDE DEF n
    <2> QED
      BY <1>2, <2>2
  <1> HIDE DEF n, later
  <1>8. MAX_HISTORY_PAIRS \in Nat /\ MAX_HISTORY_PAIRS >= 1
    BY ContextAssumption
  <1>9. \A i \in 1 .. n : h[i].turn \in RecentTurns <=> i >= Begins(n)
    <2> SUFFICES ASSUME NEW i \in 1 .. n PROVE later(i) < MAX_HISTORY_PAIRS <=> i >= Begins(n)
      BY <1>6
    <2>1. /\ later(i) \in Nat /\ i \in Nat /\ 1 <= i
          /\ n - i = 2 * later(i) \/ n - i = 2 * later(i) + 1
      BY <1>2, <1>4
    <2>2. later(i) < MAX_HISTORY_PAIRS <=> i >= n - 2 * MAX_HISTORY_PAIRS + 1
      BY <1>2, <1>8, <2>1
    <2> QED
      BY <1>2, <1>8, <2>1, <2>2 DEF Begins
  <1>10. ASSUME n >= 1
         PROVE  /\ Begins(n) \in 1 .. n
                /\ h[1].role = "user" /\ h[n].role = "assistant" /\ h[Begins(n)].role = "user"
    <2> DEFINE stored == Cardinality(Stored)
    <2>1. stored \in Nat /\ n = 2 * stored
      BY <1>3
    <2> HIDE DEF stored
    <2>2. Begins(n) \in 1 .. n /\ (Begins(n) = 1 \/ Begins(n) = n - 2 * MAX_HISTORY_PAIRS + 1)
      BY <1>2, <1>8, <1>10 DEF Begins
    <2>3. 1 \in 1 .. n /\ n \in 1 .. n
      BY <1>2, <1>10
    <2>4. h[1].role = "user"
      <3>1. later(1) \in Nat /\ n - 1 = 2 * later(1) + (IF h[1].role = "user" THEN 1 ELSE 0)
        BY <1>4, <2>3
      <3> QED
        BY <2>1, <3>1
    <2>5. h[n].role = "assistant"
      <3>1. later(n) \in Nat /\ n - n = 2 * later(n) + (IF h[n].role = "user" THEN 1 ELSE 0)
        BY <1>4, <2>3
      <3>2. h[n].role \in {"user", "assistant"}
        BY <1>5, <2>3
      <3> QED
        BY <2>1, <3>1, <3>2
    <2>6. h[Begins(n)].role = "user"
      <3> DEFINE b == Begins(n)
      <3>1. later(b) \in Nat /\ n - b = 2 * later(b) + (IF h[b].role = "user" THEN 1 ELSE 0)
        BY <1>4, <2>2
      <3>2. b = 1 \/ b = n - 2 * MAX_HISTORY_PAIRS + 1
        BY <2>2
      <3> HIDE DEF b
      <3>3. h[b].role = "user"
        BY <1>8, <2>1, <3>1, <3>2
      <3> QED
        BY <3>3 DEF b
    <2> QED
      BY <2>2, <2>4, <2>5, <2>6
  <1>11. h # <<>> => n >= 1
    BY <1>2, <1>7
  <1> QED
    BY <1>2, <1>7, <1>9, <1>10, <1>11 DEF n, Said

\* The last turns are what a list of the recent ones holds in its order.
LEMMA PromptIsLastTurns ==
  ASSUME TypeOK, WholeTurns, AskedApart
  PROVE  Prompt(ListMessages) = LastTurns
  <1> DEFINE h == ListMessages
             n == Len(h)
             f == Begins(n)
             S == [turn : RecentTurns, role : Roles]
             end == SubSeq(h, f, n)
  <1>1. /\ h \in Said /\ n = Cardinality(transcript) /\ n \in Nat
        /\ \A i \in 1 .. n : h[i].turn \in RecentTurns <=> i >= f
        /\ h # <<>> =>
             /\ f \in 1 .. n
             /\ h[1].role = "user" /\ h[n].role = "assistant" /\ h[f].role = "user"
    BY WholeTurnsListed
  <1>2. /\ h \in [1 .. n -> transcript] /\ Along(h, n, EarlierPairs)
        /\ IsFiniteSet(transcript) /\ Ordering(EarlierPairs, transcript)
    BY <1>1, MessagesListed, EarlierOrders
  <1>3. /\ \A x \in transcript : \E i \in 1 .. n : h[i] = x
        /\ \A i, j \in 1 .. n : h[i] = h[j] => i = j
    BY <1>1, <1>2, SortedIsWhole
  <1>4. f \in Nat /\ 1 <= f /\ f <= n + 1
    BY <1>1, ContextAssumption DEF Begins
  <1>5. Prompt(h) = end
    <2>1. CASE h = <<>>
      <3>1. n = 0
        BY <2>1
      <3>2. f = 1
        BY <3>1, <1>4
      <3>3. end = <<>>
        BY <2>1, <3>1, <3>2
      <3> QED
        BY <1>1, <2>1, <3>3, PromptIs
    <2>2. CASE h # <<>>
      BY <1>1, <2>2, PromptIs
    <2> QED
      BY <2>1, <2>2
  <1>6. S \subseteq transcript /\ \A x \in transcript : x \in S <=> x.turn \in RecentTurns
    <2>1. transcript = [turn : Stored, role : Roles] /\ RecentTurns \subseteq Stored
      BY StoredWhole DEF RecentTurns
    <2> QED
      BY <2>1
  <1>7. IsFiniteSet(S) /\ Ordering(EarlierPairs, S)
    <2>1. IsFiniteSet(S)
      BY <1>2, <1>6, FS_Subset
    <2>2. Ordering(EarlierPairs, S)
      <3> HIDE DEF S
      <3> QED
        BY <1>2, <1>6 DEF Ordering
    <2> QED
      BY <2>1, <2>2
  <1> HIDE DEF h, f, n, S
  <1> DEFINE g == [i \in f .. n |-> h[i]]
             k == n - f + 1
  <1>8. Cardinality(S) = k /\ k \in Nat
    <2>1. \A i \in f .. n : i \in 1 .. n /\ h[i] \in S
      BY <1>1, <1>2, <1>4, <1>6
    <2>2. \A x \in S : \E i \in f .. n : h[i] = x
      <3> SUFFICES ASSUME NEW x \in S PROVE \E i \in f .. n : h[i] = x
        OBVIOUS
      <3>1. PICK i \in 1 .. n : h[i] = x
        BY <1>3, <1>6
      <3>2. i >= f
        BY <1>1, <1>6, <3>1
      <3>3. i \in f .. n
        BY <1>1, <1>4, <3>2
      <3> QED
        BY <3>1, <3>3
    <2>3. g \in [f .. n -> S] /\ \A i \in f .. n : g[i] = h[i]
      BY <2>1
    <2> HIDE DEF g
    <2>4. g \in Bijection(f .. n, S)
      BY <1>3, <2>1, <2>2, <2>3 DEF Bijection, Injection, Surjection, IsInjective
    <2>5. IsFiniteSet(f .. n) /\ Cardinality(f .. n) = k
      <3>1. f \in Int /\ n \in Int /\ f <= n + 1
        BY <1>1, <1>4
      <3>2. IsFiniteSet(f .. n) /\ Cardinality(f .. n) = IF f > n THEN 0 ELSE n - f + 1
        BY <3>1, FS_Interval
      <3> QED
        BY <3>1, <3>2
    <2>6. ExistsBijection(f .. n, S)
      BY <2>4 DEF ExistsBijection
    <2>7. Cardinality(S) = Cardinality(f .. n)
      BY <2>5, <2>6, FS_Bijection
    <2> QED
      BY <1>1, <1>4, <2>5, <2>7
  <1>9. end \in [1 .. k -> S] /\ \A i \in 1 .. k : end[i] = h[i + f - 1] /\ i + f - 1 \in f .. n
    <2>1. h \in Seq(Messages)
      BY <1>1 DEF Said
    <2>2. \A i \in 1 .. k : i + f - 1 \in f .. n /\ i + f - 1 \in 1 .. n
      BY <1>1, <1>4
    <2>3. end = [i \in 1 .. k |-> h[i + f - 1]]
      BY <1>1, <1>4, <2>1
    <2>4. \A j \in f .. n : h[j] \in S
      <3> SUFFICES ASSUME NEW j \in f .. n PROVE h[j] \in S
        OBVIOUS
      <3>1. j \in 1 .. n /\ j >= f
        BY <1>1, <1>4
      <3> QED
        BY <1>1, <1>2, <1>6, <3>1
    <2> HIDE DEF end, k
    <2> QED
      BY <2>2, <2>3, <2>4
  <1>10. Along(end, k, EarlierPairs)
    <2> SUFFICES ASSUME NEW i \in 1 .. k, NEW j \in 1 .. k, i < j PROVE <<end[i], end[j]>> \in EarlierPairs
      BY DEF Along
    <2>1. /\ i + f - 1 \in 1 .. n /\ j + f - 1 \in 1 .. n /\ i + f - 1 < j + f - 1
      BY <1>1, <1>4, <1>9
    <2>2. <<h[i + f - 1], h[j + f - 1]>> \in EarlierPairs
      BY <1>2, <2>1 DEF Along
    <2> QED
      BY <1>9, <2>2
  <1>11. LastTurns = CHOOSE s \in [1 .. k -> S] : \A i, j \in DOMAIN s : i < j => Follows(s[i], s[j])
    BY <1>8 DEF LastTurns, InOrder, S, RecentTurns, LaterTurns, Stored
  <1>12. \A s \in [1 .. k -> S] :
           Along(s, k, EarlierPairs) <=> \A i, j \in DOMAIN s : i < j => Follows(s[i], s[j])
    <2> SUFFICES ASSUME NEW s \in [1 .. k -> S]
                 PROVE  Along(s, k, EarlierPairs) <=> \A i, j \in 1 .. k : i < j => Follows(s[i], s[j])
      OBVIOUS
    <2>1. \A i, j \in 1 .. k : <<s[i], s[j]>> \in EarlierPairs <=> Follows(s[i], s[j])
      BY <1>6, EarlierFollows DEF EarlierPairs
    <2> QED
      BY <2>1 DEF Along
  <1> HIDE DEF end, k
  <1>13. LastTurns \in [1 .. k -> S] /\ Along(LastTurns, k, EarlierPairs)
    BY <1>9, <1>10, <1>11, <1>12
  <1>14. LastTurns = end
    BY <1>7, <1>8, <1>9, <1>10, <1>13, SortedIsUnique
  <1> QED
    BY <1>5, <1>14 DEF h

\* However the questions of a reader run next to each other, and next to a
\* clear: what the model is told of the conversation begins with a question
\* and ends with an answer, and is the last turns, whole and in order, when
\* those stored are whole and apart.
THEOREM ToldWhatWasSaid == Spec => PromptIsTurns
  <1>1. Init => TypeOK /\ WindowInv
    BY ChatTyped, WindowInit
  <1>2. (TypeOK /\ WindowInv) /\ [Next]_vars => (TypeOK /\ WindowInv)'
    BY ChatTypedStep, WindowStep
  <1> DEFINE Tells(t) ==
        askPc[t] = "history" /\ askPc'[t] = "open" =>
          /\ context'[t].prompt # <<>> =>
               Head(context'[t].prompt).role = "user" /\ Last(context'[t].prompt).role = "assistant"
          /\ WholeTurns /\ AskedApart => context'[t].prompt = LastTurns
  <1>3. ASSUME TypeOK, WindowInv, [Next]_vars, NEW t \in Turns PROVE Tells(t)
    <2> SUFFICES ASSUME askPc[t] = "history", askPc'[t] = "open"
                 PROVE  /\ context'[t].prompt # <<>> =>
                             /\ Head(context'[t].prompt).role = "user"
                             /\ Last(context'[t].prompt).role = "assistant"
                        /\ WholeTurns /\ AskedApart => context'[t].prompt = LastTurns
      OBVIOUS
    <2>1. ReadHistory(t)
      <3>1. askPc \in [Turns -> AskPcs]
        BY <1>3 DEF TypeOK
      <3>2. ASSUME NEW s \in Turns, Question(s) PROVE s = t
        <4>1. \A u \in Turns : u # s => askPc'[u] = askPc[u]
          BY <3>1, <3>2 DEF Question, Ask, Charge, ReadChunks, ReadHistory, OpenStub, Open, Delta, StreamEnds,
                            Save, Done, AskCrash, Forget, Goto, LeaveOpen, turnVars
        <4> QED
          BY <4>1
      <3>3. ASSUME Clear \/ BookChanges \/ UNCHANGED vars PROVE FALSE
        BY <3>3 DEF Clear, ClearBegin, ClearDelete, BookChanges, vars
      <3>4. Question(t)
        BY <1>3, <3>2, <3>3 DEF Next
      <3>5. ~AskCrash(t)
        BY <3>1 DEF AskCrash, LeaveOpen, Goto
      <3> QED
        BY <3>4, <3>5 DEF Question, Ask, Charge, ReadChunks, OpenStub, Open, Delta, StreamEnds, Save, Done, At
    <2> DEFINE new == [NoContext EXCEPT !.anchored = context[t].anchor \in context[t].window,
                                        !.prompt = Prompt(ListMessages)]
    <2>2. context' = [context EXCEPT ![t] = new] /\ new.prompt = Prompt(ListMessages)
      BY <2>1 DEF ReadHistory, NoContext
    <2> HIDE DEF new
    <2>3. context'[t].prompt = Prompt(ListMessages)
      BY <1>3, <2>2 DEF WindowInv
    <2>4. ListMessages \in Said
      <3> DEFINE n == Cardinality(transcript)
      <3>1. ListMessages \in [1 .. n -> transcript] /\ IsFiniteSet(transcript) /\ transcript \subseteq Messages
        BY <1>3, MessagesListed, EarlierOrders DEF TypeOK
      <3>2. n \in Nat
        BY <3>1, FS_CardinalityType
      <3> HIDE DEF n
      <3>3. ListMessages \in [1 .. n -> Messages]
        BY <3>1
      <3> QED
        BY <3>2, <3>3 DEF Said
    <2>5. Prompt(ListMessages) # <<>> =>
            /\ Head(Prompt(ListMessages)).role = "user"
            /\ Last(Prompt(ListMessages)).role = "assistant"
      BY <2>4, PromptIs DEF Last
    <2>6. WholeTurns /\ AskedApart => Prompt(ListMessages) = LastTurns
      BY <1>3, PromptIsLastTurns
    <2> QED
      BY <2>3, <2>5, <2>6
  <1>4. (TypeOK /\ WindowInv) /\ [Next]_vars => \A t \in Turns : Tells(t)
    BY <1>3
  <1> QED
    BY <1>1, <1>2, <1>4, PTL DEF Spec, PromptIsTurns
=============================================================================
