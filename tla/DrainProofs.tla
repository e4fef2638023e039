----------------------------- MODULE DrainProofs -----------------------------
(***************************************************************************)
(* Proofs about Drain, for any queue, any number of invocations and any    *)
(* times: nothing is deleted that was not handled, and a message goes to   *)
(* the DLQ only for what its own handler did, but for the invocations that *)
(* ended in the middle of a batch.                                         *)
(***************************************************************************)
EXTENDS Drain, TLAPS

-----------------------------------------------------------------------------
(* What is deleted was handled *)

HandledInv ==
  /\ DeletedWasHandled
  /\ \A d \in Drainers : deleting[d] \subseteq handled

LEMMA HandledInit == Init => HandledInv
  BY DEF Init, HandledInv, DeletedWasHandled

LEMMA HandledStep == TypeOK /\ HandledInv /\ [Next]_vars => HandledInv'
  <1> SUFFICES ASSUME TypeOK, HandledInv, [Next]_vars PROVE HandledInv'
    OBVIOUS
  <1> USE DEF HandledInv, DeletedWasHandled, TypeOK, At, Goto, messageVars
  <1>1. ASSUME NEW d \in Drainers, Start(d) PROVE HandledInv'
    BY <1>1 DEF Start
  <1>2. ASSUME NEW d \in Drainers, Check(d) PROVE HandledInv'
    BY <1>2 DEF Check, Off
  <1>3. ASSUME NEW d \in Drainers, Poll(d) PROVE HandledInv'
    BY <1>3 DEF Poll
  <1>4. ASSUME NEW d \in Drainers, Handle(d) PROVE HandledInv'
    BY <1>4 DEF Handle, HandleFor, Off
  <1>5. ASSUME NEW d \in Drainers, Delete(d) PROVE HandledInv'
    BY <1>5 DEF Delete
  <1>6. ASSUME NEW d \in Drainers, PollEnds(d) PROVE HandledInv'
    BY <1>6 DEF PollEnds, Off
  <1>7. ASSUME NEW d \in Drainers, DeleteRaises(d) PROVE HandledInv'
    BY <1>7 DEF DeleteRaises, Off
  <1>8. ASSUME NEW m \in Messages, Reappear(m) PROVE HandledInv'
    BY <1>8 DEF Reappear, drainVars
  <1>9. CASE UNCHANGED vars
    BY <1>9 DEF vars, drainVars
  <1> QED
    BY <1>1, <1>2, <1>3, <1>4, <1>5, <1>6, <1>7, <1>8, <1>9 DEF Next, Drainer

-----------------------------------------------------------------------------
(* Typing *)

LEMMA DrainTyped == Init => TypeOK
  BY DrainAssumption DEF Init, TypeOK

LEMMA OffTyped ==
  ASSUME TypeOK, NEW d \in Drainers, Off(d)
  PROVE  /\ pc' \in [Drainers -> {"off", "check", "poll", "batch", "delete"}]
         /\ left' \in [Drainers -> Int]
         /\ held' \in [Drainers -> SUBSET Messages]
         /\ deleting' \in [Drainers -> SUBSET Messages]
         /\ processed' \in [Drainers -> BOOLEAN]
  <1>1. pc' \in [Drainers -> {"off", "check", "poll", "batch", "delete"}]
    BY DEF Off, Goto, TypeOK
  <1>2. left' \in [Drainers -> Int]
    BY DEF Off, TypeOK
  <1>3. held' \in [Drainers -> SUBSET Messages]
    BY DEF Off, TypeOK
  <1>4. deleting' \in [Drainers -> SUBSET Messages]
    BY DEF Off, TypeOK
  <1>5. processed' \in [Drainers -> BOOLEAN]
    BY DEF Off, TypeOK
  <1> QED
    BY <1>1, <1>2, <1>3, <1>4, <1>5

LEMMA DrainTypedStep == TypeOK /\ [Next]_vars => TypeOK'
  <1> SUFFICES ASSUME TypeOK, [Next]_vars PROVE TypeOK'
    OBVIOUS
  <1> USE DrainAssumption DEF TypeOK, At, Goto, messageVars, drainVars
  <1>1. ASSUME NEW d \in Drainers, Start(d) PROVE TypeOK'
    BY <1>1 DEF Start
  <1>2. ASSUME NEW d \in Drainers, Check(d) PROVE TypeOK'
    <2>1. CASE TimeEnough(d)
      BY <1>2, <2>1 DEF Check, TimeEnough
    <2>2. CASE ~TimeEnough(d)
      BY <1>2, <2>2, OffTyped DEF Check
    <2> QED
      BY <2>1, <2>2
  <1>3. ASSUME NEW d \in Drainers, Poll(d) PROVE TypeOK'
    BY <1>3 DEF Poll, Waiting
  <1>4. ASSUME NEW d \in Drainers, Handle(d) PROVE TypeOK'
    <2> PICK m \in held[d], time \in 1 .. Longest : HandleFor(d, m, time)
      BY <1>4 DEF Handle
    <2>1. m \in Messages /\ time \in Nat /\ UNCHANGED <<state, receives, faults>>
      BY <1>4 DEF Handle
    <2>2. CASE time >= left[d]
      BY <2>1, <2>2, OffTyped DEF HandleFor
    <2>3. CASE ~(time >= left[d])
      BY <2>1, <2>3 DEF HandleFor
    <2> QED
      BY <2>2, <2>3
  <1>5. ASSUME NEW d \in Drainers, Delete(d) PROVE TypeOK'
    BY <1>5 DEF Delete
  <1>6. ASSUME NEW d \in Drainers, PollEnds(d) PROVE TypeOK'
    <2>1. CASE processed[d] /\ left[d] > 0
      BY <1>6, <2>1 DEF PollEnds
    <2>2. CASE ~(processed[d] /\ left[d] > 0)
      BY <1>6, <2>2, OffTyped DEF PollEnds
    <2> QED
      BY <2>1, <2>2
  <1>7. ASSUME NEW d \in Drainers, DeleteRaises(d) PROVE TypeOK'
    BY <1>7, OffTyped DEF DeleteRaises
  <1>8. ASSUME NEW m \in Messages, Reappear(m) PROVE TypeOK'
    BY <1>8 DEF Reappear
  <1>9. CASE UNCHANGED vars
    BY <1>9 DEF vars
  <1> QED
    BY <1>1, <1>2, <1>3, <1>4, <1>5, <1>6, <1>7, <1>8, <1>9 DEF Next, Drainer

\* A message is deleted only after its own handling succeeded, whatever else
\* is in its batch and whenever the invocation is cut off.
THEOREM DeletionsAreEarned == Spec => []DeletedWasHandled
  <1>1. Init => TypeOK /\ HandledInv
    BY DrainTyped, HandledInit
  <1>2. TypeOK /\ HandledInv /\ [Next]_vars => (TypeOK /\ HandledInv)'
    BY DrainTypedStep, HandledStep
  <1>3. HandledInv => DeletedWasHandled
    BY DEF HandledInv
  <1> QED
    BY <1>1, <1>2, <1>3, PTL DEF Spec

-----------------------------------------------------------------------------
(* Who holds what *)

Holds(d) == held[d] \cup deleting[d]

\* A message is in the hands of one invocation, in flight, and either still to
\* be handled or to be deleted.
HoldingInv ==
  /\ \A d \in Drainers : pc[d] \in {"off", "check", "poll"} => held[d] = {}
  /\ \A d \in Drainers : pc[d] # "delete" => deleting[d] = {}
  /\ \A d \in Drainers : held[d] \cap deleting[d] = {}
  /\ \A d \in Drainers : \A m \in Holds(d) : state[m] = "inFlight"
  /\ \A d, e \in Drainers : d # e => Holds(d) \cap Holds(e) = {}

LEMMA HoldingInit == Init => HoldingInv
  BY DEF Init, HoldingInv, Holds

\* An invocation that ends lets go of what it held, and nothing else changes.
LEMMA HoldingOff ==
  ASSUME TypeOK, HoldingInv, NEW d \in Drainers, Off(d), UNCHANGED state
  PROVE  HoldingInv'
  <1>1. /\ Holds(d)' = {} /\ held'[d] = {} /\ deleting'[d] = {} /\ pc'[d] = "off"
        /\ \A e \in Drainers : e # d =>
             /\ Holds(e)' = Holds(e) /\ held'[e] = held[e]
             /\ deleting'[e] = deleting[e] /\ pc'[e] = pc[e]
    BY DEF Off, Goto, TypeOK, Holds
  <1> QED
    BY <1>1 DEF HoldingInv

LEMMA HoldingStep == TypeOK /\ HoldingInv /\ [Next]_vars => HoldingInv'
  <1> SUFFICES ASSUME TypeOK, HoldingInv, [Next]_vars PROVE HoldingInv'
    OBVIOUS
  <1> USE DEF At, Goto
  <1>1. ASSUME NEW d \in Drainers, Start(d) PROVE HoldingInv'
    BY <1>1 DEF Start, HoldingInv, Holds, TypeOK, messageVars
  <1>2. ASSUME NEW d \in Drainers, Check(d) PROVE HoldingInv'
    <2>1. CASE TimeEnough(d)
      BY <1>2, <2>1 DEF Check, HoldingInv, Holds, TypeOK, messageVars
    <2>2. CASE ~TimeEnough(d)
      BY <1>2, <2>2, HoldingOff DEF Check, messageVars
    <2> QED
      BY <2>1, <2>2
  <1>3. ASSUME NEW d \in Drainers, Poll(d) PROVE HoldingInv'
    <2>1. CASE Waiting = {}
      BY <1>3, <2>1 DEF Poll, HoldingInv, Holds, TypeOK, messageVars
    <2>2. CASE Waiting # {}
      <3> PICK got \in SUBSET Waiting :
            /\ state' = [m \in Messages |-> IF m \in got THEN "inFlight" ELSE state[m]]
            /\ held' = [held EXCEPT ![d] = got]
            /\ pc' = [pc EXCEPT ![d] = "batch"]
        BY <1>3, <2>2 DEF Poll
      <3>1. pc[d] = "poll" /\ UNCHANGED deleting
        BY <1>3 DEF Poll
      <3>2. /\ held[d] = {} /\ deleting[d] = {} /\ Holds(d)' = got
            /\ \A e \in Drainers : e # d => Holds(e)' = Holds(e)
        BY <3>1 DEF HoldingInv, Holds, TypeOK
      <3>3. \A e \in Drainers : Holds(e) \cap got = {}
        BY DEF HoldingInv, Waiting
      <3>4. \A e \in Drainers : Holds(e) \subseteq Messages
        BY DEF Holds, TypeOK
      <3> QED
        BY <3>1, <3>2, <3>3, <3>4 DEF HoldingInv, TypeOK, Waiting
    <2> QED
      BY <2>1, <2>2
  <1>4. ASSUME NEW d \in Drainers, Handle(d) PROVE HoldingInv'
    <2> PICK m \in held[d], time \in 1 .. Longest : HandleFor(d, m, time)
      BY <1>4 DEF Handle
    <2>1. pc[d] = "batch" /\ UNCHANGED state /\ deleting[d] = {}
      BY <1>4 DEF Handle, HoldingInv
    <2>2. CASE time >= left[d]
      BY <2>1, <2>2, HoldingOff DEF HandleFor
    <2>3. CASE ~(time >= left[d])
      <3>1. /\ held' = [held EXCEPT ![d] = @ \ {m}]
            /\ \/ deleting' = [deleting EXCEPT ![d] = {m}] /\ pc' = [pc EXCEPT ![d] = "delete"]
               \/ UNCHANGED <<deleting, pc>>
        BY <2>3 DEF HandleFor
      <3>2. /\ Holds(d)' \subseteq Holds(d)
            /\ held'[d] \cap deleting'[d] = {}
            /\ \A e \in Drainers : e # d =>
                 Holds(e)' = Holds(e) /\ held'[e] = held[e] /\ deleting'[e] = deleting[e] /\ pc'[e] = pc[e]
        BY <2>1, <3>1 DEF Holds, TypeOK
      <3>3. pc'[d] \in {"batch", "delete"} /\ (pc'[d] # "delete" => deleting'[d] = {})
        BY <2>1, <3>1 DEF TypeOK
      <3> QED
        BY <2>1, <3>2, <3>3 DEF HoldingInv
    <2> QED
      BY <2>2, <2>3
  <1>5. ASSUME NEW d \in Drainers, Delete(d) PROVE HoldingInv'
    <2>1. /\ pc[d] = "delete" /\ pc' = [pc EXCEPT ![d] = "batch"] /\ UNCHANGED held
          /\ state' = [m \in Messages |-> IF m \in deleting[d] THEN "done" ELSE state[m]]
          /\ deleting' = [deleting EXCEPT ![d] = {}]
      BY <1>5 DEF Delete
    <2>2. /\ Holds(d)' = held[d] /\ deleting'[d] = {}
          /\ \A e \in Drainers : e # d =>
               Holds(e)' = Holds(e) /\ held'[e] = held[e] /\ deleting'[e] = deleting[e] /\ pc'[e] = pc[e]
      BY <2>1 DEF Holds, TypeOK
    <2>3. \A e \in Drainers : \A m \in Holds(e)' : m \in Messages /\ m \notin deleting[d]
      BY <2>2 DEF HoldingInv, Holds, TypeOK
    <2> QED
      BY <2>1, <2>2, <2>3 DEF HoldingInv, Holds, TypeOK
  <1>6. ASSUME NEW d \in Drainers, PollEnds(d) PROVE HoldingInv'
    <2>1. CASE processed[d] /\ left[d] > 0
      BY <1>6, <2>1 DEF PollEnds, HoldingInv, Holds, TypeOK, messageVars
    <2>2. CASE ~(processed[d] /\ left[d] > 0)
      BY <1>6, <2>2, HoldingOff DEF PollEnds, messageVars
    <2> QED
      BY <2>1, <2>2
  <1>7. ASSUME NEW d \in Drainers, DeleteRaises(d) PROVE HoldingInv'
    BY <1>7, HoldingOff DEF DeleteRaises, messageVars
  <1>8. ASSUME NEW m \in Messages, Reappear(m) PROVE HoldingInv'
    <2>1. \A d \in Drainers : m \notin Holds(d) /\ Holds(d)' = Holds(d)
      BY <1>8 DEF Reappear, InHand, Holds, drainVars
    <2>2. \A n \in Messages : n # m => state'[n] = state[n]
      BY <1>8 DEF Reappear, TypeOK
    <2>3. \A d \in Drainers : Holds(d) \subseteq Messages
      BY DEF Holds, TypeOK
    <2>4. UNCHANGED <<pc, held, deleting>>
      BY <1>8 DEF Reappear, drainVars
    <2> QED
      BY <2>1, <2>2, <2>3, <2>4 DEF HoldingInv
  <1>9. CASE UNCHANGED vars
    BY <1>9 DEF vars, HoldingInv, Holds, messageVars, drainVars
  <1> QED
    BY <1>1, <1>2, <1>3, <1>4, <1>5, <1>6, <1>7, <1>8, <1>9 DEF Next, Drainer

-----------------------------------------------------------------------------
(* What a message is dead-lettered for *)

\* Every receive of a message was an attempt to handle it, or is to be one, or
\* was lost to one of the invocations that ended in the middle of a batch.
AccountInv ==
  /\ \A m \in Messages : receives[m] <= tried[m] + cutShort + (IF Untried(m) THEN 1 ELSE 0)
  /\ \A m \in Messages : state[m] = "dead" => receives[m] >= MaxReceive

LEMMA AccountInit == Init => AccountInv
  BY DEF Init, AccountInv, Untried

\* What leaves the receives, the attempts, the batches and the queue alone.
LEMMA AccountSame ==
  ASSUME AccountInv, UNCHANGED <<receives, tried, held, cutShort>>,
         \A m \in Messages : state'[m] = "dead" => state[m] = "dead" \/ receives[m] >= MaxReceive
  PROVE  AccountInv'
  BY DEF AccountInv, Untried

\* An invocation that ends with an empty batch leaves the batches alone.
LEMMA OffEmpty ==
  ASSUME TypeOK, NEW d \in Drainers, Off(d), held[d] = {}
  PROVE  held' = held
  BY DEF Off, TypeOK

\* One that ends in the middle of a batch costs each message of it one receive.
LEMMA AccountCutShort ==
  ASSUME TypeOK, AccountInv, NEW d \in Drainers, Off(d), cutShort' = cutShort + 1,
         UNCHANGED <<state, receives>>, \A m \in Messages : tried'[m] >= tried[m] /\ tried'[m] \in Nat
  PROVE  AccountInv'
  <1>1. \A m \in Messages : receives[m] \in Nat /\ tried[m] \in Nat /\ cutShort \in Nat
    BY DEF TypeOK
  <1> QED
    BY <1>1 DEF AccountInv

LEMMA AccountStep == TypeOK /\ HoldingInv /\ AccountInv /\ [Next]_vars => AccountInv'
  <1> SUFFICES ASSUME TypeOK, HoldingInv, AccountInv, [Next]_vars
               PROVE  AccountInv'
    OBVIOUS
  <1> USE DEF At
  <1>a. \A m \in Messages : state[m] = "dead" => receives[m] >= MaxReceive
    BY DEF AccountInv
  <1>b. /\ cutShort \in Nat
        /\ \A m \in Messages : receives[m] \in Nat /\ tried[m] \in Nat
    BY DEF TypeOK
  <1>1. ASSUME NEW d \in Drainers, Start(d) PROVE AccountInv'
    BY <1>1, AccountSame DEF Start, messageVars
  <1>2. ASSUME NEW d \in Drainers, Check(d) PROVE AccountInv'
    <2>1. held' = held
      <3>1. CASE TimeEnough(d)
        BY <1>2, <3>1 DEF Check
      <3>2. CASE ~TimeEnough(d)
        BY <1>2, <3>2, OffEmpty DEF Check, HoldingInv
      <3> QED
        BY <3>1, <3>2
    <2> QED
      BY <1>2, <2>1, AccountSame DEF Check, messageVars
  <1>3. ASSUME NEW d \in Drainers, Poll(d) PROVE AccountInv'
    <2>1. CASE Waiting = {}
      BY <1>3, <2>1, AccountSame DEF Poll, messageVars
    <2>2. CASE Waiting # {}
      <3> PICK got \in SUBSET Waiting :
            /\ state' = [m \in Messages |-> IF m \in got THEN "inFlight" ELSE state[m]]
            /\ receives' = [m \in Messages |-> IF m \in got THEN receives[m] + 1 ELSE receives[m]]
            /\ held' = [held EXCEPT ![d] = got]
        BY <1>3, <2>2 DEF Poll
      <3>1. UNCHANGED <<tried, cutShort>> /\ held[d] = {}
        BY <1>3, <2>2 DEF Poll, HoldingInv
      <3>2. \A m \in got : ~Untried(m)
        BY DEF Untried, HoldingInv, Holds, Waiting
      <3>3. \A m \in got : Untried(m)'
        BY DEF Untried, TypeOK
      <3>4. \A m : m \notin got => (Untried(m)' <=> Untried(m))
        BY <3>1 DEF Untried, TypeOK
      <3>5. \A m \in Messages : state'[m] = "dead" => m \notin got
        OBVIOUS
      <3> QED
        BY <3>1, <3>2, <3>3, <3>4, <3>5, <1>b DEF AccountInv
    <2> QED
      BY <2>1, <2>2
  <1>4. ASSUME NEW d \in Drainers, Handle(d) PROVE AccountInv'
    <2> PICK m \in held[d], time \in 1 .. Longest : HandleFor(d, m, time)
      BY <1>4 DEF Handle
    <2>1. /\ m \in Messages /\ UNCHANGED <<state, receives>>
          /\ tried' = [tried EXCEPT ![m] = @ + 1]
      BY <1>4 DEF Handle, HandleFor, TypeOK
    <2>2. /\ tried'[m] = tried[m] + 1
          /\ \A n \in Messages : n # m => tried'[n] = tried[n]
      BY <2>1 DEF TypeOK
    <2>3. CASE time >= left[d]
      <3>1. Off(d) /\ cutShort' = cutShort + 1
        BY <2>3 DEF HandleFor
      <3>2. \A n \in Messages : tried'[n] >= tried[n] /\ tried'[n] \in Nat
        BY <2>2, <1>b
      <3> QED
        BY <2>1, <3>1, <3>2, AccountCutShort
    <2>4. CASE ~(time >= left[d])
      <3>1. held' = [held EXCEPT ![d] = @ \ {m}] /\ UNCHANGED cutShort
        BY <2>4 DEF HandleFor
      <3>2. \A n : n # m => (Untried(n)' <=> Untried(n))
        BY <3>1 DEF Untried, TypeOK
      <3> QED
        BY <2>1, <2>2, <3>1, <3>2, <1>b DEF AccountInv
    <2> QED
      BY <2>3, <2>4
  <1>5. ASSUME NEW d \in Drainers, Delete(d) PROVE AccountInv'
    <2>1. \A m \in Messages : state'[m] = "dead" => state[m] = "dead"
      BY <1>5 DEF Delete
    <2> QED
      BY <1>5, <2>1, AccountSame DEF Delete
  <1>6. ASSUME NEW d \in Drainers, PollEnds(d) PROVE AccountInv'
    <2>1. held' = held
      <3>1. CASE processed[d] /\ left[d] > 0
        BY <1>6, <3>1 DEF PollEnds
      <3>2. CASE ~(processed[d] /\ left[d] > 0)
        BY <1>6, <3>2, OffEmpty DEF PollEnds
      <3> QED
        BY <3>1, <3>2
    <2> QED
      BY <1>6, <2>1, AccountSame DEF PollEnds, messageVars
  <1>7. ASSUME NEW d \in Drainers, DeleteRaises(d) PROVE AccountInv'
    BY <1>7, <1>b, AccountCutShort DEF DeleteRaises, messageVars
  <1>8. ASSUME NEW m \in Messages, Reappear(m) PROVE AccountInv'
    <2>1. \A n \in Messages : state'[n] = "dead" => state[n] = "dead" \/ receives[n] >= MaxReceive
      <3>1. state' = [state EXCEPT ![m] = IF receives[m] < MaxReceive THEN "waiting" ELSE "dead"]
        BY <1>8 DEF Reappear
      <3>2. receives[m] < MaxReceive => state'[m] # "dead"
        BY <3>1 DEF TypeOK
      <3>3. ~(receives[m] < MaxReceive) => receives[m] >= MaxReceive
        BY <1>b, DrainAssumption
      <3>4. \A n \in Messages : n # m => state'[n] = state[n]
        BY <3>1 DEF TypeOK
      <3> QED
        BY <3>2, <3>3, <3>4
    <2> QED
      BY <1>8, <2>1, AccountSame DEF Reappear, drainVars
  <1>9. CASE UNCHANGED vars
    BY <1>9, AccountSame DEF vars, messageVars, drainVars
  <1> QED
    BY <1>1, <1>2, <1>3, <1>4, <1>5, <1>6, <1>7, <1>8, <1>9 DEF Next, Drainer

\* A message goes to the DLQ for what its own handler did: MaxReceive attempts,
\* less at most one for each invocation that ended in the middle of a batch, for
\* any queue, any number of overlapping invocations, any times and any margin.
THEOREM DeadLettersHadTheirTries == Spec => []DeadLettersWereTried
  <1>1. Init => TypeOK /\ HoldingInv /\ AccountInv
    BY DrainTyped, HoldingInit, AccountInit
  <1>2. TypeOK /\ HoldingInv /\ AccountInv /\ [Next]_vars => (TypeOK /\ HoldingInv /\ AccountInv)'
    BY DrainTypedStep, HoldingStep, AccountStep
  <1>3. TypeOK /\ HoldingInv /\ AccountInv => DeadLettersWereTried
    <2> SUFFICES ASSUME TypeOK, HoldingInv, AccountInv, NEW m \in Messages, state[m] = "dead"
                 PROVE  MaxReceive <= tried[m] + cutShort
      BY DEF DeadLettersWereTried
    <2>1. ~Untried(m)
      BY DEF HoldingInv, Holds, Untried
    <2>2. receives[m] \in Nat /\ tried[m] \in Nat /\ cutShort \in Nat /\ MaxReceive \in Nat
      BY DrainAssumption DEF TypeOK
    <2> QED
      BY <2>1, <2>2 DEF AccountInv
  <1> QED
    BY <1>1, <1>2, <1>3, PTL DEF Spec
=============================================================================
