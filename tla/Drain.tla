-------------------------------- MODULE Drain --------------------------------
(***************************************************************************)
(* How one queue of the pipeline is emptied: a scheduled invocation polls  *)
(* it again and again until it is empty or the time of the Lambda runs     *)
(* out (drain_queue); each poll receives a batch and handles its messages  *)
(* one after the other, each for itself (poll_once of the three workers).  *)
(*                                                                         *)
(* Synthesis, Stitching and Extraction take one message at a time and let  *)
(* a crash end its handling; here a handler is a duration and an outcome,  *)
(* and what counts is the time it leaves to the rest of its batch.         *)
(***************************************************************************)
EXTENDS Integers, FiniteSets

CONSTANTS
  Messages,      \* the messages of the queue
  Drainers,      \* concurrent invocations of the scheduled handler
  BatchSize,     \* MAX_MESSAGES_PER_POLL
  MaxReceive,    \* receives of a message before it moves to the DLQ
  Timeout,       \* time of an invocation, in ticks
  SafetyMargin,  \* time below which it polls no more
  PollWait,      \* time an empty poll takes
  Longest,       \* the longest a handler works on one message
  MaxFaults      \* bound: deletions that raise

ASSUME DrainAssumption ==
  /\ IsFiniteSet(Messages)
  /\ BatchSize \in Nat \ {0} /\ MaxReceive \in Nat \ {0}
  /\ Timeout \in Nat /\ SafetyMargin \in Nat /\ PollWait \in Nat
  /\ Longest \in Nat \ {0} /\ MaxFaults \in Nat

VARIABLES
  state,     \* message |-> where it is
  receives,  \* message |-> its receive count
  tried,     \* message |-> how many times a handler began to work on it
  handled,   \* history: messages a handler returned from
  cutShort,  \* history: invocations that ended in the middle of a batch
  pc,        \* what each invocation does next
  left,      \* time each invocation has left
  held,      \* messages of its batch it has still to handle
  deleting,  \* the message it has handled and not yet deleted, as a set
  processed, \* the poll has handled one of its messages
  faults     \* deletions that raised

messageVars == <<state, receives, tried, handled>>
drainVars   == <<pc, left, held, deleting, processed>>
vars == <<messageVars, drainVars, cutShort, faults>>

TypeOK ==
  /\ state \in [Messages -> {"waiting", "inFlight", "done", "dead"}]
  /\ receives \in [Messages -> Nat]
  /\ tried \in [Messages -> Nat]
  /\ handled \subseteq Messages
  /\ cutShort \in Nat
  /\ pc \in [Drainers -> {"off", "check", "poll", "batch", "delete"}]
  /\ left \in [Drainers -> Int]
  /\ held \in [Drainers -> SUBSET Messages]
  /\ deleting \in [Drainers -> SUBSET Messages]
  /\ processed \in [Drainers -> BOOLEAN]
  /\ faults \in Nat

Init ==
  /\ state = [m \in Messages |-> "waiting"]
  /\ receives = [m \in Messages |-> 0]
  /\ tried = [m \in Messages |-> 0]
  /\ handled = {}
  /\ cutShort = 0
  /\ pc = [d \in Drainers |-> "off"]
  /\ left = [d \in Drainers |-> 0]
  /\ held = [d \in Drainers |-> {}]
  /\ deleting = [d \in Drainers |-> {}]
  /\ processed = [d \in Drainers |-> FALSE]
  /\ faults = 0

Waiting == {m \in Messages : state[m] = "waiting"}

-----------------------------------------------------------------------------
(* One invocation *)

At(d, here) == pc[d] = here
Goto(d, next) == pc' = [pc EXCEPT ![d] = next]

\* The invocation returns, or its Lambda is killed.
Off(d) ==
  /\ Goto(d, "off")
  /\ left' = [left EXCEPT ![d] = 0]
  /\ held' = [held EXCEPT ![d] = {}]
  /\ deleting' = [deleting EXCEPT ![d] = {}]
  /\ processed' = [processed EXCEPT ![d] = FALSE]

Start(d) ==
  /\ At(d, "off")
  /\ Goto(d, "check")
  /\ left' = [left EXCEPT ![d] = Timeout]
  /\ UNCHANGED <<messageVars, held, deleting, processed, cutShort, faults>>

\* Mutant: the margin and the time left are in different units.
TimeEnoughInOtherUnit(d) == left[d] > 1000 * SafetyMargin

TimeEnough(d) == left[d] > SafetyMargin

Check(d) ==
  /\ At(d, "check")
  /\ IF TimeEnough(d)
     THEN /\ Goto(d, "poll")
          /\ processed' = [processed EXCEPT ![d] = FALSE]
          /\ UNCHANGED <<left, held, deleting>>
     ELSE Off(d)
  /\ UNCHANGED <<messageVars, cutShort, faults>>

\* receive_message hands out up to a batch; a long poll that finds nothing
\* waits, and ends the drain.
Poll(d) ==
  /\ At(d, "poll")
  /\ IF Waiting = {}
     THEN /\ left' = [left EXCEPT ![d] = @ - PollWait]
          /\ Goto(d, "batch")
          /\ UNCHANGED <<messageVars, held>>
     ELSE \E got \in SUBSET Waiting :
          /\ got # {} /\ Cardinality(got) <= BatchSize
          /\ state' = [m \in Messages |-> IF m \in got THEN "inFlight" ELSE state[m]]
          /\ receives' = [m \in Messages |-> IF m \in got THEN receives[m] + 1 ELSE receives[m]]
          /\ held' = [held EXCEPT ![d] = got]
          /\ Goto(d, "batch")
          /\ UNCHANGED <<tried, handled, left>>
  /\ UNCHANGED <<deleting, processed, cutShort, faults>>

\* Mutant: the error of one message breaks off its batch.
HandleForOrBreak(d, m, time) ==
  /\ tried' = [tried EXCEPT ![m] = @ + 1]
  /\ IF time >= left[d]
     THEN Off(d) /\ cutShort' = cutShort + 1 /\ UNCHANGED handled
     ELSE /\ left' = [left EXCEPT ![d] = @ - time]
          /\ \/ /\ handled' = handled \cup {m}
                /\ held' = [held EXCEPT ![d] = @ \ {m}]
                /\ deleting' = [deleting EXCEPT ![d] = {m}]
                /\ Goto(d, "delete")
             \/ /\ held' = [held EXCEPT ![d] = {}]
                /\ UNCHANGED <<handled, deleting, pc>>
          /\ UNCHANGED <<processed, cutShort>>

\* A handler works on m for some time: it is cut off by the end of the Lambda,
\* and the rest of the batch with it, or it returns, or it raises.
HandleFor(d, m, time) ==
  /\ tried' = [tried EXCEPT ![m] = @ + 1]
  /\ IF time >= left[d]
     THEN Off(d) /\ cutShort' = cutShort + 1 /\ UNCHANGED handled
     ELSE /\ left' = [left EXCEPT ![d] = @ - time]
          /\ held' = [held EXCEPT ![d] = @ \ {m}]
          /\ \/ /\ handled' = handled \cup {m}
                /\ deleting' = [deleting EXCEPT ![d] = {m}]
                /\ Goto(d, "delete")
             \/ UNCHANGED <<handled, deleting, pc>>
          /\ UNCHANGED <<processed, cutShort>>

\* The next message of the batch.
Handle(d) ==
  /\ At(d, "batch")
  /\ \E m \in held[d], time \in 1 .. Longest : HandleFor(d, m, time)
  /\ UNCHANGED <<state, receives, faults>>

Delete(d) ==
  /\ At(d, "delete")
  /\ state' = [m \in Messages |-> IF m \in deleting[d] THEN "done" ELSE state[m]]
  /\ deleting' = [deleting EXCEPT ![d] = {}]
  /\ processed' = [processed EXCEPT ![d] = TRUE]
  /\ Goto(d, "batch")
  /\ UNCHANGED <<receives, tried, handled, left, held, cutShort, faults>>

\* The deletion is not inside the try of the loop: its error ends the batch
\* and the invocation, and the message comes back although it was handled.
DeleteRaises(d) ==
  /\ At(d, "delete")
  /\ faults < MaxFaults
  /\ faults' = faults + 1
  /\ cutShort' = cutShort + 1
  /\ Off(d)
  /\ UNCHANGED messageVars

\* A poll that handled nothing ends the drain, whatever is still waiting.
PollEnds(d) ==
  /\ At(d, "batch")
  /\ held[d] = {}
  /\ IF processed[d] /\ left[d] > 0
     THEN Goto(d, "check") /\ UNCHANGED <<left, held, deleting, processed>>
     ELSE Off(d)
  /\ UNCHANGED <<messageVars, cutShort, faults>>

-----------------------------------------------------------------------------
(* The queue *)

\* The visibility timeout, of six times the Lambda's, outlives the invocation.
InHand(m) == \E d \in Drainers : m \in held[d] \cup deleting[d]

Reappear(m) ==
  /\ state[m] = "inFlight"
  /\ ~InHand(m)
  /\ state' = [state EXCEPT ![m] = IF receives[m] < MaxReceive THEN "waiting" ELSE "dead"]
  /\ UNCHANGED <<receives, tried, handled, drainVars, cutShort, faults>>

-----------------------------------------------------------------------------
Drainer(d) ==
  Start(d) \/ Check(d) \/ Poll(d) \/ Handle(d) \/ Delete(d) \/ PollEnds(d)

Next ==
  \/ \E d \in Drainers : Drainer(d) \/ DeleteRaises(d)
  \/ \E m \in Messages : Reappear(m)

Spec == Init /\ [][Next]_vars

\* The rule of EventBridge starts the handler again and again, an invocation
\* goes on until it returns or is killed, and SQS shows a message again when
\* its visibility timeout is over.
FairSpec ==
  /\ Spec
  /\ \A d \in Drainers : WF_vars(Drainer(d))
  /\ \A m \in Messages : WF_vars(Reappear(m))

-----------------------------------------------------------------------------
(* Properties *)

Untried(m) == \E d \in Drainers : m \in held[d]

\* What brings a message to the DLQ is its own handler: MaxReceive attempts of
\* it, less one for each invocation that was cut off, or whose deletion raised,
\* in the middle of a batch. A message of the same batch that fails, or is slow,
\* costs it nothing, and neither does an invocation that runs out of time
\* between polls, whatever the margin (local_synthesize_worker.py:
\* 62-97, queue_poller.py:38-43).
DeadLettersWereTried ==
  \A m \in Messages : state[m] = "dead" => MaxReceive <= tried[m] + cutShort

\* A message is only deleted when its own handling succeeded
\* (local_synthesize_worker.py:64-70).
DeletedWasHandled == \A m \in Messages : state[m] = "done" => m \in handled

\* Every message is handled or dead-lettered in the end, however slow its
\* handler and whatever else is in its batches.
EveryMessageSettles == \A m \in Messages : <>(state[m] \in {"done", "dead"})

-----------------------------------------------------------------------------
(* What the comments of the code say and the runs refute *)

\* queue_poller.py:23-28: the margin lets "the in-flight poll_once call (up to
\* a 20s long-poll wait plus one message's processing)" finish, which "avoids
\* burning a redelivery attempt for no reason". Every receive of a message would
\* then be an attempt to handle it.
NoReceiveBurned ==
  SafetyMargin >= PollWait + Longest /\ faults = 0
    => \A m \in Messages : receives[m] = tried[m] + (IF Untried(m) THEN 1 ELSE 0)
=============================================================================
