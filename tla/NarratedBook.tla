---------------------------- MODULE NarratedBook ----------------------------
(***************************************************************************)
(* What the narration of one book promises to whoever watches its row,     *)
(* without queues, invocations or counters: chunks are told one by one and *)
(* stay told, READY is the end and means that every chunk was told, and    *)
(* anything less is PARTIAL, which a retry may take up again.              *)
(***************************************************************************)
EXTENDS FiniteSets

CONSTANT Parts   \* the chunks of the book

VARIABLES
  phase,   \* "working", "ready" or "partial"
  told,    \* the chunks that have been narrated for good
  offered  \* the row advertises the audio of the book

Init == phase = "working" /\ told = {} /\ offered = FALSE

Tell(c) ==
  /\ c \notin told
  /\ told' = told \cup {c}
  /\ UNCHANGED <<phase, offered>>

Complete ==
  /\ phase = "working"
  /\ told = Parts
  /\ phase' = "ready"
  /\ offered' = TRUE
  /\ UNCHANGED told

\* The audio of part of the book may be offered, never of none of it.
GiveUp ==
  /\ phase = "working"
  /\ phase' = "partial"
  /\ offered' \in {FALSE, told # {}}
  /\ UNCHANGED told

TakeUpAgain ==
  /\ phase = "partial"
  /\ phase' = "working"
  /\ offered' = FALSE
  /\ UNCHANGED told

Next == (\E c \in Parts : Tell(c)) \/ Complete \/ GiveUp \/ TakeUpAgain

Spec == Init /\ [][Next]_<<phase, told, offered>>
=============================================================================
