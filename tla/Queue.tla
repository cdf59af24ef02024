-------------------------------- MODULE Queue --------------------------------
(***************************************************************************)
(* One connection's bounded output queue: what is waiting in it, whether   *)
(* its writer is there, and whether the owner has been asked to close it.  *)
(***************************************************************************)
EXTENDS Naturals, Sequences

CONSTANTS Capacity,     \* messages the queue holds
          VoiceDepth    \* depth from which tunnelled voice is dropped

ASSUME QueueBounds == Capacity \in Nat \ {0} /\ VoiceDepth \in Nat

Queues == [waiting : Seq({"control", "voice"}), open : BOOLEAN, must_close : BOOLEAN]

NewQueue == [waiting |-> << >>, open |-> TRUE, must_close |-> FALSE]

Control(n) == [i \in 1..n |-> "control"]

\* What try_send_all answers to a transition of n messages.
Admission(queue, n) ==
  IF n = 0 THEN "Accepted"
  ELSE IF n \notin 1..Capacity THEN "TooLarge"
  ELSE IF ~queue.open THEN "Closed"
  ELSE IF Len(queue.waiting) + n > Capacity THEN "Congested"
  ELSE "Accepted"

\* All of the messages or none of them; a refusal no retry can cure closes.
try_send_all(queue, n) ==
  CASE Admission(queue, n) = "Accepted"               -> [queue EXCEPT !.waiting = @ \o Control(n)]
    [] Admission(queue, n) \in {"TooLarge", "Closed"} -> [queue EXCEPT !.must_close = TRUE]
    [] OTHER                                          -> queue

\* A voice packet is dropped rather than queued behind a backlog.
push_voice(queue) ==
  IF Len(queue.waiting) >= VoiceDepth \/ Len(queue.waiting) >= Capacity THEN queue
  ELSE IF queue.open THEN [queue EXCEPT !.waiting = Append(@, "voice")]
  ELSE [queue EXCEPT !.must_close = TRUE]

mark_fatal(queue) == [queue EXCEPT !.must_close = TRUE]

=============================================================================
