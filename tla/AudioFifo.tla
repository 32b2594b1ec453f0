------------------------------ MODULE AudioFifo ------------------------------
(* What the audio buffer of picoarch promises: a queue of frames, handed to  *)
(* the sound device oldest first, each of them once, that is only ever       *)
(* emptied at once when the buffer is resized.                               *)
EXTENDS Integers, Sequences

CONSTANTS
  Frames,      \* what the buffer holds
  Capacities   \* the numbers of frames it may be made to hold

VARIABLES queue, capacity

vars == <<queue, capacity>>

Init == queue = <<>> /\ capacity \in Capacities

\* The core's next frame joins the queue.
Put(frame) ==
  /\ Len(queue) < capacity
  /\ queue' = Append(queue, frame)
  /\ UNCHANGED capacity

\* The device takes the oldest frames.
Take(n) ==
  /\ n \in 1 .. Len(queue)
  /\ queue' = SubSeq(queue, n + 1, Len(queue))
  /\ UNCHANGED capacity

Resize(c) == capacity' = c /\ queue' = <<>>

Next ==
  \/ \E frame \in Frames : Put(frame)
  \/ \E n \in 1 .. Len(queue) : Take(n)
  \/ \E c \in Capacities : Resize(c)

Spec == Init /\ [][Next]_vars
==============================================================================
