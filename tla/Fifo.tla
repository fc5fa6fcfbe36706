-------------------------------- MODULE Fifo --------------------------------
(***************************************************************************)
(* What the ring buffer promises its producer and its consumer: a queue    *)
(* of buffers, taken whole or in part from the front, that says it has     *)
(* nothing only when it has nothing, and that can be closed.               *)
(***************************************************************************)
EXTENDS Integers, Sequences

CONSTANT Buffers   \* what may be pushed: records of a buffer (head) and its length (left)

VARIABLES
  queue,    \* the buffers: which, and how much of each is unread
  closed,
  result    \* of the consumer's call: none yet, or one record

Init == queue = <<>> /\ closed = FALSE /\ result = <<>>

Push(b) == ~closed /\ queue' = Append(queue, b) /\ UNCHANGED <<closed, result>>

\* The consumer is given n bytes of the first buffer, which leaves the queue when
\* nothing of it is left or when it was asked for whole.
Take(n, whole) ==
  LET b == Head(queue)
      last == whole \/ n = b.left
  IN
  /\ result = <<>>
  /\ queue' = IF last THEN Tail(queue) ELSE <<[b EXCEPT !.left = @ - n]>> \o Tail(queue)
  /\ result' = <<[ok |-> TRUE, n |-> n, drained |-> IF last THEN b.head ELSE 0]>>
  /\ UNCHANGED closed

Nothing ==
  /\ queue = <<>> /\ result = <<>>
  /\ result' = <<[ok |-> FALSE, n |-> 0, drained |-> 0]>>
  /\ UNCHANGED <<queue, closed>>

Return == result # <<>> /\ result' = <<>> /\ UNCHANGED <<queue, closed>>

Close == closed' = TRUE /\ queue' = <<>> /\ UNCHANGED result

Next ==
  \/ \E b \in Buffers : Push(b)
  \/ queue # <<>> /\ \E n \in 0..Head(queue).left, whole \in BOOLEAN : Take(n, whole)
  \/ Nothing \/ Return \/ Close

Spec == Init /\ [][Next]_<<queue, closed, result>>
=============================================================================
