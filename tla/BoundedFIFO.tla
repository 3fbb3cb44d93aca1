---------------------------- MODULE BoundedFIFO ----------------------------
(* What mdaq::Queue promises its two threads: a first-in first-out queue   *)
(* of at most Capacity events.                                             *)
EXTENDS Naturals, Sequences

CONSTANTS Event, Capacity

VARIABLE queue

Init == queue = <<>>

Push(e) == Len(queue) < Capacity /\ queue' = Append(queue, e)

Pull == queue # <<>> /\ queue' = Tail(queue)

(* Destroy() drops what was on the queue when it was called. *)
Discard(n) == queue' = SubSeq(queue, n + 1, Len(queue))

Next ==
  \/ \E e \in Event : Push(e)
  \/ Pull
  \/ \E n \in 0..Len(queue) : Discard(n)

Spec == Init /\ [][Next]_queue
=============================================================================
