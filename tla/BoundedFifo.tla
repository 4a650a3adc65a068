---------------------------- MODULE BoundedFifo ----------------------------
(***************************************************************************)
(* What a Worker's queue promises (docs/internal/LockfreeRingbuffer.md): a *)
(* first-in first-out queue of at most Size elements.  A call that fails   *)
(* leaves the queue alone, so it is a stuttering step here.                *)
(***************************************************************************)
EXTENDS Naturals, Sequences

CONSTANTS Size,    \* how many elements the queue can hold
          Values   \* the elements

VARIABLE queue     \* the elements held, oldest first

Init == queue = <<>>

Push(v) == /\ Len(queue) < Size
           /\ queue' = Append(queue, v)

Pull == /\ queue # <<>>
        /\ queue' = Tail(queue)

\* A clear that overlaps a push empties what it saw: the k oldest elements.
DropOldest(k) == queue' = SubSeq(queue, k + 1, Len(queue))

Next ==
  (\E v \in Values : Push(v)) \/ Pull \/ (\E k \in 0 .. Len(queue) : DropOldest(k))

Spec == Init /\ [][Next]_queue
=============================================================================
