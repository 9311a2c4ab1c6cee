-------------------------------- MODULE Fifo --------------------------------
(***************************************************************************)
(* A queue that hands out every value that was put in once, in order, and  *)
(* never holds more than Size of them.  Module Ring implements two.        *)
(***************************************************************************)
EXTENDS Naturals, Sequences

CONSTANTS Values, Size

VARIABLE queue

Init == queue = <<>>

Put(v) ==
  /\ Len(queue) < Size
  /\ queue' = Append(queue, v)

Get ==
  /\ queue # <<>>
  /\ queue' = Tail(queue)

Next == (\E v \in Values : Put(v)) \/ Get

Spec == Init /\ [][Next]_queue
=============================================================================
