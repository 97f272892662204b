------------------------------ MODULE LogQueue ------------------------------
(***************************************************************************)
(* What the queue of the asynchronous logger promises: a bounded FIFO      *)
(* queue that hands every message that was put to the one worker, once.    *)
(***************************************************************************)
EXTENDS Naturals, Sequences, SequencesExt

CONSTANTS Message, Capacity

VARIABLES queue, taken

Init == queue = <<>> /\ taken = <<>>

Put(m) ==
  /\ Len(queue) < Capacity
  /\ m \notin ToSet(queue \o taken)
  /\ queue' = Append(queue, m)
  /\ UNCHANGED taken

Get ==
  /\ queue # <<>>
  /\ taken' = Append(taken, Head(queue))
  /\ queue' = Tail(queue)

Next == Get \/ \E m \in Message : Put(m)

Spec == Init /\ [][Next]_<<queue, taken>>
=============================================================================
