---------------------------- MODULE BoundedFifo ----------------------------
(***************************************************************************)
(* What a circular buffer promises: a queue of at most Capacity values.    *)
(* A write to a full queue is dropped, a read of an empty one answers -1,  *)
(* and neither changes the queue.                                          *)
(***************************************************************************)
EXTENDS Integers, Sequences

CONSTANTS Capacity, Values

VARIABLES
  queue,  \* the values written and not yet read, oldest first
  value   \* what the last read answered

Init == queue = <<>> /\ value = -1

Put(v) ==
  /\ queue' = IF Len(queue) = Capacity THEN queue ELSE Append(queue, v)
  /\ UNCHANGED value

Take ==
  IF queue = <<>> THEN value' = -1 /\ UNCHANGED queue
                  ELSE value' = Head(queue) /\ queue' = Tail(queue)

Next == Take \/ \E v \in Values : Put(v)

Spec == Init /\ [][Next]_<<queue, value>>
=============================================================================
