----------------------------- MODULE QueueSend -----------------------------
(***************************************************************************)
(* What a send leaves in the command queue, as far as its callers can tell *)
(* (BLE/aci_queue.c, of which AciQueue.tla has the counters and slots).    *)
(***************************************************************************)
EXTENDS Integers, Sequences

CONSTANT QueueSize   \* ACI_QUEUE_SIZE

(* The message goes into the slot of the tail; every message that is        *)
(* QueueSize places before it, if there is one, is in the same slot.       *)
Overrun(q, c) ==
  [i \in 1..Len(q) + 1 |-> IF (Len(q) + 1 - i) % QueueSize = 0 THEN c ELSE q[i]]

(* A full queue refuses the message, or takes it over the oldest: the test  *)
(* for full misses where head + ACI_QUEUE_SIZE does not fit the counter,    *)
(* and past full (up to the counter's width) it misses always.             *)
AfterSend(q, c) ==
  IF Len(q) < QueueSize THEN {Append(q, c)}
  ELSE IF Len(q) = QueueSize THEN {q, Overrun(q, c)}
  ELSE {Overrun(q, c)}

(* What a caller leaves that sends no more than there is room for, or is    *)
(* refused: it is careful, in the sense of AciQueue.tla.                   *)
WithinSlots(q) == Len(q) <= QueueSize
=============================================================================
