------------------------------ MODULE AciQueue ------------------------------
(***************************************************************************)
(* The message queue between the bootloader and the nRF8001 transport      *)
(* layer (BLE/aci_queue.c): a ring of Size slots addressed by two          *)
(* free-running counters, head and tail, that are uint8_t in the code and  *)
(* wrap at Wrap = 256.  A slot is a hal_aci_data_t: a length byte and a    *)
(* buffer of MaxLen bytes, of which only the first len mean anything.      *)
(***************************************************************************)
EXTENDS Integers, Sequences

CONSTANTS Size,     \* ACI_QUEUE_SIZE, a power of two
          Wrap,     \* the number of values of a uint8_t
          MaxLen,   \* HAL_ACI_MAX_LENGTH
          Byte      \* the values of a payload byte

(* The index mask (ACI_QUEUE_SIZE - 1) is a modulus because the size is a   *)
(* power of two, so it also divides the 256 values of the counters.         *)
ASSUME QueueAssumption ==
  /\ Size \in Nat \ {0}
  /\ Wrap \in Nat \ {0}
  /\ Size < Wrap
  /\ Wrap % Size = 0
  /\ MaxLen \in Nat
  /\ 0 \in Byte

VARIABLES head,     \* aci_q->head
          tail,     \* aci_q->tail
          slots,    \* aci_q->aci_data
          ok,       \* what the last call returned
          p_data    \* the caller's message: enqueue copies it, dequeue fills it

vars == <<head, tail, slots, ok, p_data>>

-----------------------------------------------------------------------------
Slot == [len : 0..MaxLen, buffer : [1..MaxLen -> Byte]]

EmptySlot == [len |-> 0, buffer |-> [k \in 1..MaxLen |-> 0]]

(* What a caller may use of a slot: its first len bytes. *)
Payload(slot) == [k \in 1..slot.len |-> slot.buffer[k]]

(* Mutation: the counter is wider than the indices it is compared with. *)
IncNoWrap(c) == c + 1

(* uint8_t increment. *)
Inc(c) == (c + 1) % Wrap

Index(c) == c % Size

(* The number of messages queued, whatever the code believes. *)
Outstanding == IF head <= tail THEN tail - head ELSE tail + Wrap - head

(* Mutation: full is noticed one message late. *)
IsFullOneLate == tail = head + Size + 1

(* The comparison is done in int: head + ACI_QUEUE_SIZE does not wrap. *)
IsFull == tail = head + Size

IsEmpty == head = tail

(* Mutation: memcpy of length bytes, forgetting the length byte itself. *)
StoredOneShort(slot, m) ==
  [len |-> m.len,
   buffer |-> [k \in 1..MaxLen |-> IF k < m.len THEN m.buffer[k]
                                                ELSE slot.buffer[k]]]

(* memcpy of length + 1 bytes: what the slot held beyond them stays. *)
Stored(slot, m) ==
  [len |-> m.len,
   buffer |-> [k \in 1..MaxLen |-> IF k <= m.len THEN m.buffer[k]
                                                 ELSE slot.buffer[k]]]

-----------------------------------------------------------------------------
Init == /\ head = 0
        /\ tail = 0
        /\ slots = [i \in 0..Size - 1 |-> EmptySlot]
        /\ ok = TRUE
        /\ p_data = EmptySlot

EnqueueStored(m) ==
  /\ ~IsFull
  /\ slots' = [slots EXCEPT ![Index(tail)] = Stored(slots[Index(tail)], m)]
  /\ tail' = Inc(tail)
  /\ p_data' = m
  /\ ok' = TRUE
  /\ UNCHANGED head

EnqueueRefused(m) ==
  /\ IsFull
  /\ p_data' = m
  /\ ok' = FALSE
  /\ UNCHANGED <<head, tail, slots>>

Enqueue(m) == EnqueueStored(m) \/ EnqueueRefused(m)

DequeueDelivered ==
  /\ ~IsEmpty
  /\ p_data' = slots[Index(head)]
  /\ head' = Inc(head)
  /\ ok' = TRUE
  /\ UNCHANGED <<tail, slots>>

DequeueRefused ==
  /\ IsEmpty
  /\ ok' = FALSE
  /\ UNCHANGED <<head, tail, slots, p_data>>

Dequeue == DequeueDelivered \/ DequeueRefused

(* Any caller. *)
Next == (\E m \in Slot : Enqueue(m)) \/ Dequeue

Spec == Init /\ [][Next]_vars

-----------------------------------------------------------------------------
(***************************************************************************)
(* The one state in which the full test misses: the queue is full and      *)
(* head + Size does not fit the counter.  A careful caller does not        *)
(* enqueue there (hal_aci_tl.c never fills its receive queue, and the      *)
(* bootloader sends about one command per event it is given).              *)
(***************************************************************************)
FullAcrossWrap == Outstanding = Size /\ head + Size >= Wrap

CarefulEnqueue(m) == ~FullAcrossWrap /\ Enqueue(m)

CarefulNext == (\E m \in Slot : CarefulEnqueue(m)) \/ Dequeue

CarefulSpec == Init /\ [][CarefulNext]_vars

-----------------------------------------------------------------------------
(* The counters and the buffers hold values of their C types. *)
TypeOK == /\ head \in 0..Wrap - 1
          /\ tail \in 0..Wrap - 1
          /\ slots \in [0..Size - 1 -> Slot]
          /\ ok \in BOOLEAN
          /\ p_data \in Slot

(* The ring never holds more messages than it has slots: no enqueue ever   *)
(* reuses the slot of a message that was not delivered yet                 *)
(* (aci_queue_enqueue against aci_queue_is_full).                          *)
NeverOverfilled == Outstanding <= Size

(* What the queue holds, as the caller sees it. *)
Contents == [i \in 1..Outstanding |-> Payload(slots[Index((head + i - 1) % Wrap)])]

(* The payload of any message: a sequence of at most MaxLen bytes. *)
Payloads == {Payload(m) : m \in Slot}

Fifo == INSTANCE BoundedFifo WITH Message <- Payloads,
                                  contents <- Contents,
                                  ok <- ok,
                                  message <- Payload(p_data)

(* A careful caller sees a bounded first-in first-out queue: every message *)
(* once, whole and in order, across any number of counter wraps, and a     *)
(* refusal exactly when the queue is full or empty.                        *)
IsBoundedFifo == Fifo!Spec

(* hal_aci_tl.h says hal_aci_tl_send returns "false if there is no more    *)
(* space to store messages to send": a full queue accepts nothing.         *)
FalseWhenNoSpace == [][Outstanding = Size => tail' = tail]_vars
=============================================================================
