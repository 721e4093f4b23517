--------------------------- MODULE AciQueueProofs ---------------------------
EXTENDS AciQueue, SequenceTheorems, TLAPS

(* uint8_t increment, without the modulus.                                 *)
LEMMA IncValue ==
  ASSUME NEW c \in 0..Wrap - 1
  PROVE  Inc(c) = IF c = Wrap - 1 THEN 0 ELSE c + 1
BY QueueAssumption DEF Inc

(* A counter selects a slot that exists.                                   *)
LEMMA IndexInRange ==
  ASSUME NEW c \in Nat
  PROVE  Index(c) \in 0..Size - 1
BY QueueAssumption DEF Index

(* No number strictly between 0 and Size is a multiple of Size.            *)
LEMMA Multiple ==
  ASSUME NEW k \in Int, NEW d \in 1..Size - 1
  PROVE  d # Size * k
<1>1. CASE k <= 0
  <2>1. Size * k <= 0  BY <1>1, QueueAssumption
  <2>2. QED  BY <2>1, QueueAssumption
<1>2. CASE k >= 1
  <2>1. Size * k >= Size  BY <1>2, QueueAssumption
  <2>2. QED  BY <2>1, QueueAssumption
<1>3. QED  BY <1>1, <1>2

(* Euclidean division by the size, as the provers need it spelled out.     *)
LEMMA Division ==
  ASSUME NEW c \in Nat
  PROVE  /\ c \div Size \in Int
         /\ Index(c) \in Int
         /\ c = Size * (c \div Size) + Index(c)
BY QueueAssumption DEF Index

(* Counters less than Size apart select different slots.                   *)
LEMMA IndexDistinct ==
  ASSUME NEW c \in Nat, NEW d \in 1..Size - 1
  PROVE  Index(c) # Index(c + d)
<1> DEFINE k == ((c + d) \div Size) - (c \div Size)
<1>1. c + d \in Nat  BY QueueAssumption
<1>2. ASSUME Index(c) = Index(c + d) PROVE FALSE
  <2>1. /\ (c + d) \div Size \in Int
        /\ Index(c + d) \in Int
        /\ c + d = Size * ((c + d) \div Size) + Index(c + d)
    BY <1>1, Division
  <2>2. /\ c \div Size \in Int
        /\ c = Size * (c \div Size) + Index(c)
    BY Division
  <2>3. k \in Int /\ d = Size * k  BY <1>2, <2>1, <2>2, QueueAssumption
  <2>4. QED  BY <2>3, Multiple
<1>3. QED  BY <1>2

(* The remainder is the only number of its range that fits.                *)
LEMMA IndexUnique ==
  ASSUME NEW r \in 0..Size - 1, NEW q \in Int, Size * q + r \in Nat
  PROVE  Index(Size * q + r) = r
<1> DEFINE c == Size * q + r
           k == q - (c \div Size)
           j == (c \div Size) - q
<1>1. Index(c) \in 0..Size - 1  BY IndexInRange
<1>2. c = Size * (c \div Size) + Index(c) /\ c \div Size \in Int BY Division
<1>3. k \in Int /\ Size * k = Index(c) - r  BY <1>1, <1>2, QueueAssumption
<1>4. j \in Int /\ Size * j = r - Index(c)  BY <1>1, <1>2, QueueAssumption
<1>5. QED  BY <1>1, <1>3, <1>4, Multiple, QueueAssumption

(* As the size divides the width, the slot does not depend on wraps.       *)
LEMMA IndexWrap ==
  ASSUME NEW c \in Nat
  PROVE  Index(c + Wrap) = Index(c)
<1> DEFINE q == c \div Size
           w == Wrap \div Size
<1>1. c = Size * q + Index(c) /\ q \in Int  BY Division
<1>2. Wrap = Size * w /\ w \in Int  BY QueueAssumption
<1>3. c + Wrap = Size * (q + w) + Index(c)
  BY <1>1, <1>2, IndexInRange, QueueAssumption
<1>4. q + w \in Int /\ c + Wrap \in Nat  BY <1>1, <1>2, QueueAssumption
<1>5. QED  BY <1>3, <1>4, IndexUnique, IndexInRange

-----------------------------------------------------------------------------
(* The number of outstanding messages leads from head to tail.             *)
LEMMA OutstandingValue ==
  ASSUME TypeOK
  PROVE  /\ Outstanding \in Nat
         /\ (head + Outstanding) % Wrap = tail
         /\ IsEmpty <=> Outstanding = 0
BY QueueAssumption DEF TypeOK, Outstanding, IsEmpty

(* The slot j places after head, whether or not the counter wraps.         *)
LEMMA IndexOfCounter ==
  ASSUME NEW h \in 0..Wrap - 1, NEW j \in 0..Size
  PROVE  /\ (h + j) % Wrap \in 0..Wrap - 1
         /\ Index((h + j) % Wrap) = Index(h + j)
<1>1. CASE h + j < Wrap  BY <1>1, QueueAssumption
<1>2. CASE h + j >= Wrap
  <2> DEFINE c == h + j - Wrap
  <2>1. c \in Nat /\ c < Wrap  BY <1>2, QueueAssumption
  <2>2. (h + j) % Wrap = c  BY <1>2, <2>1, QueueAssumption
  <2>3. c + Wrap = h + j  BY QueueAssumption
  <2>4. Index(c + Wrap) = Index(c)  BY <2>1, IndexWrap
  <2>5. QED  BY <2>1, <2>2, <2>3, <2>4, QueueAssumption
<1>3. QED  BY <1>1, <1>2, QueueAssumption

(* Outside the one exception, a queue that is not full has room.           *)
LEMMA RoomWhenAccepted ==
  ASSUME TypeOK, NeverOverfilled, ~FullAcrossWrap, ~IsFull
  PROVE  Outstanding < Size
BY QueueAssumption DEF TypeOK, NeverOverfilled, FullAcrossWrap, IsFull, Outstanding

(* What is copied into a slot is delivered unchanged.                      *)
LEMMA StoredIsSlot ==
  ASSUME NEW slot \in Slot, NEW m \in Slot
  PROVE  Stored(slot, m) \in Slot /\ Payload(Stored(slot, m)) = Payload(m)
BY QueueAssumption DEF Slot, Stored, Payload

(***************************************************************************)
(* The inductive invariant.  NeverOverfilled needs the types, because the  *)
(* number of outstanding messages is read from two wrapping counters.      *)
(***************************************************************************)
IInv == TypeOK /\ NeverOverfilled

(* aci_queue_init establishes the invariant.                               *)
LEMMA InitIInv == Init => IInv
BY QueueAssumption
   DEF Init, IInv, TypeOK, NeverOverfilled, Outstanding, EmptySlot, Slot

(* Every call of a careful caller preserves it, one step per call.         *)
LEMMA StepIInv == IInv /\ [CarefulNext]_vars => IInv'
<1> SUFFICES ASSUME IInv, [CarefulNext]_vars PROVE IInv'
  OBVIOUS
<1> USE QueueAssumption DEF IInv
<1>1. ASSUME NEW m \in Slot, ~FullAcrossWrap, EnqueueStored(m) PROVE IInv'
  <2>1. Index(tail) \in 0..Size - 1  BY IndexInRange DEF TypeOK
  <2>2. Stored(slots[Index(tail)], m) \in Slot
    BY <2>1, StoredIsSlot DEF TypeOK
  <2>3. tail' = IF tail = Wrap - 1 THEN 0 ELSE tail + 1
    BY <1>1, IncValue DEF EnqueueStored, TypeOK
  <2>4. TypeOK'  BY <1>1, <2>1, <2>2, <2>3 DEF EnqueueStored, TypeOK
  <2>5. Outstanding < Size  BY <1>1, RoomWhenAccepted DEF EnqueueStored
  <2>6. NeverOverfilled'
    BY <1>1, <2>3, <2>5 DEF EnqueueStored, TypeOK, NeverOverfilled, Outstanding
  <2>7. QED  BY <2>4, <2>6
<1>2. ASSUME NEW m \in Slot, EnqueueRefused(m) PROVE IInv'
  BY <1>2 DEF EnqueueRefused, TypeOK, NeverOverfilled, Outstanding
<1>3. ASSUME DequeueDelivered PROVE IInv'
  <2>1. Index(head) \in 0..Size - 1  BY IndexInRange DEF TypeOK
  <2>2. head' = IF head = Wrap - 1 THEN 0 ELSE head + 1
    BY <1>3, IncValue DEF DequeueDelivered, TypeOK
  <2>3. TypeOK'  BY <1>3, <2>1, <2>2 DEF DequeueDelivered, TypeOK
  <2>4. NeverOverfilled'
    BY <1>3, <2>2
    DEF DequeueDelivered, IsEmpty, TypeOK, NeverOverfilled, Outstanding
  <2>5. QED  BY <2>3, <2>4
<1>4. ASSUME DequeueRefused PROVE IInv'
  BY <1>4 DEF DequeueRefused, TypeOK, NeverOverfilled, Outstanding
<1>5. ASSUME UNCHANGED vars PROVE IInv'
  BY <1>5 DEF vars, TypeOK, NeverOverfilled, Outstanding
<1>6. QED
  BY <1>1, <1>2, <1>3, <1>4, <1>5
  DEF CarefulNext, CarefulEnqueue, Enqueue, Dequeue

(* The counters and buffers keep their types.                               *)
THEOREM TypeCorrect == CarefulSpec => []TypeOK
BY InitIInv, StepIInv, PTL DEF CarefulSpec, IInv

(* Under a careful caller no undelivered message is ever overwritten, for   *)
(* every queue size and counter width.                                      *)
THEOREM NoOverwrite == CarefulSpec => []NeverOverfilled
BY InitIInv, StepIInv, PTL DEF CarefulSpec, IInv
-----------------------------------------------------------------------------
(***************************************************************************)
(* Refinement: each step of the ring is a step of the bounded first-in     *)
(* first-out queue, or a stutter.                                          *)
(***************************************************************************)
SlotAt(i) == Index((head + i - 1) % Wrap)

(* The j-th outstanding message is the payload of its slot.                *)
LEMMA SlotAtValue ==
  ASSUME IInv, NEW i \in 1..Size + 1
  PROVE  /\ SlotAt(i) \in 0..Size - 1
         /\ SlotAt(i) = Index(head + i - 1)
<1> DEFINE j == i - 1
<1>1. head \in 0..Wrap - 1 /\ j \in 0..Size  BY QueueAssumption DEF IInv, TypeOK
<1>2. /\ (head + j) % Wrap \in 0..Wrap - 1
      /\ Index((head + j) % Wrap) = Index(head + j)
  BY <1>1, IndexOfCounter
<1>3. head + j = head + i - 1  BY <1>1
<1>4. Index((head + j) % Wrap) \in 0..Size - 1
  BY <1>2, IndexInRange, QueueAssumption
<1>5. QED  BY <1>2, <1>3, <1>4 DEF SlotAt

(* The abstract queue, by its length and its elements.                     *)
LEMMA ContentsValue ==
  ASSUME IInv
  PROVE  /\ Contents \in Seq(Payloads)
         /\ Len(Contents) = Outstanding
         /\ DOMAIN Contents = 1..Outstanding
         /\ \A i \in 1..Outstanding : Contents[i] = Payload(slots[SlotAt(i)])
<1>1. Outstanding \in Nat /\ Outstanding <= Size
  BY OutstandingValue DEF IInv, NeverOverfilled
<1>2. \A i \in 1..Outstanding : SlotAt(i) \in 0..Size - 1
  BY <1>1, SlotAtValue, QueueAssumption
<1>3. \A i \in 1..Outstanding : Payload(slots[SlotAt(i)]) \in Payloads
  BY <1>2 DEF IInv, TypeOK, Payloads
<1>4. Contents = [i \in 1..Outstanding |-> Payload(slots[SlotAt(i)])]
  BY DEF Contents, SlotAt
<1>5. Contents \in [1..Outstanding -> Payloads]  BY <1>3, <1>4
<1>6. QED  BY <1>1, <1>4, <1>5

(* An accepted message is appended to the abstract queue.                  *)
LEMMA AcceptSimulation ==
  ASSUME IInv, NEW m \in Slot, ~FullAcrossWrap, EnqueueStored(m)
  PROVE  Fifo!Accept(Payload(m))
<1> DEFINE n == Outstanding
<1>1. n \in Nat /\ n < Size /\ (head + n) % Wrap = tail
  BY OutstandingValue, RoomWhenAccepted DEF IInv, EnqueueStored
<1>2. SlotAt(n + 1) = Index(tail)
  <2>1. head + (n + 1) - 1 = head + n  BY <1>1, QueueAssumption DEF IInv, TypeOK
  <2>2. QED  BY <1>1, <2>1 DEF SlotAt
<1>3. tail' = IF tail = Wrap - 1 THEN 0 ELSE tail + 1
  BY IncValue DEF EnqueueStored, IInv, TypeOK
<1>4. Outstanding' = n + 1
  BY <1>1, <1>3, QueueAssumption DEF EnqueueStored, IInv, TypeOK, Outstanding
<1>5. \A i \in 1..n : SlotAt(i) # Index(tail)
  <2> SUFFICES ASSUME NEW i \in 1..n PROVE SlotAt(i) # Index(tail)
    OBVIOUS
  <2> DEFINE c == head + i - 1
             d == n - i + 1
  <2>1. c \in Nat /\ d \in 1..Size - 1 /\ c + d = head + (n + 1) - 1
    BY <1>1, QueueAssumption DEF IInv, TypeOK
  <2>2. Index(c) # Index(c + d)  BY <2>1, IndexDistinct
  <2>3. SlotAt(i) = Index(c)  BY <1>1, SlotAtValue, QueueAssumption
  <2>4. SlotAt(n + 1) = Index(c + d)  BY <1>1, <2>1, SlotAtValue, QueueAssumption
  <2>5. QED  BY <2>2, <2>3, <2>4, <1>2
<1>6. Index(tail) \in 0..Size - 1  BY IndexInRange, QueueAssumption DEF IInv, TypeOK
<1>7. \A i \in 1..n : slots'[SlotAt(i)] = slots[SlotAt(i)]
  BY <1>1, <1>5, <1>6, SlotAtValue, QueueAssumption DEF EnqueueStored, IInv, TypeOK
<1>8. Payload(slots'[SlotAt(n + 1)]) = Payload(m)
  BY <1>2, <1>6, StoredIsSlot DEF EnqueueStored, IInv, TypeOK
<1>9. Contents' = [i \in 1..n + 1 |-> Payload(slots'[SlotAt(i)])]
  BY <1>4 DEF Contents, SlotAt, EnqueueStored
<1>10. Contents' = Append(Contents, Payload(m))
  <2> DEFINE c == [i \in 1..n + 1 |-> Payload(slots'[SlotAt(i)])]
             a == Append(Contents, Payload(m))
  <2>1. /\ a \in Seq(Payloads)
        /\ Len(a) = n + 1
        /\ \A i \in 1..n : a[i] = Contents[i]
        /\ a[n + 1] = Payload(m)
    <3>1. Payload(m) \in Payloads  BY DEF Payloads
    <3>2. QED  BY <3>1, ContentsValue, AppendProperties
  <2>2. \A i \in 1..n + 1 : c[i] = a[i]
    BY <1>1, <1>7, <1>8, <2>1, ContentsValue
  <2>3. \A i \in 1..n + 1 : a[i] \in Payloads  BY <2>1, ElementOfSeq
  <2>4. c \in [1..n + 1 -> Payloads]  BY <2>2, <2>3
  <2>5. c \in Seq(Payloads) /\ Len(c) = n + 1  BY <1>1, <2>4
  <2>6. c = a  BY <2>1, <2>2, <2>5, SeqEqual
  <2>7. QED  BY <1>9, <2>6
<1>11. QED
  BY <1>1, <1>10, ContentsValue DEF Fifo!Accept, EnqueueStored, Payload

(* A delivered message is the first of the abstract queue.                 *)
LEMMA DeliverSimulation ==
  ASSUME IInv, DequeueDelivered
  PROVE  Fifo!Deliver
<1> DEFINE n == Outstanding
<1>1. n \in Nat /\ n # 0 /\ n <= Size
  BY OutstandingValue DEF IInv, NeverOverfilled, DequeueDelivered
<1>2. head' = IF head = Wrap - 1 THEN 0 ELSE head + 1
  BY IncValue DEF DequeueDelivered, IInv, TypeOK
<1>3. Outstanding' = n - 1
  BY <1>1, <1>2, QueueAssumption DEF DequeueDelivered, IInv, TypeOK, Outstanding
<1>4. SlotAt(1) = Index(head)
  BY QueueAssumption DEF SlotAt, IInv, TypeOK
<1>5. \A i \in 1..n - 1 : (head' + i - 1) % Wrap = (head + (i + 1) - 1) % Wrap
  <2> SUFFICES ASSUME NEW i \in 1..n - 1
               PROVE  (head' + i - 1) % Wrap = (head + (i + 1) - 1) % Wrap
    OBVIOUS
  <2>1. CASE head = Wrap - 1
    BY <1>1, <1>2, <2>1, QueueAssumption DEF IInv, TypeOK
  <2>2. CASE head # Wrap - 1
    <3>1. head' + i - 1 = head + (i + 1) - 1
      BY <1>1, <1>2, <2>2, QueueAssumption DEF IInv, TypeOK
    <3>2. QED  BY <3>1
  <2>3. QED  BY <2>1, <2>2
<1>6. Contents' = [i \in 1..n - 1 |-> Payload(slots[SlotAt(i + 1)])]
  BY <1>3, <1>5 DEF Contents, SlotAt, DequeueDelivered
<1>7. Contents # << >>  BY <1>1, ContentsValue
<1>8. Contents' = Tail(Contents)
  <2> DEFINE c == [i \in 1..n - 1 |-> Payload(slots[SlotAt(i + 1)])]
             t == Tail(Contents)
  <2>1. /\ t \in Seq(Payloads)
        /\ Len(t) = n - 1
        /\ \A i \in 1..n - 1 : t[i] = Contents[i + 1]
    BY <1>7, ContentsValue, HeadTailProperties
  <2>2. \A i \in 1..n - 1 : c[i] = t[i]  BY <1>1, <2>1, ContentsValue
  <2>3. \A i \in 1..n - 1 : t[i] \in Payloads  BY <2>1, ElementOfSeq
  <2>4. c \in [1..n - 1 -> Payloads]  BY <2>2, <2>3
  <2>5. c \in Seq(Payloads) /\ Len(c) = n - 1  BY <1>1, <2>4
  <2>6. c = t  BY <2>1, <2>2, <2>5, SeqEqual
  <2>7. QED  BY <1>6, <2>6
<1>9. Payload(p_data') = Head(Contents)
  BY <1>1, <1>4, ContentsValue DEF DequeueDelivered
<1>10. QED
  BY <1>7, <1>8, <1>9 DEF Fifo!Deliver, DequeueDelivered

(* Every call is a step of the abstract queue, or a stutter.               *)
LEMMA Simulation == IInv /\ [CarefulNext]_vars => [Fifo!Next]_(Fifo!vars)
<1> SUFFICES ASSUME IInv, [CarefulNext]_vars PROVE [Fifo!Next]_(Fifo!vars)
  OBVIOUS
<1>1. ASSUME NEW m \in Slot, ~FullAcrossWrap, EnqueueStored(m)
      PROVE  Fifo!Next
  BY <1>1, AcceptSimulation DEF Fifo!Next, Payloads
<1>2. ASSUME NEW m \in Slot, EnqueueRefused(m) PROVE Fifo!Next
  <2>1. Outstanding = Size
    BY <1>2, QueueAssumption DEF EnqueueRefused, IsFull, Outstanding, IInv, TypeOK
  <2>2. Contents' = Contents /\ Payload(p_data)' = Payload(m)
    BY <1>2 DEF EnqueueRefused, Contents, Outstanding, Payload
  <2>3. QED
    BY <1>2, <2>1, <2>2, ContentsValue
    DEF Fifo!Next, Fifo!RefuseFull, EnqueueRefused, Payloads
<1>3. ASSUME DequeueDelivered PROVE Fifo!Next
  BY <1>3, DeliverSimulation DEF Fifo!Next
<1>4. ASSUME DequeueRefused PROVE Fifo!Next
  <2>1. Outstanding = 0  BY <1>4, OutstandingValue DEF DequeueRefused, IInv
  <2>2. Contents = << >>  BY <2>1, ContentsValue
  <2>3. Contents' = Contents /\ Payload(p_data)' = Payload(p_data)
    BY <1>4 DEF DequeueRefused, Contents, Outstanding
  <2>4. QED
    BY <1>4, <2>2, <2>3 DEF Fifo!Next, Fifo!RefuseEmpty, DequeueRefused
<1>5. ASSUME UNCHANGED vars PROVE UNCHANGED Fifo!vars
  BY <1>5 DEF vars, Fifo!vars, Contents, Outstanding
<1>6. QED
  BY <1>1, <1>2, <1>3, <1>4, <1>5
  DEF CarefulNext, CarefulEnqueue, Enqueue, Dequeue

(* The ring implements the bounded queue of BoundedFifo for every size,     *)
(* counter width and message set, whatever the order of the calls of a      *)
(* careful caller.                                                          *)
THEOREM Refinement == CarefulSpec => IsBoundedFifo
<1>1. Init => Fifo!Init
  <2> SUFFICES ASSUME Init PROVE Fifo!Init
    OBVIOUS
  <2>1. Outstanding = 0  BY DEF Init, Outstanding
  <2>2. Contents = << >>  BY <2>1, InitIInv, ContentsValue
  <2>3. Payload(p_data) = << >>  BY DEF Init, EmptySlot, Payload
  <2>4. QED  BY <2>2, <2>3 DEF Init, Fifo!Init
<1>2. QED
  BY <1>1, InitIInv, StepIInv, Simulation, PTL
  DEF CarefulSpec, IsBoundedFifo, Fifo!Spec
=============================================================================
