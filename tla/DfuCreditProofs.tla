-------------------------- MODULE DfuCreditProofs --------------------------
(***************************************************************************)
(* Proof that the credits of the DFU procedure (Dfu.tla) are conserved,    *)
(* for every width of the counter and every size of the queue.             *)
(***************************************************************************)
EXTENDS DfuProofs, FiniteSetTheorems

USE DfuAssumption

-----------------------------------------------------------------------------
(***************************************************************************)
(* Credits.  What is available, queued and owed is the total, up to a      *)
(* multiple of the counter's width: the sum itself is invariant only       *)
(* modulo that width, as the counter wraps.                                *)
(***************************************************************************)
DataAt(q) == {i \in 1..Len(q) : q[i].kind \in DataKinds}
DataIn(q) == Cardinality(DataAt(q))

Balanced(sum) == \E k \in Int : sum = TotalCredit + CreditWrap * k

CreditInv == Balanced(data_credit_available + DataIn(tx_queue) + in_radio)

(* Data packets in a queue can be counted.                                 *)
LEMMA DataFinite ==
  ASSUME NEW q \in Seq(Command)
  PROVE  IsFiniteSet(DataAt(q)) /\ DataIn(q) \in Nat
<1>1. IsFiniteSet(1..Len(q))  BY FS_Interval
<1>2. IsFiniteSet(DataAt(q))  BY <1>1, FS_Subset DEF DataAt
<1>3. QED  BY <1>2, FS_CardinalityType DEF DataIn

(* A command queued counts if it carries data.                             *)
LEMMA DataAppended ==
  ASSUME NEW q \in Seq(Command), NEW cmd \in Command
  PROVE  DataIn(Append(q, cmd)) = IF cmd.kind \in DataKinds THEN DataIn(q) + 1
                                                             ELSE DataIn(q)
<1> DEFINE n == Len(q) + 1
<1>1. /\ Len(Append(q, cmd)) = n
      /\ Append(q, cmd)[n] = cmd
      /\ \A i \in 1..Len(q) : Append(q, cmd)[i] = q[i]
  BY AppendProperties
<1>2. 1..n = 1..Len(q) \cup {n} /\ n \notin 1..Len(q)  OBVIOUS
<1>3. DataAt(Append(q, cmd)) =
        IF cmd.kind \in DataKinds THEN DataAt(q) \cup {n} ELSE DataAt(q)
  BY <1>1, <1>2 DEF DataAt
<1>4. n \notin DataAt(q)  BY <1>2 DEF DataAt
<1>5. IsFiniteSet(DataAt(q))  BY DataFinite
<1>6. Cardinality(DataAt(q) \cup {n}) = DataIn(q) + 1
  BY <1>4, <1>5, FS_AddElement DEF DataIn
<1>7. QED  BY <1>3, <1>6 DEF DataIn

(* So does the one that leaves it.                                         *)
LEMMA DataTaken ==
  ASSUME NEW q \in Seq(Command), q # << >>
  PROVE  DataIn(Tail(q)) = IF Head(q).kind \in DataKinds THEN DataIn(q) - 1
                                                          ELSE DataIn(q)
<1> DEFINE T == DataAt(Tail(q))
           S == DataAt(q) \ {1}
           f == [i \in T |-> i + 1]
<1>1. /\ Tail(q) \in Seq(Command)
      /\ Len(Tail(q)) = Len(q) - 1
      /\ \A i \in 1..Len(q) - 1 : Tail(q)[i] = q[i + 1]
      /\ Len(q) \in Nat \ {0}
  OBVIOUS
<1>2. Head(q) = q[1]  OBVIOUS
<1>3. \A i \in T : i + 1 \in S  BY <1>1 DEF DataAt
<1>4. \A j \in S : j - 1 \in T /\ (j - 1) + 1 = j  BY <1>1 DEF DataAt
<1>5. T \subseteq Int  BY DEF DataAt
<1>6. f \in Bijection(T, S)
  <2>1. f \in [T -> S]  BY <1>3
  <2>2. \A a, b \in T : f[a] = f[b] => a = b  BY <1>5
  <2>3. \A j \in S : \E i \in T : f[i] = j  BY <1>4
  <2>4. QED  BY <2>1, <2>2, <2>3 DEF Bijection, Injection, Surjection, IsInjective
<1>7. ExistsBijection(T, S)  BY <1>6 DEF ExistsBijection
<1>8. IsFiniteSet(T)  BY <1>1, DataFinite
<1>9. Cardinality(S) = Cardinality(T)  BY <1>7, <1>8, FS_Bijection
<1>10. 1 \in DataAt(q) <=> Head(q).kind \in DataKinds
  BY <1>1, <1>2 DEF DataAt
<1>11. IsFiniteSet(DataAt(q))  BY DataFinite
<1>12. Cardinality(S) = IF 1 \in DataAt(q) THEN Cardinality(DataAt(q)) - 1
                                           ELSE Cardinality(DataAt(q))
  BY <1>11, FS_RemoveElement
<1>13. QED  BY <1>9, <1>10, <1>12 DEF DataIn

(* Wrapping the counter keeps the books balanced.                          *)
LEMMA WrapBalanced ==
  ASSUME NEW a \in Int, NEW r \in Int, Balanced(a + r)
  PROVE  Balanced((a % CreditWrap) + r)
<1>1. PICK k \in Int : a + r = TotalCredit + CreditWrap * k  BY DEF Balanced
<1> DEFINE d == a \div CreditWrap
<1>2. a = CreditWrap * d + (a % CreditWrap) /\ d \in Int /\ a % CreditWrap \in Int
  OBVIOUS
<1>3. (a % CreditWrap) + r = TotalCredit + CreditWrap * k - CreditWrap * d
  BY <1>1, <1>2
<1>4. CreditWrap * k - CreditWrap * d = CreditWrap * (k - d) /\ k - d \in Int
  BY <1>2
<1>5. (a % CreditWrap) + r = TotalCredit + CreditWrap * (k - d)
  BY <1>3, <1>4
<1>6. QED  BY <1>4, <1>5 DEF Balanced

(* A send that stays within the slots appends the command or is refused.   *)
LEMMA CarefulSend ==
  ASSUME NEW q \in Seq(Command), NEW cmd \in Command, NEW r \in AfterSend(q, cmd),
         WithinSlots(r)
  PROVE  r \in {q, Append(q, cmd)}
<1>1. Len(q) \in Nat  OBVIOUS
<1>2. Len(Overrun(q, cmd)) = Len(q) + 1  BY OverrunIsQueue
<1>3. CASE Len(q) < QueueSize  BY <1>3 DEF AfterSend
<1>4. CASE Len(q) >= QueueSize
  <2>1. r # Overrun(q, cmd)  BY <1>1, <1>2, <1>4 DEF WithinSlots
  <2>2. QED  BY <1>1, <1>4, <2>1 DEF AfterSend
<1>5. QED  BY <1>1, <1>3, <1>4

(* A data packet queued is charged for, one refused is not.                *)
LEMMA SendBalanced ==
  ASSUME TypeOK, CreditInv, NEW cmd \in Command, cmd.kind \in DataKinds,
         Send(cmd), WithinSlots(tx_queue'), UNCHANGED in_radio
  PROVE  CreditInv'
<1> DEFINE n == DataIn(tx_queue)
           c == data_credit_available
<1>1. tx_queue \in Seq(Command) /\ n \in Nat /\ c \in Int /\ in_radio \in Int
  BY DataFinite DEF TypeOK
<1>sent. tx_queue' \in {tx_queue, Append(tx_queue, cmd)}
  BY <1>1, CarefulSend DEF Send
<1>2. CASE Queued
  <2>1. DataIn(tx_queue') = n + 1 /\ c' = (c - 1) % CreditWrap
    BY <1>1, <1>2, <1>sent, DataAppended DEF Send, Queued
  <2>2. (c - 1) + (n + 1 + in_radio) = c + n + in_radio  BY <1>1
  <2>3. Balanced((c - 1) + (n + 1 + in_radio))  BY <2>2 DEF CreditInv
  <2>4. c - 1 \in Int /\ n + 1 + in_radio \in Int  BY <1>1
  <2>5. Balanced(((c - 1) % CreditWrap) + (n + 1 + in_radio))
    BY <2>3, <2>4, WrapBalanced
  <2>6. c' + DataIn(tx_queue') + in_radio' = ((c - 1) % CreditWrap) + (n + 1 + in_radio)
    BY <1>1, <2>1
  <2>7. QED  BY <2>5, <2>6 DEF CreditInv
<1>3. CASE ~Queued
  BY <1>3 DEF Send, Queued, CreditInv
<1>4. QED  BY <1>2, <1>3

(* Other commands do not count.                                            *)
LEMMA ControlBalanced ==
  ASSUME TypeOK, CreditInv, NEW cmd \in Command, cmd.kind \notin DataKinds,
         tx_queue' \in AfterSend(tx_queue, cmd), WithinSlots(tx_queue'),
         UNCHANGED <<data_credit_available, in_radio>>
  PROVE  CreditInv'
<1>1. tx_queue \in Seq(Command)  BY DEF TypeOK
<1>2. DataIn(Append(tx_queue, cmd)) = DataIn(tx_queue)  BY <1>1, DataAppended
<1>3. DataIn(tx_queue') = DataIn(tx_queue)  BY <1>1, <1>2, CarefulSend
<1>4. QED  BY <1>3 DEF CreditInv

(* The reports, by kind: the data packets, and the commands that are not.  *)
LEMMA CommandKinds ==
  /\ \A k \in DataKinds : Cmd(k) \in Command /\ Cmd(k).kind \in DataKinds
  /\ \A k \in {"disconnect", "radio_reset"} :
       Cmd(k) \in Command /\ Cmd(k).kind \notin DataKinds
  /\ \A n \in Nat : LET cmd == [kind |-> "notif", value |-> n]
                   IN  cmd \in Command /\ cmd.kind \in DataKinds
BY DEF Cmd, Command, Kinds, DataKinds

(* The books are balanced after a reset.                                   *)
LEMMA InitCreditInv == Init => CreditInv
<1> SUFFICES ASSUME Init PROVE CreditInv
  OBVIOUS
<1>1. DataAt(<< >>) = {}  BY DEF DataAt
<1>2. DataIn(tx_queue) = 0  BY <1>1, FS_EmptySet DEF DataIn, Init
<1>3. data_credit_available + DataIn(tx_queue) + in_radio = TotalCredit
  BY <1>2 DEF Init
<1>4. TotalCredit = TotalCredit + CreditWrap * 0  OBVIOUS
<1>5. Balanced(TotalCredit)  BY <1>4 DEF Balanced
<1>6. QED  BY <1>3, <1>5 DEF CreditInv

(* Every action keeps them balanced.                                       *)
LEMMA StepCreditInv ==
  TypeOK /\ CreditInv /\ [Next /\ WithinSlots(tx_queue')]_vars => CreditInv'
<1> SUFFICES ASSUME TypeOK, CreditInv, [Next /\ WithinSlots(tx_queue')]_vars
             PROVE  CreditInv'
  OBVIOUS
<1> DEFINE n == DataIn(tx_queue)
           c == data_credit_available
<1>types. tx_queue \in Seq(Command) /\ n \in Nat /\ c \in Int /\ in_radio \in Nat
  BY DataFinite DEF TypeOK
<1>idle. ASSUME UNCHANGED <<tx_queue, data_credit_available, in_radio>>
         PROVE  CreditInv'
  BY <1>idle DEF CreditInv
<1>0. CASE UNCHANGED vars  BY <1>0, <1>idle DEF vars, sendVars
<1> SUFFICES ASSUME WithinSlots(tx_queue'), Next PROVE CreditInv'
  BY <1>0
<1>1. ASSUME NEW size \in ImageSizes, ImageSizeSet(size) PROVE CreditInv'
  <2>1. Send(Cmd("start_ok")) /\ UNCHANGED in_radio  BY <1>1 DEF ImageSizeSet
  <2>2. Cmd("start_ok") \in Command /\ Cmd("start_ok").kind \in DataKinds
    BY CommandKinds DEF DataKinds
  <2>3. QED  BY <2>1, <2>2, SendBalanced
<1>2. ASSUME InitPacket PROVE CreditInv'
  <2>1. Send(Cmd("init_ok")) /\ UNCHANGED in_radio  BY <1>2 DEF InitPacket
  <2>2. Cmd("init_ok") \in Command /\ Cmd("init_ok").kind \in DataKinds
    BY CommandKinds DEF DataKinds
  <2>3. QED  BY <2>1, <2>2, SendBalanced
<1>3. ASSUME NEW len \in PacketLens, DataPacket(Firmware(len)) PROVE CreditInv'
  <2> DEFINE cmd == [kind |-> "notif", value |-> m_num_of_firmware_bytes_rcvd]
  <2>1. (Send(cmd) \/ UNCHANGED sendVars) /\ UNCHANGED in_radio
    BY <1>3 DEF DataPacket, NotifyReceipt
  <2>2. cmd \in Command /\ cmd.kind \in DataKinds
    BY CommandKinds DEF TypeOK
  <2>3. CASE Send(cmd)  BY <2>1, <2>2, <2>3, SendBalanced
  <2>4. CASE UNCHANGED sendVars  BY <2>1, <2>4, <1>idle DEF sendVars
  <2>5. QED  BY <2>1, <2>3, <2>4
<1>4. ASSUME PacketDone PROVE CreditInv'
  <2>1. (Send(Cmd("receive_ok")) \/ UNCHANGED sendVars) /\ UNCHANGED in_radio
    BY <1>4 DEF PacketDone, sendVars
  <2>2. Cmd("receive_ok") \in Command /\ Cmd("receive_ok").kind \in DataKinds
    BY CommandKinds DEF DataKinds
  <2>3. CASE Send(Cmd("receive_ok"))  BY <2>1, <2>2, <2>3, SendBalanced
  <2>4. CASE UNCHANGED sendVars  BY <2>1, <2>4, <1>idle DEF sendVars
  <2>5. QED  BY <2>1, <2>3, <2>4
<1>5. ASSUME Validate PROVE CreditInv'
  <2>1. (Send(Cmd("validate_ok")) \/ UNCHANGED sendVars) /\ UNCHANGED in_radio
    BY <1>5 DEF Validate
  <2>2. Cmd("validate_ok") \in Command /\ Cmd("validate_ok").kind \in DataKinds
    BY CommandKinds DEF DataKinds
  <2>3. CASE Send(Cmd("validate_ok"))  BY <2>1, <2>2, <2>3, SendBalanced
  <2>4. CASE UNCHANGED sendVars  BY <2>1, <2>4, <1>idle DEF sendVars
  <2>5. QED  BY <2>1, <2>3, <2>4
<1>6. ASSUME Activate PROVE CreditInv'
  <2>1. /\ tx_queue' \in AfterSend(tx_queue, Cmd("disconnect"))
        /\ UNCHANGED <<data_credit_available, in_radio>>
    BY <1>6 DEF Activate
  <2>2. Cmd("disconnect") \in Command /\ Cmd("disconnect").kind \notin DataKinds
    BY CommandKinds
  <2>3. QED  BY <2>1, <2>2, ControlBalanced
<1>7. ASSUME SysReset PROVE CreditInv'
  <2>1. /\ tx_queue' \in AfterSend(tx_queue, Cmd("radio_reset"))
        /\ UNCHANGED <<data_credit_available, in_radio>>
    BY <1>7 DEF SysReset
  <2>2. Cmd("radio_reset") \in Command /\ Cmd("radio_reset").kind \notin DataKinds
    BY CommandKinds
  <2>3. QED  BY <2>1, <2>2, ControlBalanced
<1>8. ASSUME Transfer PROVE CreditInv'
  <2>1. /\ tx_queue # << >>
        /\ tx_queue' = Tail(tx_queue)
        /\ in_radio' = IF Head(tx_queue).kind \in DataKinds THEN in_radio + 1
                                                            ELSE in_radio
        /\ c' = c
    BY <1>8 DEF Transfer
  <2>2. DataIn(Tail(tx_queue)) = IF Head(tx_queue).kind \in DataKinds THEN n - 1 ELSE n
    BY <1>types, <2>1, DataTaken
  <2>3. c' + DataIn(tx_queue') + in_radio' = c + n + in_radio
    BY <1>types, <2>1, <2>2
  <2>4. QED  BY <2>3 DEF CreditInv
<1>9. ASSUME NEW k \in 1..MaxInRadio, CreditReturned(k) PROVE CreditInv'
  <2>1. /\ in_radio' = in_radio - k
        /\ c' = (c + k) % CreditWrap
        /\ tx_queue' = tx_queue
    BY <1>9 DEF CreditReturned
  <2>2. (c + k) + (n + in_radio - k) = c + n + in_radio  BY <1>types
  <2>3. Balanced((c + k) + (n + in_radio - k))  BY <2>2 DEF CreditInv
  <2>4. c + k \in Int /\ n + in_radio - k \in Int  BY <1>types
  <2>5. Balanced(((c + k) % CreditWrap) + (n + in_radio - k))
    BY <2>3, <2>4, WrapBalanced
  <2>6. c' + DataIn(tx_queue') + in_radio' = ((c + k) % CreditWrap) + (n + in_radio - k)
    BY <1>types, <2>1
  <2>7. QED  BY <2>5, <2>6 DEF CreditInv
<1>10. ASSUME \/ StoreByte \/ ReceiveInit \/ ReceiveFw
              \/ \E target \in NotifTargets : NotificationSet(target)
       PROVE  CreditInv'
  BY <1>10, <1>idle
  DEF StoreByte, ReceiveInit, ReceiveFw, NotificationSet, sendVars
<1>11. QED
  BY <1>1, <1>2, <1>3, <1>4, <1>5, <1>6, <1>7, <1>8, <1>9, <1>10
  DEF Next, AnyPacket, AnyOpcode

(* A balanced sum is the total, modulo the width of the counter.           *)
LEMMA BalancedModulo ==
  ASSUME NEW sum \in Int, Balanced(sum)
  PROVE  sum % CreditWrap = TotalCredit
<1>1. PICK k \in Int : sum = TotalCredit + CreditWrap * k  BY DEF Balanced
<1> DEFINE d == sum \div CreditWrap
           r == sum % CreditWrap
<1>2. sum = CreditWrap * d + r /\ d \in Int /\ r \in 0..CreditWrap - 1
  OBVIOUS
<1>3. r - TotalCredit = CreditWrap * k - CreditWrap * d  BY <1>1, <1>2
<1>4. CreditWrap * k - CreditWrap * d = CreditWrap * (k - d) /\ k - d \in Int
  BY <1>2
<1> DEFINE m == k - d
<1>5. r - TotalCredit = CreditWrap * m /\ m \in Int  BY <1>3, <1>4
<1>6. r - TotalCredit < CreditWrap /\ r - TotalCredit > -CreditWrap  BY <1>2
<1> HIDE DEF m
<1>7. CASE m >= 1
  <2>1. CreditWrap * m >= CreditWrap  BY <1>5, <1>7
  <2>2. QED  BY <1>2, <1>5, <1>6, <2>1
<1>8. CASE m <= -1
  <2>1. CreditWrap * m <= -CreditWrap  BY <1>5, <1>8
  <2>2. QED  BY <1>2, <1>5, <1>6, <2>1
<1>9. CASE m = 0  BY <1>2, <1>5, <1>9
<1>10. QED  BY <1>5, <1>7, <1>8, <1>9

(* No credit is lost or invented by dfu.c, through refused sends and a     *)
(* wrapped counter too, as long as no send overruns the queue.             *)
THEOREM CreditConserved == CarefulSpec => []CreditConservation
<1>1. TypeOK /\ CreditInv => CreditConservation
  <2> SUFFICES ASSUME TypeOK, CreditInv PROVE CreditConservation
    OBVIOUS
  <2> DEFINE sum == data_credit_available + DataIn(tx_queue) + in_radio
  <2>1. DataIn(tx_queue) \in Nat  BY DataFinite DEF TypeOK
  <2>2. sum \in Int  BY <2>1 DEF TypeOK
  <2>3. Balanced(sum)  BY DEF CreditInv
  <2>4. sum % CreditWrap = TotalCredit  BY <2>2, <2>3, BalancedModulo
  <2>5. DataQueued = DataIn(tx_queue)  BY DEF DataQueued, DataIn, DataAt
  <2>6. QED  BY <2>4, <2>5 DEF CreditConservation
<1>2. TypeOK /\ [Next /\ WithinSlots(tx_queue')]_vars => TypeOK'
  BY StepTypeOK
<1>3. QED
  BY <1>1, <1>2, InitTypeOK, InitCreditInv, StepCreditInv, PTL DEF CarefulSpec
===========================================================================
