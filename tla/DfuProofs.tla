----------------------------- MODULE DfuProofs -----------------------------
(***************************************************************************)
(* Proofs about Dfu.tla, for every page size, flash size, queue size and   *)
(* every set of image sizes, packet lengths and notification intervals.    *)
(***************************************************************************)
EXTENDS Dfu, SequenceTheorems, TLAPS

USE DfuAssumption

-----------------------------------------------------------------------------
(* Arithmetic of pages.                                                    *)
LEMMA EvenPage ==
  ASSUME NEW addr \in Nat, addr % PageSize = 0
  PROVE  (addr \div 2) * 2 = addr
<1> DEFINE q == addr \div PageSize
           h == PageSize \div 2
<1>1. addr = PageSize * q /\ q \in Int  OBVIOUS
<1>2. PageSize = 2 * h /\ h \in Int  OBVIOUS
<1>3. addr = 2 * (h * q) /\ h * q \in Int  BY <1>1, <1>2
<1>4. QED  BY <1>3

(* The only multiple of the page size within a page is 0.                  *)
LEMMA SmallMultiple ==
  ASSUME NEW k \in Int, NEW r \in 0..PageSize - 1, r = PageSize * k
  PROVE  r = 0
<1>1. CASE k <= 0
  <2>1. PageSize * k <= 0  BY <1>1
  <2>2. QED  BY <2>1
<1>2. CASE k >= 1
  <2>1. PageSize * k >= PageSize  BY <1>2
  <2>2. QED  BY <2>1
<1>3. QED  BY <1>1, <1>2

(* A page later is a page boundary again.                                  *)
LEMMA NextPageAligned ==
  ASSUME NEW addr \in Nat, addr % PageSize = 0
  PROVE  (addr + PageSize) % PageSize = 0
<1> DEFINE next == addr + PageSize
           q == addr \div PageSize
           p == next \div PageSize
           r == next % PageSize
<1>1. addr = PageSize * q /\ q \in Int  OBVIOUS
<1>2. next = PageSize * p + r /\ p \in Int /\ r \in 0..PageSize - 1  OBVIOUS
<1>3. r = PageSize * (q + 1 - p) /\ q + 1 - p \in Int  BY <1>1, <1>2
<1>4. QED  BY <1>2, <1>3, SmallMultiple

(* From a page boundary, the k-th byte filled lands in the k-th cell.      *)
LEMMA AlignedPage ==
  ASSUME NEW addr \in Nat, addr < FlashSize, addr % PageSize = 0
  PROVE  /\ PageCells(addr) = addr..addr + PageSize - 1
         /\ \A a \in PageCells(addr) : FilledFrom(addr, a) = a - addr
<1>1. addr % FlashSize = addr  OBVIOUS
<1>2. PageBase(addr) = addr  BY <1>1 DEF PageBase
<1>3. PageCells(addr) = addr..addr + PageSize - 1  BY <1>2 DEF PageCells
<1>4. (addr \div 2) * 2 = addr  BY EvenPage
<1>5. ASSUME NEW a \in PageCells(addr) PROVE FilledFrom(addr, a) = a - addr
  <2>1. a - addr \in 0..PageSize - 1  BY <1>3
  <2>2. FilledFrom(addr, a) = (a - addr) % PageSize  BY <1>4 DEF FilledFrom
  <2>3. QED  BY <2>1, <2>2
<1>6. QED  BY <1>3, <1>5

(* Whatever the address, m_write_page reads within the page buffer.        *)
LEMMA FilledInPage ==
  ASSUME NEW addr \in Nat, NEW a \in Int
  PROVE  FilledFrom(addr, a) \in 0..PageSize - 1
<1>1. (addr \div 2) * 2 \in Int  OBVIOUS
<1>2. QED  BY <1>1 DEF FilledFrom

-----------------------------------------------------------------------------
(* Flash operations keep the type of flash.                                *)
Flash == [0..FlashSize - 1 -> Cell]
Buffer == [0..PageSize - 1 -> Nat \cup {Zero}]

(* An erase leaves cells.                                                  *)
LEMMA ErasedType ==
  ASSUME NEW f \in Flash, NEW addr \in Nat
  PROVE  Erased(f, addr) \in Flash
BY DEF Erased, Flash, Cell, Blank

(* A programmed cell is a cell.                                            *)
LEMMA ProgramType ==
  ASSUME NEW cell \in Cell, NEW byte \in Nat \cup {Zero}
  PROVE  Program(cell, byte) \in Cell
BY DEF Program, Cell, Blank, Zero, Mixed, Old

(* A blank cell takes the byte programmed into it.                         *)
LEMMA ProgramBlank == \A byte : Program(Blank, byte) = byte
BY DEF Program

(* A page write leaves cells.                                              *)
LEMMA WrittenType ==
  ASSUME NEW f \in Flash, NEW addr \in Nat, NEW buff \in Buffer
  PROVE  PageWritten(f, addr, buff) \in Flash
<1>1. ASSUME NEW a \in 0..FlashSize - 1
      PROVE  (IF a \in PageCells(addr)
                THEN Program(f[a], buff[FilledFrom(addr, a)]) ELSE f[a]) \in Cell
  <2>0. a \in Int  OBVIOUS
  <2>1. FilledFrom(addr, a) \in 0..PageSize - 1  BY <2>0, FilledInPage
  <2>2. QED  BY <2>1, ProgramType DEF Flash, Buffer
<1>2. QED  BY <1>1 DEF PageWritten, Flash

-----------------------------------------------------------------------------
(* A send that overruns the queue leaves a queue of commands, one longer,   *)
(* with the command at its end.                                            *)
LEMMA OverrunIsQueue ==
  ASSUME NEW q \in Seq(Command), NEW cmd \in Command
  PROVE  /\ Overrun(q, cmd) \in Seq(Command)
         /\ Len(Overrun(q, cmd)) = Len(q) + 1
         /\ Overrun(q, cmd)[Len(q) + 1] = cmd
<1> DEFINE n == Len(q) + 1
<1>1. n \in Nat /\ Len(q) \in Nat /\ n \in 1..n  OBVIOUS
<1>2. \A i \in 1..n : (IF (n - i) % QueueSize = 0 THEN cmd ELSE q[i]) \in Command
  <2> SUFFICES ASSUME NEW i \in 1..n, (n - i) % QueueSize # 0
               PROVE  q[i] \in Command
    OBVIOUS
  <2>1. n - i # 0  OBVIOUS
  <2>2. i \in 1..Len(q)  BY <1>1, <2>1
  <2>3. QED  BY <2>2, ElementOfSeq
<1>3. 0 % QueueSize = 0  OBVIOUS
<1>4. (n - n) % QueueSize = 0  BY <1>1, <1>3
<1>5. Overrun(q, cmd) = [i \in 1..n |-> IF (n - i) % QueueSize = 0 THEN cmd ELSE q[i]]
  BY DEF Overrun
<1> HIDE DEF n
<1>6. Overrun(q, cmd) \in [1..n -> Command]  BY <1>2, <1>5
<1>7. Overrun(q, cmd) \in Seq(Command) /\ Len(Overrun(q, cmd)) = n
  BY <1>1, <1>6
<1>8. Overrun(q, cmd)[n] = cmd  BY <1>1, <1>4, <1>5
<1>9. QED  BY <1>7, <1>8 DEF n

(* After a send the queue is as it was, or holds the command at its end.   *)
LEMMA SentLast ==
  ASSUME NEW q \in Seq(Command), NEW cmd \in Command, NEW r \in AfterSend(q, cmd)
  PROVE  /\ r \in Seq(Command)
         /\ r = q \/ (Len(r) = Len(q) + 1 /\ r[Len(q) + 1] = cmd)
<1>1. CASE r = q  BY <1>1
<1>2. CASE r = Append(q, cmd)  BY <1>2, AppendProperties
<1>3. CASE r = Overrun(q, cmd)  BY <1>3, OverrunIsQueue
<1>4. QED  BY <1>1, <1>2, <1>3 DEF AfterSend

-----------------------------------------------------------------------------
(* Sending keeps the types of the queue and of the credit.                 *)
SendTypeOK == /\ tx_queue \in Seq(Command)
              /\ data_credit_available \in 0..CreditWrap - 1

(* m_send keeps queue and credit within their types.                       *)
LEMMA SendType ==
  ASSUME SendTypeOK, NEW cmd \in Command, Send(cmd)
  PROVE  SendTypeOK'
<1>1. tx_queue' \in Seq(Command)  BY SentLast DEF SendTypeOK, Send
<1>2. data_credit_available' \in 0..CreditWrap - 1  BY DEF SendTypeOK, Send
<1>3. QED  BY <1>1, <1>2 DEF SendTypeOK

(* Every command is one.                                                   *)
LEMMA CmdType == \A k \in Kinds : Cmd(k) \in Command
BY DEF Cmd, Command

-----------------------------------------------------------------------------
(* The index of the page buffer is far from its width.                     *)
LEMMA IndexStays ==
  m_page_buff_index \in 0..PageSize - 1 => NextIndex = m_page_buff_index + 1
BY DEF NextIndex, IndexWrap

(***************************************************************************)
(* Type correctness, one step per action.                                  *)
(***************************************************************************)
LEMMA InitTypeOK == Init => TypeOK
BY DEF Init, TypeOK, States, PC, Cell, Blank, Zero, Mixed, Old, Command

(* Every action keeps the types.                                           *)
LEMMA StepTypeOK == TypeOK /\ [Next]_vars => TypeOK'
<1> SUFFICES ASSUME TypeOK, [Next]_vars PROVE TypeOK'
  OBVIOUS
<1>send. SendTypeOK  BY DEF TypeOK, SendTypeOK
<1>1. ASSUME NEW size \in ImageSizes, ImageSizeSet(size) PROVE TypeOK'
  <2>1. Cmd("start_ok") \in Command  BY CmdType DEF Kinds, DataKinds
  <2>2. SendTypeOK'  BY <1>1, <1>send, <2>1, SendType DEF ImageSizeSet
  <2>3. QED
    BY <1>1, <2>2
    DEF ImageSizeSet, TypeOK, SendTypeOK, States, pageVars, handlerVars
<1>2. ASSUME InitPacket PROVE TypeOK'
  <2>1. Cmd("init_ok") \in Command  BY CmdType DEF Kinds, DataKinds
  <2>2. SendTypeOK'  BY <1>2, <1>send, <2>1, SendType DEF InitPacket
  <2>3. QED
    BY <1>2, <2>2
    DEF InitPacket, TypeOK, SendTypeOK, dfuVars, pageVars, handlerVars
<1>3. ASSUME NEW n \in PacketLens, DataPacket(Firmware(n)) PROVE TypeOK'
  <2>1. [kind |-> "notif", value |-> m_num_of_firmware_bytes_rcvd] \in Command
    BY DEF Command, Kinds, DataKinds, TypeOK
  <2>2. /\ SendTypeOK'
        /\ m_pkt_notif_target_cnt' \in Nat
        /\ m_pkt_notif_target # 0 => m_pkt_notif_target_cnt' # 0
    <3>1. CASE m_pkt_notif_target = 0
      BY <1>3, <1>send, <3>1
      DEF DataPacket, NotifyReceipt, TypeOK, SendTypeOK, sendVars
    <3>2. CASE m_pkt_notif_target # 0 /\ m_pkt_notif_target_cnt = 1
      <4>1. /\ m_pkt_notif_target_cnt' = m_pkt_notif_target
            /\ Send([kind |-> "notif", value |-> m_num_of_firmware_bytes_rcvd])
        BY <1>3, <3>2 DEF DataPacket, NotifyReceipt
      <4>2. SendTypeOK'  BY <1>send, <2>1, <4>1, SendType
      <4>3. QED  BY <3>2, <4>1, <4>2 DEF TypeOK
    <3>3. CASE m_pkt_notif_target # 0 /\ m_pkt_notif_target_cnt # 1
      BY <1>3, <1>send, <3>3
      DEF DataPacket, NotifyReceipt, TypeOK, SendTypeOK, sendVars
    <3>4. QED  BY <3>1, <3>2, <3>3
  <2>3. Firmware(n) \in Seq(Nat) /\ Len(Firmware(n)) = n
    BY DEF Firmware, TypeOK
  <2>4. QED
    BY <1>3, <2>2, <2>3
    DEF DataPacket, TypeOK, SendTypeOK, PC, pageVars
<1>4. ASSUME StoreByte PROVE TypeOK'
  <2> DEFINE ready == IF m_page_buff_index = 0 THEN Erased(flash, m_page_address)
                                               ELSE flash
             buff == [m_page_buff EXCEPT ![m_page_buff_index] = packet[next_byte + 1]]
  <2>1. ready \in Flash  BY ErasedType DEF TypeOK, Flash
  <2>2. packet[next_byte + 1] \in Nat
    BY <1>4, ElementOfSeq DEF StoreByte, TypeOK
  <2>3. buff \in Buffer  BY <2>2 DEF TypeOK, Buffer
  <2>4. PageWritten(ready, m_page_address, buff) \in Flash
    BY <2>1, <2>3, WrittenType DEF TypeOK
  <2>5. /\ flash' \in Flash
        /\ m_page_buff' \in Buffer
        /\ m_page_buff_index' \in 0..PageSize - 1
        /\ m_page_address' \in Nat
        /\ next_byte' \in 0..Len(packet)
    BY <1>4, <2>1, <2>3, <2>4, IndexStays DEF StoreByte, PageReady, PageFull, TypeOK
  <2>6. QED
    BY <1>4, <2>5
    DEF StoreByte, TypeOK, Flash, Buffer, dfuVars, sendVars
<1>5. ASSUME PacketDone PROVE TypeOK'
  <2>1. Cmd("receive_ok") \in Command  BY CmdType DEF Kinds, DataKinds
  <2>2. SendTypeOK'
    BY <1>5, <1>send, <2>1, SendType DEF PacketDone, SendTypeOK, sendVars
  <2>3. PageWritten(flash, m_page_address, m_page_buff) \in Flash
    BY WrittenType DEF TypeOK, Flash, Buffer
  <2>4. flash' \in Flash /\ m_page_address' \in Nat
    BY <1>5, <2>3 DEF PacketDone, FinalPageWritten, TypeOK, Flash
  <2>5. BytesReceived \in Nat  BY DEF BytesReceived, TypeOK
  <2>6. << >> \in Seq(Nat) /\ Len(<< >>) = 0  OBVIOUS
  <2>7. QED
    BY <1>5, <2>2, <2>4, <2>5, <2>6
    DEF PacketDone, TypeOK, SendTypeOK, Flash, PC
<1>6. ASSUME ReceiveInit PROVE TypeOK'
  BY <1>6 DEF ReceiveInit, TypeOK, States, pageVars, handlerVars, sendVars
<1>7. ASSUME ReceiveFw PROVE TypeOK'
  BY <1>7 DEF ReceiveFw, TypeOK, States, pageVars, handlerVars, sendVars
<1>8. ASSUME Validate PROVE TypeOK'
  <2>1. Cmd("validate_ok") \in Command  BY CmdType DEF Kinds, DataKinds
  <2>2. SendTypeOK'
    BY <1>8, <1>send, <2>1, SendType DEF Validate, SendTypeOK, sendVars
  <2>3. QED
    BY <1>8, <2>2 DEF Validate, TypeOK, SendTypeOK, States, pageVars, handlerVars
<1>9. ASSUME Activate PROVE TypeOK'
  <2>1. Cmd("disconnect") \in Command  BY CmdType DEF Kinds
  <2>2. tx_queue' \in Seq(Command)
    BY <1>9, <1>send, <2>1, SentLast DEF Activate, SendTypeOK
  <2>3. QED
    BY <1>9, <2>2 DEF Activate, TypeOK, PC, dfuVars, pageVars, handlerVars
<1>10. ASSUME SysReset PROVE TypeOK'
  <2>1. Cmd("radio_reset") \in Command  BY CmdType DEF Kinds
  <2>2. tx_queue' \in Seq(Command)
    BY <1>10, <1>send, <2>1, SentLast DEF SysReset, SendTypeOK
  <2>3. QED
    BY <1>10, <2>2 DEF SysReset, TypeOK, States, PC, pageVars, handlerVars
<1>11. ASSUME NEW target \in NotifTargets, NotificationSet(target) PROVE TypeOK'
  BY <1>11 DEF NotificationSet, TypeOK, pageVars, handlerVars, sendVars
<1>12. ASSUME Transfer PROVE TypeOK'
  <2>1. Tail(tx_queue) \in Seq(Command)
    BY <1>12, HeadTailProperties DEF Transfer, TypeOK
  <2>2. QED
    BY <1>12, <2>1 DEF Transfer, TypeOK, dfuVars, pageVars, handlerVars
<1>13. ASSUME NEW n \in 1..MaxInRadio, CreditReturned(n) PROVE TypeOK'
  BY <1>13 DEF CreditReturned, TypeOK, dfuVars, pageVars, handlerVars
<1>14. ASSUME UNCHANGED vars PROVE TypeOK'
  BY <1>14 DEF vars, TypeOK, dfuVars, pageVars, handlerVars, sendVars
<1>15. QED
  BY <1>1, <1>2, <1>3, <1>4, <1>5, <1>6, <1>7, <1>8, <1>9, <1>10, <1>11,
     <1>12, <1>13, <1>14
  DEF Next, AnyPacket, AnyOpcode

(* Every variable of dfu.c keeps the type its C declaration gives it.      *)
THEOREM TypeCorrect == Spec => []TypeOK
BY InitTypeOK, StepTypeOK, PTL DEF Spec

-----------------------------------------------------------------------------
(***************************************************************************)
(* The stream of firmware bytes.  Every action but three leaves the page,  *)
(* the packet and the counts alone.                                        *)
(***************************************************************************)
LEMMA StreamFrame ==
  ASSUME TypeOK, StreamInv,
         UNCHANGED <<m_num_of_firmware_bytes_rcvd, pageVars, handlerVars>>,
         pc' = pc \/ (pc # "data" /\ pc' # "data")
  PROVE  StreamInv'
BY DEF StreamInv, PacketIsStream, AddressAhead, StreamFaithful, NothingBeyond,
       BytesReceived, Handled, InStep, pageVars, handlerVars

(* The stream invariant holds after a reset.                               *)
LEMMA InitStreamInv == Init => StreamInv
<1> SUFFICES ASSUME Init PROVE StreamInv
  OBVIOUS
<1>1. 0 % PageSize = 0  OBVIOUS
<1>2. QED
  BY <1>1
  DEF Init, StreamInv, PacketIsStream, AddressAhead, StreamFaithful,
      NothingBeyond, BytesReceived, Handled, InStep

(* A packet taken in hand is the next piece of the stream.                 *)
LEMMA DataPacketStreamInv ==
  ASSUME TypeOK, StreamInv, NEW n \in PacketLens,
         m_num_of_firmware_bytes_rcvd + n <= MaxBytes, DataPacket(Firmware(n))
  PROVE  StreamInv'
<1>1. Len(Firmware(n)) = n /\ \A k \in 1..n : Firmware(n)[k] = m_num_of_firmware_bytes_rcvd + k - 1
  BY DEF Firmware, TypeOK
<1>2. PacketIsStream'
  BY <1>1 DEF DataPacket, PacketIsStream, BytesReceived
<1>3. Handled' = Handled
  BY DEF DataPacket, StreamInv, PacketIsStream, Handled
<1>4. QED
  BY <1>2, <1>3
  DEF DataPacket, StreamInv, AddressAhead, StreamFaithful, NothingBeyond,
      InStep, pageVars

(* The byte loop: a page is erased before its first byte and written after *)
(* its last, so the byte stored goes to its place and no other cell        *)
(* changes.                                                                *)
LEMMA StoreByteStreamInv ==
  ASSUME TypeOK, StreamInv, StoreByte
  PROVE  StreamInv'
<1> DEFINE addr == m_page_address
           idx == m_page_buff_index
           byte == packet[next_byte + 1]
           ready == IF idx = 0 THEN Erased(flash, addr) ELSE flash
           buff == [m_page_buff EXCEPT ![idx] = byte]
<1>types. /\ addr \in Nat
          /\ idx \in 0..PageSize - 1
          /\ next_byte \in Nat /\ Len(packet) \in Nat
          /\ m_num_of_firmware_bytes_rcvd \in Nat
          /\ Handled \in Nat
          /\ m_page_buff \in [0..PageSize - 1 -> Nat \cup {Zero}]
          /\ flash \in [0..FlashSize - 1 -> Cell]
  BY DEF TypeOK, Handled
<1>1. PacketIsStream'
  BY DEF StoreByte, StreamInv, PacketIsStream, BytesReceived, dfuVars
<1>2. Handled' = Handled + 1
  BY <1>types DEF StoreByte, Handled, dfuVars
<1>3. m_page_address' + m_page_buff_index' = addr + idx + 1
  <2>1. CASE idx + 1 = PageSize
    <3>1. m_page_buff_index' = 0 /\ m_page_address' = addr + PageSize
      BY <2>1, IndexStays DEF StoreByte, PageFull, TypeOK
    <3>2. QED  BY <1>types, <2>1, <3>1
  <2>2. CASE idx + 1 # PageSize
    <3>1. m_page_buff_index' = idx + 1 /\ m_page_address' = addr
      BY <2>2, IndexStays DEF StoreByte, PageFull, TypeOK
    <3>2. QED  BY <1>types, <3>1
  <2>3. QED  BY <2>1, <2>2
<1>4. InStep' <=> InStep
  BY <1>2, <1>3 DEF InStep, TypeOK, Handled
<1>5. CASE ~InStep
  BY <1>1, <1>2, <1>3, <1>4, <1>5
  DEF StreamInv, AddressAhead, StreamFaithful, NothingBeyond, TypeOK, Handled, InStep
<1>6. CASE InStep
  <2>1. byte = addr + idx
    <3>1. addr + idx = m_num_of_firmware_bytes_rcvd + next_byte
      BY <1>6 DEF InStep, Handled
    <3>2. next_byte + 1 \in 1..Len(packet)  BY <1>types DEF StoreByte
    <3>3. byte = m_num_of_firmware_bytes_rcvd + (next_byte + 1) - 1
      BY <3>2 DEF StoreByte, StreamInv, PacketIsStream
    <3>4. QED  BY <1>types, <3>1, <3>3
  <2>2. addr + idx < MaxBytes /\ addr < FlashSize /\ addr % PageSize = 0
    BY <1>6
    DEF StoreByte, StreamInv, PacketIsStream, AddressAhead, BytesReceived,
        InStep, Handled, TypeOK
  <2>3. /\ PageCells(addr) = addr..addr + PageSize - 1
        /\ \A a \in PageCells(addr) : FilledFrom(addr, a) = a - addr
    BY <2>2, AlignedPage DEF TypeOK
  <2>4. /\ DOMAIN ready = 0..FlashSize - 1
        /\ \A a \in 0..addr - 1 : ready[a] = a
        /\ \A a \in addr..FlashSize - 1 :
             ready[a] = IF a < addr + PageSize THEN Blank ELSE Old
    <3>1. CASE idx = 0
      BY <1>6, <2>2, <2>3, <3>1
      DEF StreamInv, StreamFaithful, NothingBeyond, Erased, TypeOK
    <3>2. CASE idx # 0
      BY <1>6, <2>2, <3>2 DEF StreamInv, StreamFaithful, NothingBeyond, TypeOK
    <3>3. QED  BY <3>1, <3>2
  <2>5. \A k \in 0..idx : buff[k] = addr + k
    <3> HIDE DEF byte
    <3>1. buff[idx] = addr + idx  BY <1>types, <2>1
    <3>2. \A k \in 0..idx - 1 : buff[k] = m_page_buff[k]  BY <1>types
    <3>3. \A k \in 0..idx - 1 : m_page_buff[k] = addr + k
      BY <1>6 DEF StreamInv, StreamFaithful
    <3>4. QED  BY <1>types, <3>1, <3>2, <3>3
  <2>6. CASE idx + 1 = PageSize
    <3>1. /\ m_page_buff_index' = 0
          /\ m_page_address' = addr + PageSize
          /\ flash' = PageWritten(ready, addr, buff)
      BY <2>6, IndexStays DEF StoreByte, PageFull, PageReady, TypeOK
    <3>2. ASSUME NEW a \in PageCells(addr), a < FlashSize PROVE flash'[a] = a
      <4> HIDE DEF buff, ready
      <4>1. /\ a \in addr..addr + PageSize - 1
            /\ FilledFrom(addr, a) = a - addr
            /\ a - addr \in 0..idx
        BY <1>types, <2>3, <2>6
      <4>2. buff[FilledFrom(addr, a)] = a  BY <1>types, <2>5, <4>1
      <4>3. ready[a] = Blank /\ a \in DOMAIN ready
        BY <1>types, <2>4, <3>2, <4>1
      <4>4. flash'[a] = Program(ready[a], buff[FilledFrom(addr, a)])
        BY <3>1, <4>3 DEF PageWritten
      <4>5. QED  BY <4>2, <4>3, <4>4, ProgramBlank
    <3>3. \A a \in 0..FlashSize - 1 : a \notin PageCells(addr) => flash'[a] = ready[a]
      BY <2>4, <3>1 DEF PageWritten
    <3>4. m_page_address' % PageSize = 0
      BY <2>2, <3>1, NextPageAligned DEF TypeOK
    <3>5. AddressAhead'
      BY <1>2, <1>3, <3>4 DEF AddressAhead, StreamInv, TypeOK, Handled
    <3>6. addr + PageSize <= FlashSize
      BY <2>1, <2>2, <2>6 DEF TypeOK
    <3>7. StreamFaithful'
      <4> HIDE DEF ready
      <4>1. ASSUME NEW a \in 0..addr - 1 PROVE flash'[a] = a
        <5>1. a \in 0..FlashSize - 1 /\ a \notin PageCells(addr)
          BY <1>types, <2>2, <2>3
        <5>2. QED  BY <2>4, <3>3, <5>1
      <4>2. ASSUME NEW a \in addr..addr + PageSize - 1 PROVE flash'[a] = a
        <5>1. a \in PageCells(addr) /\ a < FlashSize  BY <1>types, <2>3, <3>6
        <5>2. QED  BY <3>2, <5>1
      <4>3. ASSUME NEW a \in 0..addr + PageSize - 1 PROVE flash'[a] = a
        <5>1. CASE a < addr  BY <1>types, <4>1, <5>1
        <5>2. CASE a >= addr  BY <1>types, <4>2, <5>2
        <5>3. QED  BY <1>types, <5>1, <5>2
      <4>4. \A k \in 0..m_page_buff_index' - 1 :
              m_page_buff'[k] = m_page_address' + k
        BY <3>1
      <4>5. \A a \in 0..m_page_address' - 1 : flash'[a] = a
        <5>1. \A a \in 0..addr + PageSize - 1 : flash'[a] = a  BY <4>3
        <5>2. m_page_address' = addr + PageSize  BY <3>1
        <5>3. QED  BY <1>types, <5>1, <5>2
      <4>6. QED  BY <4>4, <4>5 DEF StreamFaithful
    <3>8. NothingBeyond'
      <4>1. \A a \in addr + PageSize..FlashSize - 1 : flash'[a] = Old
        BY <2>3, <2>4, <3>3 DEF TypeOK
      <4>2. QED  BY <3>1, <4>1 DEF NothingBeyond
    <3>9. QED  BY <1>1, <3>5, <3>7, <3>8 DEF StreamInv
  <2>7. CASE idx + 1 # PageSize
    <3>1. /\ m_page_buff_index' = idx + 1
          /\ m_page_address' = addr
          /\ flash' = ready
          /\ m_page_buff' = buff
      BY <2>7, IndexStays DEF StoreByte, PageFull, PageReady, TypeOK
    <3>2. AddressAhead'
      BY <1>2, <1>3, <2>2, <3>1 DEF AddressAhead, StreamInv, TypeOK, Handled
    <3>3. StreamFaithful'
      BY <2>4, <2>5, <3>1 DEF StreamFaithful, TypeOK
    <3>4. NothingBeyond'
      BY <2>4, <3>1 DEF NothingBeyond, TypeOK
    <3>5. QED  BY <1>1, <3>2, <3>3, <3>4 DEF StreamInv
  <2>8. QED  BY <2>6, <2>7
<1>7. QED  BY <1>5, <1>6

(* The final write puts the address ahead of the count for good.           *)
LEMMA PacketDoneStreamInv ==
  ASSUME TypeOK, StreamInv, PacketDone
  PROVE  StreamInv'
<1>1. PacketIsStream'
  BY DEF PacketDone, StreamInv, PacketIsStream, BytesReceived, TypeOK
<1>2. Handled' = Handled
  BY DEF PacketDone, BytesReceived, Handled, TypeOK
<1>3. CASE m_image_size = BytesReceived
  <2>1. m_page_address' = m_page_address + 1 /\ UNCHANGED m_page_buff_index
    BY <1>3 DEF PacketDone
  <2>2. m_page_address' + m_page_buff_index' > Handled'
    BY <1>2, <2>1 DEF StreamInv, AddressAhead, TypeOK, Handled
  <2>3. ~InStep'
    <3>1. m_page_address + 1 + m_page_buff_index # Handled
      BY DEF StreamInv, AddressAhead, TypeOK, Handled
    <3>2. QED  BY <1>2, <2>1, <3>1 DEF InStep
  <2>4. QED
    BY <1>1, <1>2, <2>1, <2>2, <2>3
    DEF StreamInv, AddressAhead, StreamFaithful, NothingBeyond, TypeOK, Handled
<1>4. CASE m_image_size # BytesReceived
  BY <1>1, <1>2, <1>4
  DEF PacketDone, StreamInv, AddressAhead, StreamFaithful, NothingBeyond, InStep
<1>5. QED  BY <1>3, <1>4

(* Every action preserves the stream invariant.                            *)
LEMMA StepStreamInv == TypeOK /\ StreamInv /\ [Next]_vars => StreamInv'
<1> SUFFICES ASSUME TypeOK, StreamInv, [Next]_vars PROVE StreamInv'
  OBVIOUS
<1>1. ASSUME NEW size \in ImageSizes, ImageSizeSet(size) PROVE StreamInv'
  BY <1>1, StreamFrame DEF ImageSizeSet
<1>2. ASSUME InitPacket PROVE StreamInv'
  BY <1>2, StreamFrame DEF InitPacket, dfuVars
<1>3. ASSUME ReceiveInit \/ ReceiveFw \/ Validate PROVE StreamInv'
  BY <1>3, StreamFrame DEF ReceiveInit, ReceiveFw, Validate
<1>4. ASSUME Activate PROVE StreamInv'
  BY <1>4, StreamFrame DEF Activate, dfuVars
<1>5. ASSUME SysReset PROVE StreamInv'
  BY <1>5, StreamFrame DEF SysReset
<1>6. ASSUME NEW target \in NotifTargets, NotificationSet(target) PROVE StreamInv'
  BY <1>6, StreamFrame DEF NotificationSet
<1>7. ASSUME Transfer PROVE StreamInv'
  BY <1>7, StreamFrame DEF Transfer, dfuVars
<1>8. ASSUME NEW n \in 1..MaxInRadio, CreditReturned(n) PROVE StreamInv'
  BY <1>8, StreamFrame DEF CreditReturned, dfuVars
<1>9. ASSUME UNCHANGED vars PROVE StreamInv'
  BY <1>9, StreamFrame DEF vars, dfuVars
<1>10. QED
  BY <1>1, <1>2, <1>3, <1>4, <1>5, <1>6, <1>7, <1>8, <1>9,
     DataPacketStreamInv, StoreByteStreamInv, PacketDoneStreamInv
  DEF Next, AnyPacket, AnyOpcode

(* Both invariants hold in every behaviour.                                *)
LEMMA StreamInvariant == Spec => [](TypeOK /\ StreamInv)
BY InitTypeOK, StepTypeOK, InitStreamInv, StepStreamInv, PTL DEF Spec

(* Whatever the central sends and however it cuts the firmware into        *)
(* packets, every byte accepted is in its place, in flash or in the page   *)
(* buffer, until the image is complete.                                    *)
THEOREM StreamIsFaithful == Spec => []StreamFaithful
BY StreamInvariant, PTL DEF StreamInv

(* Until then, nothing beyond the page being filled is touched.            *)
THEOREM NothingBeyondIsTouched == Spec => []NothingBeyond
BY StreamInvariant, PTL DEF StreamInv

(* When the image is first reported as received, all of it is in flash.    *)
LEMMA ReportedImage ==
  ASSUME TypeOK, StreamInv, InStep, PacketDone, ReportsReceived
  PROVE  \A a \in 0..m_image_size - 1 : flash'[a] = a
<1> DEFINE addr == m_page_address
           idx == m_page_buff_index
<1>types. /\ addr \in Nat
          /\ idx \in 0..PageSize - 1
          /\ BytesReceived \in Nat
          /\ flash \in [0..FlashSize - 1 -> Cell]
  BY DEF TypeOK, BytesReceived
<1>1. m_image_size = BytesReceived
  <2>1. Append(tx_queue, Cmd("receive_ok")) # tx_queue
    BY CmdType, AppendProperties DEF TypeOK, Kinds, DataKinds
  <2>2. QED  BY <2>1 DEF PacketDone, ReportsReceived, sendVars
<1>2. flash' = PageWritten(flash, addr, m_page_buff)
  BY <1>1 DEF PacketDone, FinalPageWritten
<1>3. BytesReceived = addr + idx /\ addr < FlashSize /\ addr % PageSize = 0
      /\ addr + idx < FlashSize
  BY <1>types
  DEF PacketDone, InStep, Handled, BytesReceived, StreamInv, AddressAhead,
      PacketIsStream
<1>4. /\ PageCells(addr) = addr..addr + PageSize - 1
      /\ \A a \in PageCells(addr) : FilledFrom(addr, a) = a - addr
  BY <1>types, <1>3, AlignedPage
<1>5. ASSUME NEW a \in 0..addr - 1 PROVE flash'[a] = a
  <2>1. a \in 0..FlashSize - 1 /\ a \notin PageCells(addr)
    BY <1>types, <1>3, <1>4
  <2>2. flash[a] = a  BY DEF StreamInv, StreamFaithful
  <2>3. QED  BY <1>types, <1>2, <2>1, <2>2 DEF PageWritten
<1>6. ASSUME NEW a \in addr..addr + idx - 1 PROVE flash'[a] = a
  <2>1. a \in 0..FlashSize - 1 /\ a \in PageCells(addr) /\ a - addr \in 0..idx - 1
    BY <1>types, <1>3, <1>4
  <2>2. flash[a] = Blank
    <3>1. idx # 0 /\ a < addr + PageSize /\ a \in addr..FlashSize - 1
      BY <1>types, <2>1
    <3>2. QED  BY <3>1 DEF StreamInv, NothingBeyond
  <2>3. m_page_buff[FilledFrom(addr, a)] = a
    <3>1. m_page_buff[a - addr] = addr + (a - addr)
      BY <2>1 DEF StreamInv, StreamFaithful
    <3>2. QED  BY <1>types, <1>4, <2>1, <3>1
  <2>4. flash'[a] = Program(Blank, a)
    BY <1>types, <1>2, <2>1, <2>2, <2>3 DEF PageWritten
  <2>5. QED  BY <2>4, ProgramBlank
<1>7. QED  BY <1>types, <1>1, <1>3, <1>5, <1>6

(* The report of a received image differs from any other command sent, from *)
(* taking a command out, and from doing nothing.                           *)
LEMMA ReportedOnce ==
  ASSUME TypeOK, ReportsReceived
  PROVE  /\ tx_queue' # tx_queue
         /\ tx_queue # << >> => tx_queue' # Tail(tx_queue)
         /\ \A k \in Kinds \ {"receive_ok"} : tx_queue' \notin AfterSend(tx_queue, Cmd(k))
         /\ \A n \in Nat :
              tx_queue' \notin AfterSend(tx_queue, [kind |-> "notif", value |-> n])
<1> DEFINE ok == Cmd("receive_ok")
<1>1. ok \in Command  BY CmdType DEF Kinds, DataKinds
<1>2. tx_queue \in Seq(Command)  BY DEF TypeOK
<1>3. /\ Len(tx_queue') = Len(tx_queue) + 1
      /\ tx_queue'[Len(tx_queue) + 1] = ok
  BY <1>1, <1>2, AppendProperties DEF ReportsReceived
<1>4. tx_queue' # tx_queue  BY <1>2, <1>3
<1>5. ASSUME tx_queue # << >> PROVE tx_queue' # Tail(tx_queue)
  BY <1>2, <1>3, <1>5, HeadTailProperties
<1>6. ASSUME NEW cmd \in Command, cmd.kind # "receive_ok"
      PROVE  tx_queue' \notin AfterSend(tx_queue, cmd)
  <2>1. cmd # ok  BY <1>6 DEF Cmd
  <2>2. QED  BY <1>2, <1>3, <1>4, <2>1, SentLast
<1>7. \A k \in Kinds : Cmd(k) \in Command /\ Cmd(k).kind = k
  BY CmdType DEF Cmd
<1>8. \A n \in Nat : [kind |-> "notif", value |-> n] \in Command
  BY DEF Command, Kinds, DataKinds
<1>9. QED  BY <1>4, <1>5, <1>6, <1>7, <1>8

(* So only the end of a packet reports that the image was received.        *)
LEMMA OnlyPacketDoneReports ==
  ASSUME TypeOK, Next, ReportsReceived
  PROVE  PacketDone
<1> USE ReportedOnce DEF Kinds, DataKinds
<1>1. ASSUME NEW size \in ImageSizes, ImageSizeSet(size) PROVE FALSE
  BY <1>1 DEF ImageSizeSet, Send
<1>2. ASSUME InitPacket PROVE FALSE
  BY <1>2 DEF InitPacket, Send
<1>3. ASSUME NEW n \in PacketLens, DataPacket(Firmware(n)) PROVE FALSE
  BY <1>3 DEF DataPacket, NotifyReceipt, Send, sendVars, TypeOK
<1>4. ASSUME StoreByte \/ ReceiveInit \/ ReceiveFw PROVE FALSE
  BY <1>4 DEF StoreByte, ReceiveInit, ReceiveFw, sendVars
<1>5. ASSUME Validate PROVE FALSE
  BY <1>5 DEF Validate, Send, sendVars
<1>6. ASSUME Activate PROVE FALSE
  BY <1>6 DEF Activate
<1>7. ASSUME SysReset PROVE FALSE
  BY <1>7 DEF SysReset
<1>8. ASSUME NEW target \in NotifTargets, NotificationSet(target) PROVE FALSE
  BY <1>8 DEF NotificationSet, sendVars
<1>9. ASSUME Transfer PROVE FALSE
  BY <1>9 DEF Transfer
<1>10. ASSUME NEW n \in 1..MaxInRadio, CreditReturned(n) PROVE FALSE
  BY <1>10 DEF CreditReturned
<1>11. QED
  BY <1>1, <1>2, <1>3, <1>4, <1>5, <1>6, <1>7, <1>8, <1>9, <1>10
  DEF Next, AnyPacket, AnyOpcode

(* The first report of a complete image is true: all of it is in flash     *)
(* when it is queued, whatever came before.                                *)
THEOREM SuccessIsTrue == Spec => SuccessMeansImage
<1>1. TypeOK /\ StreamInv /\ [Next]_vars => [ReportIsTrue]_vars
  <2> SUFFICES ASSUME TypeOK, StreamInv, Next, ReportsReceived, InStep
               PROVE  \A a \in 0..m_image_size - 1 : flash'[a] = a
    BY DEF ReportIsTrue
  <2>1. PacketDone  BY OnlyPacketDoneReports
  <2>2. QED  BY <2>1, ReportedImage
<1>2. QED  BY <1>1, StreamInvariant, PTL DEF Spec, SuccessMeansImage
=============================================================================
