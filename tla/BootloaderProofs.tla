-------------------------- MODULE BootloaderProofs --------------------------
(***************************************************************************)
(* Proofs about Bootloader.tla, for every size of page, flash, image,      *)
(* packet and queue, and every number of sessions.                         *)
(***************************************************************************)
EXTENDS Bootloader, SequenceTheorems, TLAPS

USE BootloaderAssumption

(* The lemmas of the pages, for the flash of this device.                  *)
Pages == INSTANCE DfuProofs WITH CreditWrap <- 1, TotalCredit <- 0,
                                 MaxInRadio <- 0,
                                 data_credit_available <- 0, in_radio <- 0,
                                 ImageSizes <- {ImageSize, WrongSize},
                                 PacketLens <- {ChunkLen, SizePacketLen},
                                 NotifTargets <- {0},
                                 MaxBytes <- FlashSize - 1

-----------------------------------------------------------------------------
(* What is on its way to the bootloader: item 0 is the event in hand, the   *)
(* others are those the radio holds.                                       *)
Message == [what : Messages, bytes : Seq(Nat)]
Sendable == [kind : Dfu!Kinds \cup {"connect"}, value : {0}]

(***************************************************************************)
(* Types: TypeOK, and what the messages carry.                             *)
(***************************************************************************)
DfuTyped ==
  /\ m_dfu_state \in Dfu!States
  /\ m_image_size \in Nat
  /\ m_num_of_firmware_bytes_rcvd \in Nat
  /\ packet \in Seq(Nat)
  /\ next_byte \in 0..Len(packet)
  /\ pc \in Dfu!PC
  /\ m_pkt_notif_target = 0

PageTyped ==
  /\ m_page_address \in Nat
  /\ m_page_buff \in [0..PageSize - 1 -> Nat \cup {Dfu!Zero}]
  /\ m_page_buff_index \in 0..PageSize - 1
  /\ flash \in [0..FlashSize - 1 -> Dfu!Cell]

QueueTyped ==
  /\ tx_queue \in Seq(Sendable)
  /\ Len(tx_queue) <= QueueSize

CpuTyped ==
  /\ valid_app \in BOOLEAN
  /\ wdrf \in BOOLEAN
  /\ boot_key \in BOOLEAN
  /\ tx_pipe_open \in BOOLEAN
  /\ mode \in {"reset", "starting", "boot", "app"}
  /\ wdt \in {"off", "16ms", "4s"}

RadioTyped ==
  /\ rx \in Message \cup {None}
  /\ link \in {"off", "standby", "advertising", "connected"}
  /\ to_mcu \in Seq(Message)

CentralTyped ==
  /\ c_state \in CentralStates
  /\ version \in Versions
  /\ c_pos \in 0..ImageSize
  /\ to_central \in Seq(Dfu!Kinds)
  /\ sessions \in 0..MaxSessions
  /\ misled \in BOOLEAN

Typed ==
  /\ DfuTyped
  /\ PageTyped
  /\ QueueTyped
  /\ CpuTyped
  /\ RadioTyped
  /\ CentralTyped

(* They imply TypeOK.                                                      *)
LEMMA TypedIsTypeOK == Typed => TypeOK
<1> SUFFICES ASSUME Typed PROVE TypeOK
  OBVIOUS
<1>1. \A i \in DOMAIN tx_queue : tx_queue[i].kind \in Dfu!Kinds \cup {"connect"}
  <2>1. tx_queue \in Seq(Sendable)  BY DEF Typed, QueueTyped
  <2>2. \A i \in DOMAIN tx_queue : tx_queue[i] \in Sendable
    BY <2>1, LenProperties
  <2>3. QED  BY <2>2 DEF Sendable
<1>2. rx # None => rx.what \in Messages
  BY DEF Typed, RadioTyped, Message
<1>3. \A i \in DOMAIN to_mcu : to_mcu[i].what \in Messages
  <2>1. to_mcu \in Seq(Message)  BY DEF Typed, RadioTyped
  <2>2. \A i \in DOMAIN to_mcu : to_mcu[i] \in Message
    BY <2>1, LenProperties
  <2>3. QED  BY <2>2 DEF Message
<1>4. QED
  BY <1>1, <1>2, <1>3
  DEF Typed, DfuTyped, PageTyped, QueueTyped, CpuTyped, RadioTyped,
      CentralTyped, TypeOK

(* What the bytes of a version are counted from.                           *)
Base(v) == v * Stride

(* It is a number, so the bytes are.                                       *)
LEMMA BaseType == \A v \in Versions : Base(v) \in Nat
<1> SUFFICES ASSUME NEW v \in Versions PROVE Base(v) \in Nat
  OBVIOUS
<1>1. v \in Nat /\ Stride \in Nat  BY DEF Stride
<1>2. QED  BY <1>1 DEF Base

(* What the central sends is a message.                                    *)
LEMMA PlainMessage ==
  \A op \in Messages : Opcode(op) \in Message /\ Event(op) \in Message
BY DEF Opcode, Event, Message

(* So are the packets that announce the size and initialise.               *)
LEMMA PacketMessage ==
  ASSUME NEW v \in Versions
  PROVE  SizePacket(v) \in Message /\ InitMsg(v) \in Message
<1>1. Junk(v) \in Nat  BY BaseType DEF Junk, Base
<1>2. [k \in 1..SizePacketLen |-> Junk(v)] \in Seq(Nat)  BY <1>1
<1>3. QED  BY <1>2 DEF SizePacket, InitMsg, Message, Messages

(* A chunk, byte by byte.                                                  *)
LEMMA ChunkBytes ==
  ASSUME NEW v \in Versions, NEW from \in 0..ImageSize
  PROVE  /\ Chunk(v, from) \in Seq(Nat)
         /\ from < ImageSize => Len(Chunk(v, from)) \in 1..ImageSize - from
         /\ from + Len(Chunk(v, from)) = Min2(from + ChunkLen, ImageSize)
         /\ \A k \in 1..Len(Chunk(v, from)) : Chunk(v, from)[k] = Base(v) + from + k - 1
         /\ DataMsg(v, from) \in Message
<1> DEFINE n == Min2(ChunkLen, ImageSize - from)
<1>1. /\ n \in 0..ImageSize - from
      /\ from < ImageSize => n # 0
      /\ from + n = Min2(from + ChunkLen, ImageSize)
  BY DEF Min2
<1>2. Chunk(v, from) = [k \in 1..n |-> Base(v) + from + k - 1]
  BY DEF Chunk, Base
<1>3. \A k \in 1..n : Base(v) + from + k - 1 \in Nat
  BY <1>1, BaseType
<1>4. Chunk(v, from) \in Seq(Nat) /\ Len(Chunk(v, from)) = n
  <2> HIDE DEF n
  <2>1. n \in Nat  BY <1>1
  <2>2. Chunk(v, from) \in [1..n -> Nat]  BY <1>2, <1>3
  <2>3. \A g \in [1..n -> Nat] : g \in Seq(Nat) /\ Len(g) = n  BY <2>1
  <2>4. QED  BY <2>2, <2>3
<1>5. \A k \in 1..n : Chunk(v, from)[k] = Base(v) + from + k - 1
  BY <1>2
<1>6. DataMsg(v, from) \in Message
  BY <1>4 DEF DataMsg, Message, Messages
<1>7. QED  BY <1>1, <1>4, <1>5, <1>6

-----------------------------------------------------------------------------
(* The initial states are typed.                                           *)
LEMMA InitTyped == Init => Typed
<1> SUFFICES ASSUME Init PROVE Typed
  OBVIOUS
<1>1. DfuTyped
  BY DEF Init, Dfu!Init, DfuTyped, Dfu!States, Dfu!PC
<1>2. PageTyped
  BY DEF Init, Dfu!Init, PageTyped, Dfu!Cell, Dfu!Zero, Dfu!Old
<1>3. /\ QueueTyped
      /\ CpuTyped
      /\ RadioTyped
  <2>1. QueueTyped  BY DEF Init, Dfu!Init, QueueTyped
  <2>2. CpuTyped  BY DEF Init, Dfu!Init, CpuTyped
  <2>3. RadioTyped  BY DEF Init, RadioTyped
  <2>4. QED  BY <2>1, <2>2, <2>3
<1>4. CentralTyped
  <2>1. c_pos \in 0..ImageSize /\ sessions \in 0..MaxSessions  BY DEF Init
  <2>2. misled \in BOOLEAN /\ version \in Versions  BY DEF Init
  <2>3. c_state \in CentralStates /\ to_central \in Seq(Dfu!Kinds)
    BY DEF Init, CentralStates
  <2>4. QED  BY <2>1, <2>2, <2>3 DEF CentralTyped
<1>5. QED  BY <1>1, <1>2, <1>3, <1>4 DEF Typed

(* Restarting the processor clears memory.                                 *)
LEMMA ClearedTyped ==
  ASSUME Typed, MemoryCleared
  PROVE  DfuTyped' /\ PageTyped' /\ QueueTyped'
<1>1. DfuTyped'
  BY DEF MemoryCleared, DfuTyped, Dfu!States, Dfu!PC
<1>2. PageTyped'
  BY DEF MemoryCleared, Typed, PageTyped
<1>3. QueueTyped'
  BY DEF MemoryCleared, QueueTyped
<1>4. QED  BY <1>1, <1>2, <1>3

-----------------------------------------------------------------------------
(* The definitions of Dfu.tla, reached through its proofs.                 *)
LEMMA SamePages ==
  /\ Pages!Cell = Dfu!Cell /\ Pages!Zero = Dfu!Zero
  /\ \A f, addr, buff :
       Pages!PageWritten(f, addr, buff) = Dfu!PageWritten(f, addr, buff)
BY DEF Pages!Cell, Dfu!Cell, Pages!Zero, Dfu!Zero, Pages!Blank, Dfu!Blank,
       Pages!Mixed, Dfu!Mixed, Pages!Old, Dfu!Old, Pages!PageWritten,
       Dfu!PageWritten, Pages!PageCells, Dfu!PageCells, Pages!PageBase,
       Dfu!PageBase, Pages!FilledFrom, Dfu!FilledFrom, Pages!Program,
       Dfu!Program

(* A page write leaves cells.                                              *)
LEMMA WrittenTyped ==
  ASSUME NEW f \in [0..FlashSize - 1 -> Dfu!Cell], NEW addr \in Nat,
         NEW buff \in [0..PageSize - 1 -> Nat \cup {Dfu!Zero}]
  PROVE  Dfu!PageWritten(f, addr, buff) \in [0..FlashSize - 1 -> Dfu!Cell]
<1>1. f \in Pages!Flash /\ buff \in Pages!Buffer
  BY SamePages DEF Pages!Flash, Pages!Buffer
<1>2. Pages!PageWritten(f, addr, buff) \in Pages!Flash
  BY <1>1, Pages!WrittenType DEF Pages!IndexWrap
<1>3. QED  BY <1>2, SamePages DEF Pages!Flash

-----------------------------------------------------------------------------
(* Types, step by step.  A queue with nothing in it takes a command.        *)
LEMMA EmptyTakes ==
  ASSUME tx_queue = << >>
  PROVE  /\ \A cmd : Dfu!AfterSend(tx_queue, cmd) = {<<cmd>>}
         /\ \A cmd : tx_queue' \in Dfu!AfterSend(tx_queue, cmd) =>
              tx_queue' = <<cmd>> /\ Dfu!Queued
         /\ \A cmd : Dfu!Send(cmd) => tx_queue' = <<cmd>>
<1>1. \A cmd : Dfu!AfterSend(tx_queue, cmd) = {<<cmd>>}
  <2>1. Len(tx_queue) < QueueSize  OBVIOUS
  <2>2. \A cmd : Append(tx_queue, cmd) = <<cmd>>  OBVIOUS
  <2>3. QED  BY <2>1, <2>2 DEF Dfu!AfterSend
<1>2. \A cmd : <<cmd>> # tx_queue  OBVIOUS
<1>3. QED  BY <1>1, <1>2 DEF Dfu!Send, Dfu!Queued

(* A queue of at most one command is one.                                  *)
LEMMA OneTyped ==
  ASSUME tx_queue' = << >> \/ \E cmd \in Sendable : tx_queue' = <<cmd>>
  PROVE  QueueTyped'
<1>1. CASE tx_queue' = << >>  BY <1>1 DEF QueueTyped
<1>2. ASSUME NEW cmd \in Sendable, tx_queue' = <<cmd>> PROVE QueueTyped'
  <2>1. <<cmd>> \in Seq(Sendable) /\ Len(<<cmd>>) = 1  OBVIOUS
  <2>2. QED  BY <1>2, <2>1 DEF QueueTyped
<1>3. QED  BY <1>1, <1>2

(* The index of the page buffer is far from its width.                     *)
LEMMA IndexStays ==
  m_page_buff_index \in 0..PageSize - 1 => Dfu!NextIndex = m_page_buff_index + 1
BY DEF Dfu!NextIndex, Dfu!IndexWrap

(* The bytes of a packet, as they are stored.                              *)
LEMMA StoreByteTyped ==
  ASSUME Typed, Dfu!StoreByte
  PROVE  DfuTyped' /\ PageTyped' /\ QueueTyped' /\ UNCHANGED <<valid_app, tx_pipe_open>>
<1> DEFINE idx == m_page_buff_index
           byte == packet[next_byte + 1]
           buff == [m_page_buff EXCEPT ![idx] = byte]
<1>types. DfuTyped /\ PageTyped /\ QueueTyped  BY DEF Typed
<1>1. byte \in Nat /\ next_byte + 1 \in 0..Len(packet)
  <2>1. next_byte + 1 \in 1..Len(packet)
    BY <1>types DEF DfuTyped, Dfu!StoreByte
  <2>2. QED  BY <1>types, <2>1, ElementOfSeq DEF DfuTyped
<1>2. buff \in [0..PageSize - 1 -> Nat \cup {Dfu!Zero}]
  <2> HIDE DEF byte
  <2>1. QED  BY <1>types, <1>1 DEF PageTyped
<1>3. Dfu!PageReady \in [0..FlashSize - 1 -> Dfu!Cell]
  BY <1>types DEF PageTyped, Dfu!PageReady, Dfu!Erased, Dfu!Cell, Dfu!Blank
<1>4. Dfu!PageWritten(Dfu!PageReady, m_page_address, buff)
        \in [0..FlashSize - 1 -> Dfu!Cell]
  <2> HIDE DEF buff
  <2>1. QED  BY <1>types, <1>2, <1>3, WrittenTyped DEF PageTyped
<1>5. DfuTyped'
  BY <1>types, <1>1 DEF Dfu!StoreByte, Dfu!dfuVars, DfuTyped
<1>6. PageTyped'
  <2>1. CASE Dfu!PageFull
    <3>1. /\ m_page_buff' = buff
          /\ m_page_buff_index' = 0
          /\ flash' = Dfu!PageWritten(Dfu!PageReady, m_page_address, buff)
          /\ m_page_address' = m_page_address + PageSize
      BY <2>1 DEF Dfu!StoreByte
    <3> HIDE DEF buff
    <3>2. 0 \in 0..PageSize - 1 /\ m_page_address + PageSize \in Nat
      BY <1>types DEF PageTyped
    <3>3. QED  BY <1>2, <1>4, <3>1, <3>2 DEF PageTyped
  <2>2. CASE ~Dfu!PageFull
    <3>1. /\ m_page_buff' = buff
          /\ m_page_buff_index' = idx + 1
          /\ flash' = Dfu!PageReady
          /\ m_page_address' = m_page_address
      BY <1>types, <2>2, IndexStays DEF Dfu!StoreByte, PageTyped
    <3>2. idx + 1 \in 0..PageSize - 1
      BY <1>types, <2>2, IndexStays DEF PageTyped, Dfu!PageFull
    <3> HIDE DEF buff
    <3>3. QED  BY <1>types, <1>2, <1>3, <3>1, <3>2 DEF PageTyped
  <2>3. QED  BY <2>1, <2>2
<1>7. QueueTyped' /\ UNCHANGED <<valid_app, tx_pipe_open>>
  BY <1>types DEF Dfu!StoreByte, Dfu!sendVars, QueueTyped
<1>8. QED  BY <1>5, <1>6, <1>7

(* The end of a packet.                                                    *)
LEMMA PacketDoneTyped ==
  ASSUME Typed, tx_queue = << >>, Dfu!PacketDone
  PROVE  DfuTyped' /\ PageTyped' /\ QueueTyped' /\ UNCHANGED <<valid_app, tx_pipe_open>>
<1>types. DfuTyped /\ PageTyped /\ QueueTyped  BY DEF Typed
<1>1. Dfu!FinalPageWritten \in [0..FlashSize - 1 -> Dfu!Cell]
  BY <1>types, WrittenTyped DEF PageTyped, Dfu!FinalPageWritten
<1>2. PageTyped'
  BY <1>types, <1>1 DEF Dfu!PacketDone, PageTyped
<1>3. DfuTyped'
  <2>1. Dfu!BytesReceived \in Nat  BY <1>types DEF DfuTyped, Dfu!BytesReceived
  <2>2. QED  BY <1>types, <2>1 DEF Dfu!PacketDone, DfuTyped, Dfu!PC
<1>4. QueueTyped'
  <2>1. CASE Dfu!Send(Dfu!Cmd("receive_ok"))
    <3>1. Dfu!Cmd("receive_ok") \in Sendable
      BY DEF Dfu!Cmd, Sendable, Dfu!Kinds, Dfu!DataKinds
    <3>2. QED  BY <2>1, <3>1, EmptyTakes, OneTyped
  <2>2. CASE UNCHANGED Dfu!sendVars
    BY <1>types, <2>2 DEF Dfu!sendVars, QueueTyped
  <2>3. QED  BY <2>1, <2>2 DEF Dfu!PacketDone
<1>5. QED  BY <1>2, <1>3, <1>4 DEF Dfu!PacketDone

-----------------------------------------------------------------------------
(***************************************************************************)
(* The processor by itself.  Outside the loop its memory is clear; in it,  *)
(* at most one command is queued, and none while an event or a packet is   *)
(* in hand; no packet is in hand but in the byte loop.                     *)
(***************************************************************************)
Packets == {"size", "data"}
Single(kind) == <<Dfu!Cmd(kind)>>

Cleared ==
  /\ m_dfu_state = "ST_IDLE"
  /\ m_image_size = 0
  /\ m_num_of_firmware_bytes_rcvd = 0
  /\ m_page_address = 0
  /\ m_page_buff_index = 0
  /\ pc = "poll"
  /\ packet = << >>
  /\ tx_queue = << >>
  /\ rx = None

ModeInv ==
  /\ mode # "boot" => Cleared
  /\ mode = "app" => /\ valid_app
                     /\ link = "standby"
                     /\ to_mcu = << >>
                     /\ to_central = << >>
                     /\ c_state = "away"
  /\ mode = "boot" => boot_key
  /\ mode = "starting" => ~MayJump

QueueInv ==
  /\ tx_queue = << >> \/ \E cmd \in Sendable : tx_queue = <<cmd>>
  /\ rx # None \/ pc = "data" => tx_queue = << >>

HandlerInv ==
  /\ pc # "radio_reset"
  /\ pc = "data" => rx = None /\ m_dfu_state = "ST_RX_DATA_PKT"
  /\ pc # "data" => packet = << >> /\ next_byte = 0
  /\ pc = "activate" => m_dfu_state = "ST_FW_VALID"

ProcInv == ModeInv /\ QueueInv /\ HandlerInv

-----------------------------------------------------------------------------
(* What one event does, whatever led to it.                                *)
Undisturbed == UNCHANGED <<m_dfu_state, m_image_size, packet, next_byte, pc, valid_app>>

HandlesRestart ==
  /\ rx.what \in Restarts
  /\ tx_queue' = <<Connect>>
  /\ Undisturbed

HandlesSize ==
  /\ rx.what \in Packets
  /\ m_dfu_state = "ST_IDLE"
  /\ m_dfu_state' = "ST_RDY"
  /\ m_image_size' = IF rx.what = "size" THEN ImageSize ELSE WrongSize
  /\ tx_queue' = Single("start_ok")
  /\ UNCHANGED <<packet, next_byte, pc, valid_app>>

HandlesInit ==
  /\ rx.what \in Packets
  /\ m_dfu_state = "ST_RX_INIT_PKT"
  /\ tx_queue' = Single("init_ok")
  /\ Undisturbed

HandlesData ==
  /\ rx.what \in Packets
  /\ m_dfu_state = "ST_RX_DATA_PKT"
  /\ packet' = rx.bytes
  /\ next_byte' = 0
  /\ pc' = "data"
  /\ tx_queue' = << >>
  /\ UNCHANGED <<m_dfu_state, m_image_size, valid_app>>

HandlesSysReset ==
  /\ rx.what = "SYS_RESET"
  /\ m_dfu_state' = "ST_IDLE"
  /\ tx_queue' = Single("radio_reset")
  /\ UNCHANGED <<m_image_size, packet, next_byte, pc, valid_app>>

HandlesReceiveInit ==
  /\ rx.what = "RECEIVE_INIT"
  /\ m_dfu_state = "ST_RDY"
  /\ m_dfu_state' = "ST_RX_INIT_PKT"
  /\ tx_queue' = << >>
  /\ UNCHANGED <<m_image_size, packet, next_byte, pc, valid_app>>

HandlesReceiveFw ==
  /\ rx.what = "RECEIVE_FW"
  /\ valid_app' = (valid_app /\ m_dfu_state \notin {"ST_RDY", "ST_RX_INIT_PKT"})
  /\ m_dfu_state' = "ST_RX_DATA_PKT"
  /\ tx_queue' = << >>
  /\ UNCHANGED <<m_image_size, packet, next_byte, pc>>

HandlesValidate ==
  /\ rx.what = "VALIDATE"
  /\ m_dfu_state = "ST_RX_DATA_PKT"
  /\ m_dfu_state' = "ST_FW_VALID"
  /\ tx_queue' = IF Dfu!Complete THEN Single("validate_ok") ELSE << >>
  /\ UNCHANGED <<m_image_size, packet, next_byte, pc, valid_app>>

HandlesActivate ==
  /\ rx.what = "ACTIVATE"
  /\ m_dfu_state = "ST_FW_VALID"
  /\ valid_app' = TRUE
  /\ tx_queue' = Single("disconnect")
  /\ pc' = "activate"
  /\ UNCHANGED <<m_dfu_state, m_image_size, packet, next_byte>>

Ignores ==
  /\ rx.what \in Packets \cup {"VALIDATE"} => m_dfu_state # "ST_RX_DATA_PKT"
  /\ tx_queue' = << >>
  /\ Undisturbed

Handles ==
  \/ pc = "poll" /\ \/ HandlesRestart
                    \/ HandlesSize
                    \/ HandlesInit
                    \/ HandlesData
                    \/ HandlesSysReset
                    \/ HandlesReceiveInit
                    \/ HandlesReceiveFw
                    \/ HandlesValidate
                    \/ HandlesActivate
  \/ Ignores

(* An event handled is gone, and the flash, the page buffer, the count and  *)
(* the world outside are as they were.                                     *)
HandlingFrame ==
  /\ mode = "boot" /\ rx # None /\ tx_queue = << >>
  /\ rx' = None
  /\ tx_pipe_open' \in BOOLEAN
  /\ UNCHANGED <<cpuVars, radioVars, centralVars, to_central, m_page_address,
                 m_page_buff, m_page_buff_index, flash, m_pkt_notif_target,
                 m_num_of_firmware_bytes_rcvd>>

(* So much for the handlers: every event is one of these cases.            *)
LEMMA EventHandled ==
  ASSUME Typed, ProcInv, HandleEvent
  PROVE  HandlingFrame /\ Handles
<1>empty. rx # None /\ tx_queue = << >>
  BY DEF HandleEvent, Reconnect, DfuPacket, DfuOpcode, Ignored, WaitDisconnected,
         Received, ProcInv, QueueInv
<1>typed. DfuTyped /\ CpuTyped  BY DEF Typed
<1>send. /\ \A cmd : tx_queue' \in Dfu!AfterSend(tx_queue, cmd) =>
              tx_queue' = <<cmd>> /\ Dfu!Queued
         /\ \A cmd : Dfu!Send(cmd) => tx_queue' = <<cmd>>
  BY <1>empty, EmptyTakes
<1>frame. /\ rx' = None
          /\ UNCHANGED <<cpuVars, radioVars, centralVars, to_central>>
  BY DEF HandleEvent, cpuVars, WaitDisconnected
<1> DEFINE PagesKept == UNCHANGED <<m_page_address, m_page_buff,
                          m_page_buff_index, flash, m_pkt_notif_target,
                          m_num_of_firmware_bytes_rcvd>>
           Goal == /\ mode = "boot"
                   /\ PagesKept
                   /\ tx_pipe_open' \in BOOLEAN
                   /\ Handles
<1>1. ASSUME Reconnect PROVE Goal
  <2>1. /\ mode = "boot" /\ pc = "poll"
        /\ rx.what \in Restarts
        /\ tx_queue' = <<Connect>>
    BY <1>1, <1>send DEF Reconnect, Received, Restarts
  <2>2. UNCHANGED <<dfuUntouched, tx_pipe_open>>  BY <1>1 DEF Reconnect
  <2>3. QED
    BY <1>typed, <2>1, <2>2
    DEF Handles, HandlesRestart, Undisturbed, dfuUntouched, CpuTyped
<1>2. ASSUME DfuPacket PROVE Goal
  <2>1. mode = "boot" /\ rx.what \in Packets
    BY <1>2 DEF DfuPacket, Received, Packets
  <2>2. ASSUME Dfu!ImageSizeSet(IF rx.what = "size" THEN ImageSize ELSE WrongSize)
        PROVE  Goal
    <3>1. HandlesSize /\ pc = "poll"
      BY <1>send, <2>1, <2>2 DEF Dfu!ImageSizeSet, HandlesSize, Single, Dfu!handlerVars
    <3>2. PagesKept /\ tx_pipe_open' \in BOOLEAN
      BY <2>2 DEF Dfu!ImageSizeSet, Dfu!pageVars
    <3>3. QED  BY <2>1, <3>1, <3>2 DEF Handles
  <2>3. ASSUME Dfu!InitPacket PROVE Goal
    <3>1. HandlesInit /\ pc = "poll"
      BY <1>send, <2>1, <2>3
      DEF Dfu!InitPacket, HandlesInit, Single, Undisturbed, Dfu!dfuVars,
          Dfu!handlerVars
    <3>2. PagesKept /\ tx_pipe_open' \in BOOLEAN
      BY <1>typed, <2>3 DEF Dfu!InitPacket, Dfu!pageVars, Dfu!dfuVars, CpuTyped
    <3>3. QED  BY <2>1, <3>1, <3>2 DEF Handles
  <2>4. ASSUME Dfu!DataPacket(rx.bytes) PROVE Goal
    <3>1. tx_queue' = << >>
      BY <1>empty, <1>typed, <2>4
      DEF Dfu!DataPacket, Dfu!NotifyReceipt, Dfu!sendVars, DfuTyped
    <3>2. HandlesData /\ pc = "poll"
      BY <2>1, <2>4, <3>1 DEF Dfu!DataPacket, HandlesData
    <3>3. PagesKept /\ tx_pipe_open' \in BOOLEAN
      BY <1>typed, <2>4 DEF Dfu!DataPacket, Dfu!pageVars, CpuTyped
    <3>4. QED  BY <2>1, <3>2, <3>3 DEF Handles
  <2>5. QED  BY <1>2, <2>2, <2>3, <2>4 DEF DfuPacket
<1>3. ASSUME DfuOpcode PROVE Goal
  <2> USE DEF Dfu!pageVars, Dfu!handlerVars, Dfu!dfuVars, Dfu!sendVars
  <2>1. ASSUME Received("SYS_RESET"), Dfu!SysReset PROVE Goal
    <3>1. HandlesSysReset /\ pc = "poll" /\ mode = "boot"
      BY <1>send, <2>1 DEF Dfu!SysReset, HandlesSysReset, Single, Received
    <3>2. PagesKept /\ tx_pipe_open' \in BOOLEAN
      BY <1>typed, <2>1 DEF Dfu!SysReset, CpuTyped
    <3>3. QED  BY <3>1, <3>2 DEF Handles
  <2>2. ASSUME Received("RECEIVE_INIT"), Dfu!ReceiveInit PROVE Goal
    <3>1. HandlesReceiveInit /\ pc = "poll" /\ mode = "boot"
      BY <1>empty, <2>2 DEF Dfu!ReceiveInit, HandlesReceiveInit, Received
    <3>2. PagesKept /\ tx_pipe_open' \in BOOLEAN
      BY <1>typed, <2>2 DEF Dfu!ReceiveInit, CpuTyped
    <3>3. QED  BY <3>1, <3>2 DEF Handles
  <2>3. ASSUME Received("RECEIVE_FW"), Dfu!ReceiveFw PROVE Goal
    <3>1. HandlesReceiveFw /\ pc = "poll" /\ mode = "boot"
      <4>1. valid_app' = (valid_app /\ m_dfu_state \notin {"ST_RDY", "ST_RX_INIT_PKT"})
        BY <1>typed, <2>3 DEF Dfu!ReceiveFw, CpuTyped
      <4>2. QED
        BY <1>empty, <2>3, <4>1 DEF Dfu!ReceiveFw, HandlesReceiveFw, Received
    <3>2. PagesKept /\ tx_pipe_open' \in BOOLEAN
      BY <1>typed, <2>3 DEF Dfu!ReceiveFw, CpuTyped
    <3>3. QED  BY <3>1, <3>2 DEF Handles
  <2>4. ASSUME Received("VALIDATE"), Dfu!Validate PROVE Goal
    <3>1. HandlesValidate /\ pc = "poll" /\ mode = "boot"
      BY <1>empty, <1>send, <2>4 DEF Dfu!Validate, HandlesValidate, Single, Received
    <3>2. PagesKept /\ tx_pipe_open' \in BOOLEAN
      BY <1>typed, <2>4 DEF Dfu!Validate, CpuTyped
    <3>3. QED  BY <3>1, <3>2 DEF Handles
  <2>5. ASSUME Received("ACTIVATE"), Dfu!Activate PROVE Goal
    <3>1. HandlesActivate /\ pc = "poll" /\ mode = "boot"
      BY <1>send, <2>5 DEF Dfu!Activate, HandlesActivate, Single, Received
    <3>2. PagesKept /\ tx_pipe_open' \in BOOLEAN
      BY <1>send, <2>5 DEF Dfu!Activate
    <3>3. QED  BY <3>1, <3>2 DEF Handles
  <2>6. QED  BY <1>3, <2>1, <2>2, <2>3, <2>4, <2>5 DEF DfuOpcode
<1>4. ASSUME Ignored \/ WaitDisconnected PROVE Goal
  <2>1. mode = "boot" /\ UNCHANGED dfuVars
    BY <1>4 DEF Ignored, WaitDisconnected
  <2>2. rx.what \in Packets \cup {"VALIDATE"} => m_dfu_state # "ST_RX_DATA_PKT"
    <3>1. CASE Ignored  BY <3>1 DEF Ignored, Uses, Packets
    <3>2. CASE WaitDisconnected
      BY <3>2 DEF WaitDisconnected, ProcInv, HandlerInv
    <3>3. QED  BY <1>4, <3>1, <3>2
  <2>3. QED
    BY <1>empty, <1>typed, <2>1, <2>2
    DEF dfuVars, dfuUntouched, Handles, Ignores, Undisturbed, CpuTyped
<1>5. Goal
  BY <1>1, <1>2, <1>3, <1>4 DEF HandleEvent
<1>6. QED  BY <1>empty, <1>frame, <1>5 DEF HandlingFrame

-----------------------------------------------------------------------------
(* What one exchange with the radio does, by the command it hands over.    *)
Sending(kind) == tx_queue # << >> /\ tx_queue[1].kind = kind

Fetching ==
  /\ rx' = IF to_mcu = << >> THEN None ELSE Head(to_mcu)
  /\ to_mcu' = IF to_mcu = << >> THEN << >> ELSE Tail(to_mcu)

HandsOverNothing ==
  /\ tx_queue = << >>
  /\ Fetching
  /\ UNCHANGED <<link, c_state, to_central>>

HandsOverConnect ==
  /\ Sending("connect")
  /\ Fetching
  /\ link' = IF link = "standby" THEN "advertising" ELSE link
  /\ UNCHANGED <<c_state, to_central>>

HandsOverReset ==
  /\ Sending("radio_reset")
  /\ rx' = IF to_mcu = << >> THEN None ELSE Head(to_mcu)
  /\ to_mcu' = <<Event("reset_done")>>
  /\ link' = "standby"
  /\ to_central' = << >>
  /\ c_state' = "away"

HandsOverDisconnect ==
  /\ Sending("disconnect")
  /\ rx' = IF to_mcu = << >> THEN None ELSE Head(to_mcu)
  /\ to_mcu' = (IF to_mcu = << >> THEN << >> ELSE Tail(to_mcu))
                 \o (IF link = "connected" THEN <<Event("disconnected")>> ELSE << >>)
  /\ link' = "standby"
  /\ to_central' = << >>
  /\ c_state' = "away"

HandsOverResponse(kind) ==
  /\ Sending(kind)
  /\ Fetching
  /\ to_central' = IF link = "connected" THEN Append(to_central, kind)
                                         ELSE to_central
  /\ UNCHANGED <<link, c_state>>

Exchanges ==
  \/ HandsOverNothing
  \/ HandsOverConnect
  \/ HandsOverReset
  \/ HandsOverDisconnect
  \/ \E kind \in Dfu!DataKinds : HandsOverResponse(kind)

ExchangeFrame ==
  /\ mode = "boot" /\ rx = None /\ pc # "data"
  /\ tx_queue' = << >>
  /\ tx_pipe_open' \in BOOLEAN
  /\ UNCHANGED <<dfuUntouched, cpuVars, version, c_pos, sessions, misled>>

(* Every exchange is one of these.                                         *)
LEMMA ExchangeMade ==
  ASSUME Typed, ProcInv, Exchange \/ FetchEvent
  PROVE  ExchangeFrame /\ Exchanges
<1>typed. CpuTyped /\ QueueTyped  BY DEF Typed
<1>1. CASE FetchEvent
  <2>1. HandsOverNothing
    BY <1>1 DEF FetchEvent, Fetched, HandsOverNothing, Fetching, centralVars
  <2>2. ExchangeFrame
    BY <1>typed, <1>1
    DEF FetchEvent, InLoop, Fetched, ExchangeFrame, CpuTyped, centralVars
  <2>3. QED  BY <2>1, <2>2 DEF Exchanges
<1>2. CASE Exchange
  <2>1. PICK cmd \in Sendable : tx_queue = <<cmd>>
    BY <1>2 DEF Exchange, ProcInv, QueueInv
  <2>2. Head(tx_queue) = cmd /\ tx_queue[1] = cmd /\ Tail(tx_queue) = << >>
    BY <2>1
  <2>3. ExchangeFrame
    BY <1>typed, <1>2, <2>2 DEF Exchange, InLoop, Fetched, ExchangeFrame, CpuTyped
  <2>4. RadioTakes(cmd.kind) /\ Sending(cmd.kind) /\ cmd.kind \in Dfu!Kinds \cup {"connect"}
    BY <1>2, <2>1, <2>2 DEF Exchange, Sending, Sendable
  <2>5. rx' = IF to_mcu = << >> THEN None ELSE Head(to_mcu)
    BY <1>2 DEF Exchange, Fetched
  <2>6. CASE cmd.kind = "connect"
    <3>1. HandsOverConnect
      BY <2>4, <2>5, <2>6 DEF RadioTakes, HandsOverConnect, Fetching
    <3>2. QED  BY <2>3, <3>1 DEF Exchanges
  <2>7. CASE cmd.kind = "radio_reset"
    <3>1. HandsOverReset
      BY <2>4, <2>5, <2>7 DEF RadioTakes, HandsOverReset
    <3>2. QED  BY <2>3, <3>1 DEF Exchanges
  <2>8. CASE cmd.kind = "disconnect"
    <3>1. HandsOverDisconnect
      BY <2>4, <2>5, <2>8 DEF RadioTakes, HandsOverDisconnect
    <3>2. QED  BY <2>3, <3>1 DEF Exchanges
  <2>9. CASE cmd.kind \in Dfu!DataKinds
    <3>1. HandsOverResponse(cmd.kind)
      BY <2>4, <2>5, <2>9 DEF RadioTakes, HandsOverResponse, Fetching, Dfu!DataKinds
    <3>2. QED  BY <2>3, <2>9, <3>1 DEF Exchanges
  <2>10. QED  BY <2>4, <2>6, <2>7, <2>8, <2>9 DEF Dfu!Kinds
<1>3. QED  BY <1>1, <1>2

(* What has been fetched, and what is left, are messages.                  *)
LEMMA FetchTyped ==
  ASSUME RadioTyped
  PROVE  /\ (IF to_mcu = << >> THEN None ELSE Head(to_mcu)) \in Message \cup {None}
         /\ (IF to_mcu = << >> THEN << >> ELSE Tail(to_mcu)) \in Seq(Message)
<1>1. CASE to_mcu = << >>  BY <1>1
<1>2. CASE to_mcu # << >>
  BY <1>2, HeadTailProperties DEF RadioTyped
<1>3. QED  BY <1>1, <1>2

(* So is what the radio holds then.                                        *)
LEMMA ExchangeTyped ==
  ASSUME Typed, ProcInv, Exchange \/ FetchEvent
  PROVE  Typed'
<1>typed. /\ DfuTyped /\ PageTyped /\ QueueTyped /\ CpuTyped
          /\ RadioTyped /\ CentralTyped
  BY DEF Typed
<1>frame. ExchangeFrame /\ Exchanges  BY ExchangeMade
<1>1. DfuTyped' /\ PageTyped' /\ QueueTyped' /\ CpuTyped'
  BY <1>typed, <1>frame
  DEF ExchangeFrame, dfuUntouched, cpuVars, DfuTyped, PageTyped, QueueTyped, CpuTyped
<1>2. /\ (IF to_mcu = << >> THEN None ELSE Head(to_mcu)) \in Message \cup {None}
      /\ (IF to_mcu = << >> THEN << >> ELSE Tail(to_mcu)) \in Seq(Message)
  BY <1>typed, FetchTyped
<1>away. "away" \in CentralStates  BY DEF CentralStates
<1> DEFINE Goal == RadioTyped' /\ CentralTyped'
<1>3. ASSUME HandsOverNothing \/ HandsOverConnect PROVE Goal
  BY <1>typed, <1>frame, <1>2, <1>3
  DEF ExchangeFrame, HandsOverNothing, HandsOverConnect, Fetching, RadioTyped,
      CentralTyped
<1>4. ASSUME HandsOverReset PROVE Goal
  <2>1. <<Event("reset_done")>> \in Seq(Message)
    BY PlainMessage DEF Messages
  <2>2. QED
    BY <1>typed, <1>frame, <1>2, <1>4, <1>away, <2>1
    DEF ExchangeFrame, HandsOverReset, RadioTyped, CentralTyped
<1>5. ASSUME HandsOverDisconnect PROVE Goal
  <2>1. <<Event("disconnected")>> \in Seq(Message)
    BY PlainMessage DEF Messages
  <2>2. to_mcu' \in Seq(Message)
    BY <1>2, <1>5, <2>1, ConcatProperties, EmptySeq DEF HandsOverDisconnect
  <2>3. QED
    BY <1>typed, <1>frame, <1>2, <1>5, <1>away, <2>2
    DEF ExchangeFrame, HandsOverDisconnect, RadioTyped, CentralTyped
<1>6. ASSUME NEW kind \in Dfu!DataKinds, HandsOverResponse(kind) PROVE Goal
  <2>1. to_central' \in Seq(Dfu!Kinds)
    BY <1>typed, <1>6, AppendProperties
    DEF HandsOverResponse, CentralTyped, Dfu!Kinds
  <2>2. QED
    BY <1>typed, <1>frame, <1>2, <1>6, <2>1
    DEF ExchangeFrame, HandsOverResponse, Fetching, RadioTyped, CentralTyped
<1>7. Goal  BY <1>frame, <1>3, <1>4, <1>5, <1>6 DEF Exchanges
<1>8. QED  BY <1>1, <1>7 DEF Typed

-----------------------------------------------------------------------------
(* The steps of the central.                                               *)
LEMMA CentralTypedStep ==
  ASSUME Typed, Central
  PROVE  RadioTyped' /\ CentralTyped' /\ UNCHANGED <<dfuVars, cpuVars, rx>>
<1>typed. RadioTyped /\ CentralTyped  BY DEF Typed
<1>send. ASSUME NEW m \in Message, NEW next \in CentralStates, CentralSends(m, next),
                c_pos' \in 0..ImageSize, to_central' \in Seq(Dfu!Kinds),
                misled' \in BOOLEAN
         PROVE  RadioTyped' /\ CentralTyped' /\ UNCHANGED <<dfuVars, cpuVars, rx>>
  <2>1. RadioTyped' /\ UNCHANGED <<dfuVars, cpuVars, rx, version, sessions>>
    BY <1>typed, <1>send, AppendProperties DEF CentralSends, RadioTyped
  <2>2. c_state' \in CentralStates  BY <1>send DEF CentralSends
  <2>3. QED  BY <1>typed, <1>send, <2>1, <2>2 DEF CentralTyped
<1>tail. to_central # << >> => Tail(to_central) \in Seq(Dfu!Kinds)
  BY <1>typed, HeadTailProperties DEF CentralTyped
<1>states. {"ready", "init", "streaming", "activated", "gave_up", "reset_sent",
            "size_sent", "init_sent", "sent_all", "validating"} \subseteq CentralStates
  BY DEF CentralStates, Awaiting
<1> DEFINE Goal == RadioTyped' /\ CentralTyped' /\ UNCHANGED <<dfuVars, cpuVars, rx>>
<1>1. ASSUME NEW m \in Message, NEW next \in CentralStates,
             Unprompted(m, next) \/ InReply(m, next)
      PROVE  Goal
  <2>1. c_pos' \in 0..ImageSize /\ to_central' \in Seq(Dfu!Kinds)
    BY <1>typed, <1>tail, <1>1 DEF Unprompted, InReply, Answered, CentralTyped
  <2>2. misled' \in BOOLEAN
    <3>1. misled \in BOOLEAN /\ LagsBehind \in BOOLEAN
      BY <1>typed DEF CentralTyped, LagsBehind
    <3>2. CASE Unprompted(m, next)  BY <3>1, <3>2 DEF Unprompted
    <3>3. CASE InReply(m, next)  BY <3>1, <3>3 DEF InReply
    <3>4. QED  BY <1>1, <3>2, <3>3
  <2>3. QED  BY <1>send, <1>1, <2>1, <2>2 DEF Unprompted, InReply
<1>2. ASSUME CConnect PROVE Goal
  <2>1. Event("connected") \in Message  BY PlainMessage DEF Messages
  <2>2. QED
    BY <1>typed, <1>2, <1>states, <2>1, AppendProperties
    DEF CConnect, RadioTyped, CentralTyped
<1>3. ASSUME CSendsChunk PROVE Goal
  <2>1. DataMsg(version, c_pos) \in Message
    BY <1>typed, ChunkBytes DEF CentralTyped
  <2>2. c_pos' \in 0..ImageSize /\ to_central' \in Seq(Dfu!Kinds) /\ misled' \in BOOLEAN
    BY <1>typed, <1>3 DEF CSendsChunk, Min2, CentralTyped
  <2>3. PICK next \in CentralStates : CentralSends(DataMsg(version, c_pos), next)
    BY <1>3, <1>states DEF CSendsChunk
  <2>4. QED  BY <1>send, <2>1, <2>2, <2>3
<1>4. ASSUME CGivesUp PROVE Goal
  BY <1>typed, <1>4, <1>states DEF CGivesUp, radioVars, RadioTyped, CentralTyped
<1>5. /\ \A op \in Messages : Opcode(op) \in Message
      /\ SizePacket(version) \in Message
      /\ InitMsg(version) \in Message
  BY <1>typed, PlainMessage, PacketMessage DEF CentralTyped
<1>6. CASE CResets \/ CReceiveInit \/ CReceiveFw \/ CValidates \/ CActivates
  BY <1>1, <1>5, <1>6, <1>states
  DEF CResets, CReceiveInit, CReceiveFw, CValidates, CActivates, Messages
<1>7. CASE CSendsSize \/ CSendsInit
  BY <1>1, <1>5, <1>7, <1>states DEF CSendsSize, CSendsInit
<1>8. QED  BY <1>2, <1>3, <1>4, <1>6, <1>7 DEF Central

(* Handling an event keeps the types.                                      *)
LEMMA HandleTyped ==
  ASSUME Typed, ProcInv, HandleEvent
  PROVE  Typed'
<1>typed. /\ DfuTyped /\ PageTyped /\ QueueTyped /\ CpuTyped
          /\ RadioTyped /\ CentralTyped
  BY DEF Typed
<1>frame. HandlingFrame /\ Handles  BY EventHandled
<1>1. PageTyped' /\ RadioTyped' /\ CentralTyped'
  BY <1>typed, <1>frame
  DEF HandlingFrame, radioVars, centralVars, PageTyped, RadioTyped, CentralTyped
<1>2. QueueTyped' /\ CpuTyped'
  <2>1. /\ Connect \in Sendable
        /\ \A k \in Dfu!Kinds : Dfu!Cmd(k) \in Sendable
    BY DEF Connect, Dfu!Cmd, Sendable
  <2>2. /\ \/ tx_queue' = << >>
           \/ tx_queue' = <<Connect>>
           \/ \E k \in Dfu!Kinds : tx_queue' = <<Dfu!Cmd(k)>>
        /\ valid_app' \in BOOLEAN
    BY <1>typed, <1>frame
    DEF Handles, HandlesRestart, HandlesSize, HandlesInit, HandlesData,
        HandlesSysReset, HandlesReceiveInit, HandlesReceiveFw, HandlesValidate,
        HandlesActivate, Ignores, Undisturbed, Single, Dfu!Kinds, Dfu!DataKinds,
        CpuTyped
  <2>3. QueueTyped'  BY <2>1, <2>2, OneTyped
  <2>4. CpuTyped'
    BY <1>typed, <1>frame, <2>2 DEF HandlingFrame, cpuVars, CpuTyped
  <2>5. QED  BY <2>3, <2>4
<1>3. DfuTyped'
  <2>1. UNCHANGED <<m_num_of_firmware_bytes_rcvd, m_pkt_notif_target>>
    BY <1>frame DEF HandlingFrame
  <2>2. /\ m_dfu_state' \in Dfu!States
        /\ m_image_size' \in Nat
        /\ pc' \in Dfu!PC
    BY <1>typed, <1>frame
    DEF Handles, HandlesRestart, HandlesSize, HandlesInit, HandlesData,
        HandlesSysReset, HandlesReceiveInit, HandlesReceiveFw, HandlesValidate,
        HandlesActivate, Ignores, Undisturbed, DfuTyped, Dfu!States, Dfu!PC
  <2>3. packet' \in Seq(Nat) /\ next_byte' \in 0..Len(packet')
    <3>1. CASE HandlesData
      <4>1. rx.bytes \in Seq(Nat)
        BY <1>typed, <1>frame DEF RadioTyped, HandlingFrame, Message
      <4>2. QED  BY <3>1, <4>1 DEF HandlesData
    <3>2. CASE UNCHANGED <<packet, next_byte>>
      BY <1>typed, <3>2 DEF DfuTyped
    <3>3. QED
      BY <1>frame, <3>1, <3>2
      DEF Handles, HandlesRestart, HandlesSize, HandlesInit, HandlesSysReset,
          HandlesReceiveInit, HandlesReceiveFw, HandlesValidate,
          HandlesActivate, Ignores, Undisturbed
  <2>4. QED  BY <1>typed, <2>1, <2>2, <2>3 DEF DfuTyped
<1>4. QED  BY <1>1, <1>2, <1>3 DEF Typed

(* Every step keeps the types.                                             *)
LEMMA StepTyped == Typed /\ ProcInv /\ [Next]_vars => Typed'
<1> SUFFICES ASSUME Typed, ProcInv, [Next]_vars PROVE Typed'
  OBVIOUS
<1>typed. /\ DfuTyped /\ PageTyped /\ QueueTyped /\ CpuTyped
          /\ RadioTyped /\ CentralTyped
  BY DEF Typed
<1>dfu. UNCHANGED dfuVars => DfuTyped' /\ PageTyped' /\ QueueTyped'
                               /\ UNCHANGED <<valid_app, tx_pipe_open>>
  BY <1>typed DEF dfuVars, dfuUntouched, DfuTyped, PageTyped, QueueTyped
<1>away. "away" \in CentralStates /\ "ready" \in CentralStates  BY DEF CentralStates
<1>1. ASSUME JumpToApp PROVE Typed'
  <2>1. /\ CpuTyped'
        /\ RadioTyped'
        /\ CentralTyped'
    <3>1. CpuTyped'
      BY <1>typed, <1>1, <1>dfu DEF JumpToApp, CpuTyped
    <3>2. RadioTyped'
      BY <1>typed, <1>1 DEF JumpToApp, RadioTyped
    <3>3. CentralTyped'
      BY <1>typed, <1>1, <1>away DEF JumpToApp, CentralTyped
    <3>4. QED  BY <3>1, <3>2, <3>3
  <2>2. QED  BY <1>1, <1>dfu, <2>1 DEF JumpToApp, Typed
<1>2. ASSUME StayInBootloader PROVE Typed'
  <2>1. CpuTyped' /\ RadioTyped' /\ CentralTyped'
    BY <1>typed, <1>2
    DEF StayInBootloader, dfuVars, dfuUntouched, CpuTyped, RadioTyped,
        CentralTyped, radioVars, centralVars
  <2>2. QED  BY <1>2, <1>dfu, <2>1 DEF StayInBootloader, Typed
<1>3. ASSUME MainStarts PROVE Typed'
  <2>1. DfuTyped' /\ PageTyped' /\ RadioTyped' /\ CentralTyped'
    BY <1>typed, <1>3
    DEF MainStarts, dfuUntouched, radioVars, centralVars, DfuTyped, PageTyped,
        RadioTyped, CentralTyped
  <2>2. CpuTyped'
    BY <1>typed, <1>3 DEF MainStarts, dfuUntouched, CpuTyped
  <2>3. QueueTyped'
    <3>1. Dfu!Cmd("radio_reset") \in Sendable
      BY DEF Dfu!Cmd, Sendable, Dfu!Kinds
    <3>2. tx_queue' = << >> \/ tx_queue' = <<Dfu!Cmd("radio_reset")>>
      BY <1>3 DEF MainStarts
    <3>3. QED  BY <3>1, <3>2, OneTyped
  <2>4. QED  BY <2>1, <2>2, <2>3 DEF Typed
<1>4. ASSUME Exchange \/ FetchEvent PROVE Typed'
  BY <1>4, ExchangeTyped
<1>5. ASSUME HandleEvent PROVE Typed'
  BY <1>5, HandleTyped
<1>6. ASSUME ByteLoop PROVE Typed'
  <2>1. DfuTyped' /\ PageTyped' /\ QueueTyped' /\ UNCHANGED <<valid_app, tx_pipe_open>>
    <3>1. Dfu!PacketDone => tx_queue = << >>
      BY DEF Dfu!PacketDone, ProcInv, QueueInv
    <3>2. QED  BY <1>6, <3>1, StoreByteTyped, PacketDoneTyped DEF ByteLoop
  <2>2. CpuTyped' /\ RadioTyped' /\ CentralTyped'
    BY <1>typed, <1>6, <2>1
    DEF ByteLoop, cpuVars, radioVars, centralVars, CpuTyped, RadioTyped, CentralTyped
  <2>3. QED  BY <2>1, <2>2 DEF Typed
<1>7. ASSUME Watchdog PROVE Typed'
  <2>1. DfuTyped' /\ PageTyped' /\ QueueTyped'
    BY <1>7, ClearedTyped DEF Watchdog
  <2>2. CpuTyped' /\ RadioTyped' /\ CentralTyped'
    BY <1>typed, <1>7
    DEF Watchdog, MemoryCleared, radioVars, centralVars, CpuTyped, RadioTyped,
        CentralTyped
  <2>3. QED  BY <2>1, <2>2 DEF Typed
<1>8. ASSUME PowerCycle PROVE Typed'
  <2>1. DfuTyped' /\ PageTyped' /\ QueueTyped'
    BY <1>8, ClearedTyped DEF PowerCycle
  <2>2. CpuTyped' /\ RadioTyped' /\ CentralTyped'
    <3>1. CpuTyped'
      BY <1>typed, <1>8 DEF PowerCycle, MemoryCleared, CpuTyped
    <3>2. RadioTyped'
      BY <1>8 DEF PowerCycle, MemoryCleared, RadioTyped
    <3>3. CentralTyped'
      BY <1>typed, <1>8, <1>away DEF PowerCycle, CentralTyped
    <3>4. QED  BY <3>1, <3>2, <3>3
  <2>3. QED  BY <2>1, <2>2 DEF Typed
<1>9. ASSUME RadioStarts PROVE Typed'
  <2>1. \A e \in Messages : Event(e) \in Message  BY PlainMessage
  <2>2. PICK e \in Messages : to_mcu' = Append(to_mcu, Event(e))
    BY <1>9 DEF RadioStarts, Messages
  <2>3. to_mcu' \in Seq(Message)
    BY <1>typed, <2>1, <2>2, AppendProperties DEF RadioTyped
  <2>4. CpuTyped' /\ RadioTyped' /\ CentralTyped'
    BY <1>typed, <1>9, <2>3
    DEF RadioStarts, dfuVars, dfuUntouched, cpuVars, centralVars, CpuTyped,
        RadioTyped, CentralTyped
  <2>5. QED  BY <1>9, <1>dfu, <2>4 DEF RadioStarts, Typed
<1>10. ASSUME AppFails PROVE Typed'
  <2>1. CpuTyped' /\ RadioTyped' /\ CentralTyped'
    BY <1>typed, <1>10
    DEF AppFails, AppResets, dfuVars, dfuUntouched, radioVars, centralVars,
        CpuTyped, RadioTyped, CentralTyped
  <2>2. QED  BY <1>10, <1>dfu, <2>1 DEF AppFails, AppResets, Typed
<1>11. ASSUME AppHandsOver PROVE Typed'
  <2>1. CpuTyped' /\ RadioTyped'
    BY <1>typed, <1>11
    DEF AppHandsOver, AppResets, dfuVars, dfuUntouched, CpuTyped, RadioTyped
  <2>2. CentralTyped'
    BY <1>typed, <1>11, <1>away DEF AppHandsOver, AppResets, CentralTyped
  <2>3. QED  BY <1>11, <1>dfu, <2>1, <2>2 DEF AppHandsOver, AppResets, Typed
<1>12. ASSUME Central PROVE Typed'
  <2>1. RadioTyped' /\ CentralTyped' /\ UNCHANGED <<dfuVars, cpuVars, rx>>
    BY <1>12, CentralTypedStep
  <2>2. CpuTyped'
    BY <1>typed, <2>1 DEF dfuVars, dfuUntouched, cpuVars, CpuTyped
  <2>3. QED  BY <1>dfu, <2>1, <2>2 DEF Typed
<1>13. ASSUME LinkEnds PROVE Typed'
  <2>1. Event("disconnected") \in Message  BY PlainMessage DEF Messages
  <2>2. to_mcu' \in Seq(Message)
    BY <1>typed, <1>13, <2>1, AppendProperties DEF LinkEnds, RadioTyped
  <2>3. CpuTyped' /\ RadioTyped' /\ CentralTyped'
    BY <1>typed, <1>13, <1>away, <2>2
    DEF LinkEnds, dfuVars, dfuUntouched, cpuVars, CpuTyped, RadioTyped, CentralTyped
  <2>4. QED  BY <1>13, <1>dfu, <2>3 DEF LinkEnds, Typed
<1>14. ASSUME UNCHANGED vars PROVE Typed'
  <2>1. CpuTyped' /\ RadioTyped' /\ CentralTyped'
    BY <1>typed, <1>14
    DEF vars, dfuVars, dfuUntouched, cpuVars, radioVars, centralVars, CpuTyped,
        RadioTyped, CentralTyped
  <2>2. QED  BY <1>14, <1>dfu, <2>1 DEF vars, Typed
<1>15. QED
  BY <1>1, <1>2, <1>3, <1>4, <1>5, <1>6, <1>7, <1>8, <1>9, <1>10, <1>11, <1>12,
     <1>13, <1>14
  DEF Next, Processor

-----------------------------------------------------------------------------
(* At first memory is clear.                                               *)
LEMMA InitProcInv == Init => ProcInv
BY DEF Init, Dfu!Init, ProcInv, ModeInv, Cleared, QueueInv, HandlerInv, MayJump

(* A restarted processor is as at first.                                   *)
LEMMA RestartProcInv ==
  ASSUME MemoryCleared, mode' = "reset"
  PROVE  ProcInv' /\ Cleared'
BY DEF MemoryCleared, ProcInv, ModeInv, Cleared, QueueInv, HandlerInv

(* An event leaves the processor as ProcInv says.                          *)
LEMMA HandleProcInv ==
  ASSUME Typed, ProcInv, HandleEvent
  PROVE  ProcInv'
<1>frame. HandlingFrame /\ Handles  BY EventHandled
<1>1. ModeInv'
  BY <1>frame DEF HandlingFrame, cpuVars, ProcInv, ModeInv
<1>2. QueueInv'
  <2>1. /\ Connect \in Sendable
        /\ \A k \in Dfu!Kinds : Dfu!Cmd(k) \in Sendable
    BY DEF Connect, Dfu!Cmd, Sendable
  <2>2. /\ \/ tx_queue' = << >>
           \/ tx_queue' = <<Connect>>
           \/ \E k \in Dfu!Kinds : tx_queue' = <<Dfu!Cmd(k)>>
        /\ pc' = "data" => tx_queue' = << >>
    BY <1>frame
    DEF Handles, HandlesRestart, HandlesSize, HandlesInit, HandlesData,
        HandlesSysReset, HandlesReceiveInit, HandlesReceiveFw, HandlesValidate,
        HandlesActivate, Ignores, Undisturbed, Single, Dfu!Kinds, Dfu!DataKinds,
        ProcInv, QueueInv, HandlerInv, HandlingFrame
  <2>3. QED  BY <1>frame, <2>1, <2>2 DEF HandlingFrame, QueueInv
<1>3. HandlerInv'
  BY <1>frame
  DEF Handles, HandlesRestart, HandlesSize, HandlesInit, HandlesData,
      HandlesSysReset, HandlesReceiveInit, HandlesReceiveFw, HandlesValidate,
      HandlesActivate, Ignores, Undisturbed, ProcInv, HandlerInv, HandlingFrame
<1>4. QED  BY <1>1, <1>2, <1>3 DEF ProcInv

(* So does the byte loop.                                                  *)
LEMMA ByteLoopProcInv ==
  ASSUME Typed, ProcInv, ByteLoop
  PROVE  ProcInv'
<1>frame. mode = "boot" /\ UNCHANGED <<cpuVars, rx, radioVars, centralVars, to_central>>
  BY DEF ByteLoop
<1>1. ModeInv'  BY <1>frame DEF cpuVars, ProcInv, ModeInv
<1>empty. pc = "data" /\ rx = None /\ tx_queue = << >>
  BY DEF ByteLoop, Dfu!StoreByte, Dfu!PacketDone, ProcInv, QueueInv, HandlerInv
<1>2. CASE Dfu!StoreByte
  <2>1. UNCHANGED <<m_dfu_state, pc, tx_queue, packet>>
    BY <1>2 DEF Dfu!StoreByte, Dfu!dfuVars, Dfu!sendVars
  <2>2. QED
    BY <1>frame, <1>1, <1>empty, <2>1 DEF ProcInv, QueueInv, HandlerInv
<1>3. CASE Dfu!PacketDone
  <2>1. tx_queue' = << >> \/ tx_queue' = <<Dfu!Cmd("receive_ok")>>
    BY <1>3, <1>empty, EmptyTakes DEF Dfu!PacketDone, Dfu!sendVars
  <2>2. Dfu!Cmd("receive_ok") \in Sendable
    BY DEF Dfu!Cmd, Sendable, Dfu!Kinds, Dfu!DataKinds
  <2>3. /\ pc' = "poll" /\ packet' = << >> /\ next_byte' = 0
        /\ UNCHANGED <<m_dfu_state, rx>>
    BY <1>3, <1>frame DEF Dfu!PacketDone
  <2>4. QED
    BY <1>1, <1>empty, <2>1, <2>2, <2>3 DEF ProcInv, QueueInv, HandlerInv
<1>4. QED  BY <1>2, <1>3 DEF ByteLoop

(* Every step does.                                                        *)
LEMMA StepProcInv == Typed /\ ProcInv /\ [Next]_vars => ProcInv'
<1> SUFFICES ASSUME Typed, ProcInv, [Next]_vars PROVE ProcInv'
  OBVIOUS
<1> DEFINE DfuKept == UNCHANGED <<dfuVars, rx>>
<1>kept. DfuKept => QueueInv' /\ HandlerInv' /\ (Cleared => Cleared')
                      /\ UNCHANGED valid_app
  BY DEF dfuVars, dfuUntouched, ProcInv, QueueInv, HandlerInv, Cleared
<1>1. ASSUME JumpToApp PROVE ProcInv'
  <2>1. DfuKept /\ Cleared  BY <1>1 DEF JumpToApp, ProcInv, ModeInv
  <2>2. ModeInv'  BY <1>1, <1>kept, <2>1 DEF JumpToApp, MayJump, ModeInv
  <2>3. QED  BY <1>kept, <2>1, <2>2 DEF ProcInv
<1>2. ASSUME StayInBootloader PROVE ProcInv'
  <2>1. DfuKept /\ Cleared  BY <1>2 DEF StayInBootloader, ProcInv, ModeInv
  <2>2. ModeInv'  BY <1>2, <1>kept, <2>1 DEF StayInBootloader, MayJump, ModeInv
  <2>3. QED  BY <1>kept, <2>1, <2>2 DEF ProcInv
<1>3. ASSUME MainStarts PROVE ProcInv'
  <2>1. Dfu!Cmd("radio_reset") \in Sendable
    BY DEF Dfu!Cmd, Sendable, Dfu!Kinds
  <2>2. Cleared  BY <1>3 DEF MainStarts, ProcInv, ModeInv
  <2>3. QED
    BY <1>3, <2>1, <2>2
    DEF MainStarts, Cleared, dfuUntouched, ProcInv, ModeInv, QueueInv, HandlerInv
<1>4. ASSUME Exchange \/ FetchEvent PROVE ProcInv'
  <2>1. ExchangeFrame  BY <1>4, ExchangeMade
  <2>2. QED
    BY <2>1
    DEF ExchangeFrame, dfuUntouched, cpuVars, ProcInv, ModeInv, QueueInv, HandlerInv
<1>5. ASSUME HandleEvent PROVE ProcInv'
  BY <1>5, HandleProcInv
<1>6. ASSUME ByteLoop PROVE ProcInv'
  BY <1>6, ByteLoopProcInv
<1>7. ASSUME Watchdog \/ PowerCycle PROVE ProcInv'
  BY <1>7, RestartProcInv DEF Watchdog, PowerCycle
<1>8. ASSUME RadioStarts \/ (mode # "app" /\ (LinkEnds \/ Central)) PROVE ProcInv'
  <2>1. mode # "app"  BY <1>8 DEF RadioStarts, ProcInv, ModeInv
  <2>2. DfuKept /\ UNCHANGED cpuVars
    <3>1. CASE Central  BY <3>1, CentralTypedStep
    <3>2. CASE RadioStarts \/ LinkEnds  BY <3>2 DEF RadioStarts, LinkEnds
    <3>3. QED  BY <1>8, <3>1, <3>2
  <2>3. QED  BY <1>kept, <2>1, <2>2 DEF cpuVars, ProcInv, ModeInv, MayJump
<1>9. ASSUME AppFails \/ AppHandsOver PROVE ProcInv'
  <2>1. DfuKept /\ Cleared /\ mode' = "reset"
    BY <1>9 DEF AppFails, AppHandsOver, AppResets, ProcInv, ModeInv
  <2>2. QED  BY <1>kept, <2>1 DEF ProcInv, ModeInv
<1>10. ASSUME UNCHANGED vars PROVE ProcInv'
  BY <1>10, <1>kept
  DEF vars, cpuVars, radioVars, centralVars, ProcInv, ModeInv, MayJump
<1>11. CASE Next
  <2>1. CASE Processor
    BY <1>1, <1>2, <1>3, <1>4, <1>5, <1>6, <2>1 DEF Processor
  <2>2. CASE Watchdog \/ PowerCycle  BY <1>7, <2>2
  <2>3. CASE RadioStarts  BY <1>8, <2>3
  <2>4. CASE AppFails \/ AppHandsOver  BY <1>9, <2>4
  <2>5. CASE mode # "app" /\ Central  BY <1>8, <2>5
  <2>6. CASE mode # "app" /\ LinkEnds  BY <1>8, <2>6
  <2>7. QED  BY <1>11, <2>1, <2>2, <2>3, <2>4, <2>5, <2>6 DEF Next
<1>12. QED  BY <1>10, <1>11

(* The types hold, whatever happens when; and the command queue has room    *)
(* for every command there is (aci_queue.c, lib_aci.c).                     *)
THEOREM TypesHold == Spec => []TypeOK
<1>1. Spec => [](Typed /\ ProcInv)
  BY InitTyped, InitProcInv, StepTyped, StepProcInv, PTL DEF Spec
<1>2. QED  BY <1>1, TypedIsTypeOK, PTL

-----------------------------------------------------------------------------
(***************************************************************************)
(* What is coming to the bootloader: the event in hand, and those that the *)
(* radio holds.  Fetching an event changes nothing about it, handling one  *)
(* takes the first away, and whatever else happens adds one or clears it.  *)
(***************************************************************************)
Incoming == IF rx = None THEN to_mcu ELSE <<rx>> \o to_mcu

Any(s, W) == \E i \in 1..Len(s) : s[i].what \in W
Coming(W) == Any(Incoming, W)

Told(kind) == Sending(kind) \/ \E i \in 1..Len(to_central) : to_central[i] = kind

(* What a session of the procedure needs the connection for.               *)
Heavy == {"RECEIVE_INIT", "RECEIVE_FW", "data", "VALIDATE", "ACTIVATE"}
Ends == {"disconnected", "reset_done"}

Early == {"ready", "size_sent"}
Sent == {"streaming", "sent_all", "validating"}

(***************************************************************************)
(* The link and the central, as long as no central was misled.  A message *)
(* of a session never comes behind an event that makes the bootloader      *)
(* advertise again, so no session is given away to the next.  TokenInv is  *)
(* why: when such an event is still coming to a connected device, so is    *)
(* the report of the connection, behind it, and central has sent a size    *)
(* packet at most, on the answer to which it must not go on.               *)
(***************************************************************************)
LinkInv ==
  /\ link = "connected" <=> c_state # "away"
  /\ c_state = "away" => to_central = << >>

NoticeAt(p) ==
  /\ Incoming[p].what = "connected"
  /\ c_state \in {"ready", "size_sent", "gave_up", "reset_sent"}
  /\ \A i \in 1..Len(Incoming) : Incoming[i].what \in Restarts => i < p

TokenInv ==
  link = "connected" /\ (Coming(Restarts) \/ Sending("connect")) =>
    \E p \in 1..Len(Incoming) : NoticeAt(p)

Uninterrupted(s) ==
  \A i, j \in 1..Len(s) : s[i].what \in Heavy /\ s[j].what \in Restarts => i < j

HeavyInv ==
  /\ Uninterrupted(Incoming)
  /\ Sending("connect") \/ link = "advertising" \/ c_state \in Early => ~Coming(Heavy)

(* A reset that was asked for is the last message of its session.          *)
ResetEnds(s) ==
  \A i \in 1..Len(s) - 1 : s[i].what = "SYS_RESET" => s[i + 1].what \in Ends

ResetInv ==
  /\ ResetEnds(Incoming)
  /\ Incoming # << >> /\ Incoming[Len(Incoming)].what = "SYS_RESET" =>
       c_state = "reset_sent"

PosInv ==
  /\ c_state \in {"ready", "size_sent", "init", "init_sent"} => c_pos = 0
  /\ c_state = "streaming" => c_pos < ImageSize
  /\ c_state \in {"sent_all", "validating", "activated"} => c_pos = ImageSize

(* Packets have bytes.                                                     *)
Filled(s) == \A i \in 1..Len(s) : s[i].what \in Packets => s[i].bytes # << >>

OneFw(s) ==
  \A i, j \in 1..Len(s) : s[i].what = "RECEIVE_FW" /\ s[j].what = "RECEIVE_FW" => i = j

OrderInv ==
  /\ Filled(Incoming)
  /\ OneFw(Incoming)
  /\ Coming({"RECEIVE_FW"}) => c_state \notin {"init", "init_sent"}
  /\ Coming({"VALIDATE"}) => c_state \in {"validating", "activated", "gave_up", "reset_sent", "away"}
  /\ Coming({"ACTIVATE"}) => c_state \in {"activated", "away"}

(* The packets that follow RECEIVE_FW are the stream, each where the last   *)
(* one ended, as far as central has come.                                  *)
IsChunk(m, v) == \E from \in 0..ImageSize - 1 : m = DataMsg(v, from)
From(m, v) == m.bytes[1] - Base(v)
After(m, v) == IF m.what = "RECEIVE_FW" THEN 0 ELSE From(m, v) + Len(m.bytes)

FollowedBy(s, i, v, pos) ==
  IF i = Len(s) \/ s[i + 1].what = "VALIDATE"
    THEN After(s[i], v) = pos
    ELSE IsChunk(s[i + 1], v) /\ From(s[i + 1], v) = After(s[i], v)

InStream(s, i, v, pos) ==
  \/ \E j \in i + 1..Len(s) : s[j].what = "RECEIVE_FW"
  \/ s[i].what = "VALIDATE" /\ i = Len(s)
  \/ /\ s[i].what = "RECEIVE_FW" \/ IsChunk(s[i], v)
     /\ FollowedBy(s, i, v, pos)

Streaming(s, v, pos) == \A i \in 1..Len(s) : InStream(s, i, v, pos)

SentInv == c_state \in Sent => Streaming(Incoming, version, c_pos)

WorldInv ==
  /\ LinkInv
  /\ TokenInv
  /\ HeavyInv
  /\ ResetInv
  /\ PosInv
  /\ OrderInv
  /\ SentInv

-----------------------------------------------------------------------------
(* A sequence is its head and its tail.                                    *)
LEMMA HeadThenTail ==
  ASSUME NEW S, NEW s \in Seq(S), s # << >>
  PROVE  <<Head(s)>> \o Tail(s) = s
<1>1. /\ Head(s) \in S /\ Tail(s) \in Seq(S) /\ Len(s) \in Nat \ {0}
      /\ Len(Tail(s)) = Len(s) - 1
      /\ \A i \in 1..Len(Tail(s)) : Tail(s)[i] = s[i + 1]
  BY HeadTailProperties, EmptySeq
<1>2. Head(s) = s[1]  OBVIOUS
<1>3. <<Head(s)>> \in Seq(S) /\ Len(<<Head(s)>>) = 1 /\ <<Head(s)>>[1] = s[1]
  BY <1>1
<1>4. \A h, t \in Seq(S) :
        /\ h \o t \in Seq(S)
        /\ Len(h \o t) = Len(h) + Len(t)
        /\ \A i \in 1..Len(h) + Len(t) :
             (h \o t)[i] = IF i <= Len(h) THEN h[i] ELSE t[i - Len(h)]
  BY ConcatProperties, Zenon
<1> DEFINE c == <<Head(s)>> \o Tail(s)
<1>5. /\ c \in Seq(S)
      /\ Len(c) = Len(s)
      /\ \A i \in 1..Len(s) : c[i] = IF i <= 1 THEN s[1] ELSE Tail(s)[i - 1]
  BY <1>1, <1>3, <1>4
<1>6. QED  BY <1>1, <1>5, SeqEqual

(* And the tail of one that begins with an element is the rest of it.      *)
LEMMA TailOfRest ==
  ASSUME NEW S, NEW e \in S, NEW s \in Seq(S)
  PROVE  Tail(<<e>> \o s) = s
<1>1. <<e>> \in Seq(S) /\ Len(<<e>>) = 1  OBVIOUS
<1>2. Len(s) \in Nat  BY LenProperties
<1>3. \A h, t \in Seq(S) :
        /\ h \o t \in Seq(S)
        /\ Len(h \o t) = Len(h) + Len(t)
        /\ \A i \in 1..Len(h) + Len(t) :
             (h \o t)[i] = IF i <= Len(h) THEN h[i] ELSE t[i - Len(h)]
  BY ConcatProperties, Zenon
<1> DEFINE c == <<e>> \o s
<1>4. /\ c \in Seq(S)
      /\ Len(c) = 1 + Len(s)
      /\ \A i \in 1..Len(s) : c[i + 1] = s[i]
  BY <1>1, <1>2, <1>3
<1> HIDE DEF c
<1>5. c # << >>  BY <1>2, <1>4, EmptySeq
<1>6. /\ Tail(c) \in Seq(S)
      /\ Len(Tail(c)) = Len(c) - 1
      /\ \A i \in 1..Len(Tail(c)) : Tail(c)[i] = c[i + 1]
  BY <1>4, <1>5, HeadTailProperties
<1>7. QED  BY <1>2, <1>4, <1>6, SeqEqual DEF c

-----------------------------------------------------------------------------
(* What is coming is a sequence of messages.                               *)
LEMMA IncomingTyped ==
  ASSUME RadioTyped
  PROVE  /\ to_mcu \in Seq(Message)
         /\ Incoming \in Seq(Message)
         /\ Len(Incoming) = Len(to_mcu) + (IF rx = None THEN 0 ELSE 1)
         /\ rx = None => Incoming = to_mcu
         /\ rx # None => Incoming # << >> /\ Incoming[1] = rx
<1>1. to_mcu \in Seq(Message) /\ Len(to_mcu) \in Nat
  BY LenProperties DEF RadioTyped
<1>2. CASE rx = None
  BY <1>1, <1>2 DEF Incoming
<1>3. CASE rx # None
  <2>1. rx \in Message  BY <1>3 DEF RadioTyped
  <2>2. <<rx>> \in Seq(Message) /\ Len(<<rx>>) = 1 /\ <<rx>>[1] = rx
    BY <2>1
  <2>3. /\ <<rx>> \o to_mcu \in Seq(Message)
        /\ Len(<<rx>> \o to_mcu) = 1 + Len(to_mcu)
        /\ (<<rx>> \o to_mcu)[1] = rx
    BY <1>1, <2>2, ConcatProperties
  <2>4. Incoming = <<rx>> \o to_mcu  BY <1>3 DEF Incoming
  <2>5. Incoming # << >>  BY <1>1, <2>3, <2>4, EmptySeq
  <2>6. QED  BY <1>1, <1>3, <2>3, <2>4, <2>5
<1>4. QED  BY <1>2, <1>3

(* Fetching an event leaves it as it is.                                   *)
LEMMA IncomingFetched ==
  ASSUME RadioTyped, rx = None, Fetching
  PROVE  Incoming' = Incoming
<1>1. to_mcu \in Seq(Message)  BY DEF RadioTyped
<1>2. Incoming = to_mcu  BY DEF Incoming
<1>3. CASE to_mcu = << >>
  BY <1>2, <1>3 DEF Fetching, Incoming
<1>4. CASE to_mcu # << >>
  <2>1. rx' = Head(to_mcu) /\ to_mcu' = Tail(to_mcu)
    BY <1>4 DEF Fetching
  <2>2. Head(to_mcu) \in Message  BY <1>1, <1>4, HeadTailProperties
  <2>3. rx' # None  BY <2>1, <2>2 DEF Message
  <2>4. Incoming' = <<Head(to_mcu)>> \o Tail(to_mcu)
    BY <2>1, <2>3 DEF Incoming
  <2>5. <<Head(to_mcu)>> \o Tail(to_mcu) = to_mcu
    BY <1>1, <1>4, HeadThenTail
  <2>6. QED  BY <1>2, <2>4, <2>5
<1>5. QED  BY <1>3, <1>4

(* Handling one takes it away.                                             *)
LEMMA IncomingHandled ==
  ASSUME RadioTyped, rx # None, rx' = None, to_mcu' = to_mcu
  PROVE  Incoming # << >> /\ Incoming[1] = rx /\ Incoming' = Tail(Incoming)
<1>1. Incoming # << >> /\ Incoming \in Seq(Message) /\ Incoming[1] = rx
  BY IncomingTyped
<1>2. to_mcu \in Seq(Message) /\ rx \in Message  BY DEF RadioTyped
<1>3. Incoming' = to_mcu  BY DEF Incoming
<1>4. Incoming = <<rx>> \o to_mcu  BY DEF Incoming
<1>5. Tail(<<rx>> \o to_mcu) = to_mcu  BY <1>2, TailOfRest
<1>6. QED  BY <1>1, <1>3, <1>4, <1>5

(* What the radio adds comes last.                                         *)
LEMMA IncomingAdded ==
  ASSUME RadioTyped, NEW m \in Message, rx' = rx, to_mcu' = Append(to_mcu, m)
  PROVE  Incoming' = Append(Incoming, m)
<1>1. to_mcu \in Seq(Message)  BY DEF RadioTyped
<1>2. CASE rx = None
  BY <1>2 DEF Incoming
<1>3. CASE rx # None
  <2>1. rx \in Message  BY <1>3 DEF RadioTyped
  <2>2. <<rx>> \in Seq(Message) /\ <<m>> \in Seq(Message)  BY <2>1
  <2>3. Incoming = <<rx>> \o to_mcu  BY <1>3 DEF Incoming
  <2>4. Incoming' = <<rx>> \o Append(to_mcu, m)  BY <1>3 DEF Incoming
  <2>5. Append(to_mcu, m) = to_mcu \o <<m>>  BY <1>1, AppendIsConcat
  <2>6. Incoming \in Seq(Message)  BY IncomingTyped
  <2>7. Append(Incoming, m) = Incoming \o <<m>>  BY <2>6, AppendIsConcat
  <2>8. (<<rx>> \o to_mcu) \o <<m>> = <<rx>> \o (to_mcu \o <<m>>)
    BY <1>1, <2>2, ConcatAssociative
  <2>9. QED  BY <2>3, <2>4, <2>5, <2>7, <2>8
<1>4. QED  BY <1>2, <1>3

(* After the reset of the radio it is what was fetched before, and that.   *)
LEMMA IncomingReset ==
  ASSUME RadioTyped, rx = None, HandsOverReset
  PROVE  \/ Incoming' = <<Event("reset_done")>>
         \/ /\ Incoming # << >>
            /\ Incoming' = Append(<<Incoming[1]>>, Event("reset_done"))
<1>1. to_mcu \in Seq(Message)  BY DEF RadioTyped
<1>2. Incoming = to_mcu  BY DEF Incoming
<1>3. CASE to_mcu = << >>
  BY <1>3 DEF HandsOverReset, Incoming
<1>4. CASE to_mcu # << >>
  <2>1. rx' = to_mcu[1] /\ rx' \in Message
    BY <1>1, <1>4, HeadTailProperties DEF HandsOverReset
  <2>2. rx' # None  BY <2>1 DEF Message
  <2>3. Incoming' = <<rx'>> \o <<Event("reset_done")>>
    BY <2>2 DEF HandsOverReset, Incoming
  <2>4. <<rx'>> \in Seq(Message) /\ Event("reset_done") \in Message
    BY <2>1, PlainMessage DEF Messages
  <2>5. <<rx'>> \o <<Event("reset_done")>> = Append(<<rx'>>, Event("reset_done"))
    BY <2>4, AppendIsConcat
  <2>6. QED  BY <1>2, <1>4, <2>1, <2>3, <2>5
<1>5. QED  BY <1>3, <1>4

(* After a disconnection it is what it was, and the report of that.        *)
LEMMA IncomingDisconnect ==
  ASSUME RadioTyped, rx = None, HandsOverDisconnect
  PROVE  Incoming' = IF link = "connected" THEN Append(Incoming, Event("disconnected"))
                                           ELSE Incoming
<1> DEFINE m == Event("disconnected")
           rest == IF to_mcu = << >> THEN << >> ELSE Tail(to_mcu)
           next == IF to_mcu = << >> THEN None ELSE Head(to_mcu)
           last == IF link = "connected" THEN <<m>> ELSE << >>
           Line(r, s) == IF r = None THEN s ELSE <<r>> \o s
<1>1. rx' = next /\ to_mcu' = rest \o last
  BY DEF HandsOverDisconnect
<1>2. to_mcu \in Seq(Message) /\ rest \in Seq(Message) /\ next \in Message \cup {None}
  BY FetchTyped DEF RadioTyped
<1>3. m \in Message  BY PlainMessage DEF Messages
<1>4. <<m>> \in Seq(Message)  BY <1>3
<1>5. Incoming = to_mcu /\ Incoming' = Line(next, rest \o last)
  BY <1>1 DEF Incoming
<1>6. Line(next, rest) = to_mcu
  <2>1. CASE to_mcu = << >>  BY <2>1
  <2>2. CASE to_mcu # << >>
    <3>1. next = Head(to_mcu) /\ rest = Tail(to_mcu)  BY <2>2
    <3>2. Head(to_mcu) \in Message  BY <1>2, <2>2, HeadTailProperties
    <3>3. next # None  BY <3>1, <3>2 DEF Message
    <3>4. <<Head(to_mcu)>> \o Tail(to_mcu) = to_mcu
      BY <1>2, <2>2, HeadThenTail
    <3>5. QED  BY <3>1, <3>3, <3>4
  <2>3. QED  BY <2>1, <2>2
<1>7. CASE link # "connected"
  <2>1. rest \o last = rest  BY <1>2, <1>7, ConcatEmptySeq
  <2>2. QED  BY <1>5, <1>6, <1>7, <2>1
<1>8. CASE link = "connected"
  <2>1. last = <<m>>  BY <1>8
  <2>2. Append(to_mcu, m) = to_mcu \o <<m>>  BY <1>2, <1>3, AppendIsConcat
  <2>3. Line(next, rest \o <<m>>) = Line(next, rest) \o <<m>>
    <3>1. CASE next = None  BY <3>1
    <3>2. CASE next # None
      <4>1. next \in Message  BY <1>2, <3>2
      <4>2. <<next>> \in Seq(Message)  BY <4>1
      <4> HIDE DEF next, rest, m
      <4>3. (<<next>> \o rest) \o <<m>> = <<next>> \o (rest \o <<m>>)
        BY <1>2, <1>4, <4>2, ConcatAssociative
      <4>4. QED  BY <3>2, <4>3
    <3>3. QED  BY <3>1, <3>2
  <2>4. QED  BY <1>5, <1>6, <1>8, <2>1, <2>2, <2>3
<1>9. QED  BY <1>7, <1>8

-----------------------------------------------------------------------------
(***************************************************************************)
(* What a step does to the world outside the processor: to what is coming, *)
(* to the link, to the central, and to the commands that matter to them.   *)
(***************************************************************************)
Quieter ==
  /\ Sending("connect")' => Sending("connect")
  /\ \A k \in {"start_ok", "validate_ok"} : /\ Sending(k)' => Sending(k)
                                            /\ Told(k)' => Told(k)

Stays ==
  /\ Incoming' = Incoming
  /\ UNCHANGED <<c_state, version, c_pos>>
  /\ Quieter
  /\ \/ UNCHANGED link
     \/ Sending("connect") /\ link = "standby" /\ link' = "advertising"
  /\ UNCHANGED to_central \/ link = "connected"

EventHandledIn ==
  /\ Incoming # << >>
  /\ Incoming' = Tail(Incoming)
  /\ UNCHANGED <<c_state, version, c_pos, link, to_central>>
  /\ ~Sending("connect")
  /\ Sending("connect")' => Incoming[1].what \in Restarts

SessionEnds ==
  /\ link' \in {"off", "standby"}
  /\ c_state' = "away"
  /\ to_central' = << >>
  /\ UNCHANGED <<version, c_pos>>
  /\ Quieter
  /\ \/ Incoming' = << >>
     \/ Incoming' = Incoming /\ c_state = "away"
     \/ \E m \in Message :
          /\ Incoming' = Append(Incoming, m)
          /\ \/ m.what = "disconnected"
             \/ c_state = "away" /\ m.what \in {"device_started", "hw_error"}
     \/ Incoming' = <<Event("reset_done")>>
     \/ /\ Incoming # << >>
        /\ Incoming' = Append(<<Incoming[1]>>, Event("reset_done"))

IsHandedOver ==
  /\ Incoming = << >> /\ Incoming' = << >>
  /\ link' = "connected" /\ c_state' = "ready" /\ c_pos' = 0
  /\ to_central' = << >>
  /\ ~Sending("connect")'
  /\ ~Told("start_ok")' /\ ~Told("validate_ok")'

Connects ==
  /\ link = "advertising" /\ c_state = "away"
  /\ Incoming' = Append(Incoming, Event("connected"))
  /\ link' = "connected" /\ c_state' = "ready" /\ c_pos' = 0
  /\ Quieter
  /\ to_central = << >> /\ to_central' = << >>

(* The message central sends, and what it does then.                       *)
Lagging == Coming(Restarts) \/ Sending("connect")

Exchanged(m) ==
  \/ /\ c_state \notin {"away", "activated", "reset_sent"}
     /\ m.what = "SYS_RESET" /\ c_state' = "reset_sent"
     /\ UNCHANGED c_pos
  \/ /\ c_state = "ready" /\ c_state' = "size_sent"
     /\ m.what = "size" /\ m.bytes # << >>
     /\ UNCHANGED c_pos
  \/ /\ c_state = "size_sent" /\ c_state' = "init" /\ Told("start_ok")
     /\ m.what = "RECEIVE_INIT"
     /\ UNCHANGED c_pos
  \/ /\ c_state = "init" /\ c_state' = "init_sent"
     /\ m.what = "data" /\ m.bytes # << >>
     /\ UNCHANGED c_pos
  \/ /\ (c_state = "size_sent" /\ Told("start_ok")) \/ c_state = "init_sent"
     /\ c_state' = "streaming"
     /\ m.what = "RECEIVE_FW"
     /\ UNCHANGED c_pos
  \/ /\ c_state = "streaming"
     /\ m = DataMsg(version, c_pos)
     /\ c_pos' = Min2(c_pos + ChunkLen, ImageSize)
     /\ c_state' = IF c_pos' = ImageSize THEN "sent_all" ELSE "streaming"
  \/ /\ c_state = "sent_all" /\ c_state' = "validating"
     /\ m.what = "VALIDATE"
     /\ UNCHANGED c_pos
  \/ /\ c_state = "validating" /\ c_state' = "activated" /\ Told("validate_ok")
     /\ m.what = "ACTIVATE"
     /\ UNCHANGED c_pos

Sends(m) ==
  /\ link = "connected"
  /\ Incoming' = Append(Incoming, m)
  /\ Exchanged(m)
  /\ m.what \in {"RECEIVE_INIT", "RECEIVE_FW"} /\ Lagging => misled'
  /\ UNCHANGED <<link, version>>
  /\ Quieter

GivesUp ==
  /\ Incoming' = Incoming
  /\ c_state \in {"size_sent", "init_sent", "sent_all", "validating"}
  /\ c_state' = "gave_up"
  /\ UNCHANGED <<link, version, c_pos, to_central>>
  /\ Quieter

Outside ==
  \/ Stays
  \/ SessionEnds
  \/ IsHandedOver
  \/ Connects
  \/ \E m \in Message : Sends(m)
  \/ GivesUp

(* What is not the processor's own doing.                                  *)
Ongoing ==
  \/ Stays
  \/ Connects
  \/ \E m \in Message : Sends(m)
  \/ GivesUp
  \/ SessionEnds /\ Incoming' # << >>

(* Nothing is said that was not.                                           *)
LEMMA QuietKept ==
  ASSUME tx_queue' = tx_queue \/ tx_queue' = << >>,
         \A k : (\E i \in 1..Len(to_central)' : to_central'[i] = k)
                   => (\E i \in 1..Len(to_central) : to_central[i] = k)
  PROVE  Quieter
<1>1. \A k : Sending(k)' => Sending(k)  BY DEF Sending
<1>2. QED  BY <1>1 DEF Quieter, Told

(* A response taken leaves those behind it.                                *)
LEMMA QuietTail ==
  ASSUME CentralTyped, to_central # << >>, to_central' = Tail(to_central)
  PROVE  \A k : (\E i \in 1..Len(to_central)' : to_central'[i] = k)
                   => (\E i \in 1..Len(to_central) : to_central[i] = k)
<1>1. /\ Len(to_central) \in Nat \ {0}
      /\ Len(to_central') = Len(to_central) - 1
      /\ \A i \in 1..Len(to_central') : to_central'[i] = to_central[i + 1]
  BY HeadTailProperties, EmptySeq DEF CentralTyped
<1>2. QED  BY <1>1

(* The bootloader lags behind when a notice of the past is on its way to it *)
(* or the command that answers it is on its way to the radio.              *)
LEMMA LaggingBehind ==
  ASSUME Typed, Lagging
  PROVE  LagsBehind
<1>typed. RadioTyped /\ QueueTyped  BY DEF Typed
<1>1. CASE Sending("connect")
  <2>1. Len(tx_queue) \in Nat \ {0} /\ tx_queue[1] \in Sendable
    BY <1>typed, <1>1, EmptySeq, LenProperties DEF Sending, QueueTyped
  <2>2. tx_queue[1] = Connect /\ 1 \in DOMAIN tx_queue
    <3>1. tx_queue[1] = Connect  BY <1>1, <2>1 DEF Sending, Sendable, Connect
    <3>2. DOMAIN tx_queue = 1..Len(tx_queue)
      BY <1>typed, LenProperties DEF QueueTyped
    <3>3. QED  BY <2>1, <3>1, <3>2
  <2>3. QED  BY <2>2 DEF LagsBehind
<1>2. CASE Coming(Restarts)
  <2>1. PICK i \in 1..Len(Incoming) : Incoming[i].what \in Restarts
    BY <1>2 DEF Coming, Any
  <2>2. DOMAIN to_mcu = 1..Len(to_mcu) /\ Len(to_mcu) \in Nat
    BY <1>typed, LenProperties DEF RadioTyped
  <2>3. CASE rx = None
    <3>1. Incoming = to_mcu  BY <2>3 DEF Incoming
    <3>2. QED  BY <2>1, <2>2, <3>1 DEF LagsBehind
  <2>4. CASE rx # None
    <3>1. /\ Len(Incoming) = Len(to_mcu) + 1
          /\ Incoming[1] = rx
          /\ \A k \in 1..Len(to_mcu) : Incoming[k + 1] = to_mcu[k]
      <4>1. <<rx>> \in Seq(Message) /\ Len(<<rx>>) = 1
        BY <1>typed, <2>4 DEF RadioTyped
      <4>2. to_mcu \in Seq(Message)  BY <1>typed DEF RadioTyped
      <4>3. \A k \in 1..Len(to_mcu) : (<<rx>> \o to_mcu)[k + 1] = to_mcu[k]
        BY <2>2, <4>1, <4>2, ConcatProperties
      <4>4. Incoming = <<rx>> \o to_mcu  BY <2>4 DEF Incoming
      <4>5. QED  BY <1>typed, <2>2, <2>4, <4>3, <4>4, IncomingTyped
    <3>2. CASE i = 1  BY <2>1, <2>4, <3>1, <3>2 DEF LagsBehind
    <3>3. CASE i # 1
      <4>1. i - 1 \in 1..Len(to_mcu)  BY <2>1, <2>2, <3>1, <3>3
      <4>2. Incoming[(i - 1) + 1] = to_mcu[i - 1]  BY <3>1, <4>1
      <4>3. to_mcu[i - 1].what \in Restarts  BY <2>1, <2>2, <3>1, <4>2
      <4>4. QED  BY <2>2, <4>1, <4>3 DEF LagsBehind
    <3>4. QED  BY <3>2, <3>3
  <2>5. QED  BY <2>3, <2>4
<1>3. QED  BY <1>1, <1>2 DEF Lagging

(* The steps of the central are such.                                      *)
LEMMA CentralWorld ==
  ASSUME Typed, LinkInv, Central
  PROVE  Connects \/ (\E m \in Message : Sends(m)) \/ GivesUp
<1>typed. RadioTyped /\ CentralTyped  BY DEF Typed
<1>same. UNCHANGED tx_queue  BY CentralTypedStep DEF dfuVars
<1>quiet. UNCHANGED to_central => Quieter  BY <1>same, QuietKept
<1>tail. to_central # << >> /\ to_central' = Tail(to_central) => Quieter
  BY <1>typed, <1>same, QuietKept, QuietTail
<1>1. ASSUME CConnect PROVE Connects
  <2>1. Event("connected") \in Message  BY PlainMessage DEF Messages
  <2>2. Incoming' = Append(Incoming, Event("connected"))
    BY <1>typed, <1>1, <2>1, IncomingAdded DEF CConnect
  <2>3. QED  BY <1>1, <1>quiet, <2>2 DEF CConnect, Connects, LinkInv
<1>2. ASSUME CGivesUp PROVE GivesUp
  <2>1. Incoming' = Incoming  BY <1>2 DEF CGivesUp, radioVars, Incoming
  <2>2. DOMAIN Awaiting = {"size_sent", "init_sent", "sent_all", "validating"}
    BY DEF Awaiting
  <2>3. QED  BY <1>2, <1>quiet, <2>1, <2>2 DEF CGivesUp, radioVars, GivesUp
<1>send. ASSUME NEW m \in Message, NEW next, CentralSends(m, next), Quieter, Exchanged(m),
                m.what \in {"RECEIVE_INIT", "RECEIVE_FW"} /\ Lagging => misled'
         PROVE  \E x \in Message : Sends(x)
  <2>1. Incoming' = Append(Incoming, m)
    BY <1>typed, <1>send, IncomingAdded DEF CentralSends
  <2>2. QED  BY <1>send, <2>1 DEF CentralSends, Sends
<1>reply. ASSUME NEW m, NEW next, InReply(m, next), Lagging
          PROVE  misled'
  BY <1>reply, LaggingBehind DEF InReply
<1>other. \A op \in {"SYS_RESET", "VALIDATE", "ACTIVATE"} :
            Opcode(op).what \notin {"RECEIVE_INIT", "RECEIVE_FW"}
  BY DEF Opcode
<1>plain. \A op \in Messages : Opcode(op) \in Message  BY PlainMessage
<1>packet. SizePacket(version) \in Message /\ InitMsg(version) \in Message
  BY <1>typed, PacketMessage DEF CentralTyped
<1>bytes. SizePacket(version).bytes # << >> /\ InitMsg(version).bytes = SizePacket(version).bytes
  <2> DEFINE bytes == [k \in 1..SizePacketLen |-> Junk(version)]
  <2>1. Junk(version) \in Nat
    <3>1. \A v \in Versions : Junk(v) \in Nat  BY BaseType DEF Junk, Base
    <3>2. QED  BY <1>typed, <3>1 DEF CentralTyped
  <2>2. bytes[1] = Junk(version) /\ 1 \in DOMAIN bytes  OBVIOUS
  <2>3. bytes # << >>  BY <2>2
  <2>4. QED  BY <2>3 DEF SizePacket, InitMsg
<1>told. \A k : to_central # << >> /\ Head(to_central) = k => Told(k)
  <2>1. to_central # << >> => Len(to_central) \in Nat \ {0} /\ Head(to_central) = to_central[1]
    BY <1>typed, EmptySeq, HeadTailProperties DEF CentralTyped
  <2>2. QED  BY <2>1 DEF Told
<1>answer. /\ c_state = "size_sent" /\ Answered => Told("start_ok")
           /\ c_state = "validating" /\ Answered => Told("validate_ok")
  <2>1. Awaiting["size_sent"] = "start_ok" /\ Awaiting["validating"] = "validate_ok"
    BY DEF Awaiting
  <2>2. QED  BY <1>told, <2>1 DEF Answered
<1> DEFINE Goal == \E x \in Message : Sends(x)
<1>3. ASSUME CResets PROVE Goal
  <2>1. Exchanged(Opcode("SYS_RESET"))
    BY <1>3 DEF CResets, Unprompted, CentralSends, Exchanged, Opcode
  <2>2. QED
    BY <1>3, <1>send, <1>plain, <1>other, <1>quiet, <2>1
    DEF CResets, Unprompted, Messages
<1>4. ASSUME CSendsSize PROVE Goal
  <2>1. Exchanged(SizePacket(version))
    BY <1>4, <1>bytes DEF CSendsSize, Unprompted, CentralSends, Exchanged, SizePacket
  <2>2. QED
    BY <1>4, <1>send, <1>packet, <1>quiet, <2>1
    DEF CSendsSize, Unprompted, SizePacket
<1>5. ASSUME CReceiveInit PROVE Goal
  <2>1. Exchanged(Opcode("RECEIVE_INIT"))
    BY <1>5, <1>answer DEF CReceiveInit, InReply, CentralSends, Exchanged, Opcode
  <2>2. QED
    BY <1>5, <1>send, <1>reply, <1>plain, <1>tail, <2>1
    DEF CReceiveInit, InReply, Answered, Messages
<1>6. ASSUME CSendsInit PROVE Goal
  <2>1. Exchanged(InitMsg(version))
    BY <1>6, <1>bytes DEF CSendsInit, Unprompted, CentralSends, Exchanged, InitMsg
  <2>2. QED
    BY <1>6, <1>send, <1>packet, <1>quiet, <2>1
    DEF CSendsInit, Unprompted, InitMsg
<1>7. ASSUME CReceiveFw PROVE Goal
  <2>1. Exchanged(Opcode("RECEIVE_FW"))
    BY <1>7, <1>answer DEF CReceiveFw, InReply, CentralSends, Exchanged, Opcode
  <2>2. QED
    BY <1>7, <1>send, <1>reply, <1>plain, <1>tail, <2>1
    DEF CReceiveFw, InReply, Answered, Messages
<1>8. ASSUME CSendsChunk PROVE Goal
  <2>1. Exchanged(DataMsg(version, c_pos))
    BY <1>8 DEF CSendsChunk, CentralSends, Exchanged
  <2>2. DataMsg(version, c_pos) \in Message
    BY <1>typed, ChunkBytes DEF CentralTyped
  <2>3. PICK next : CentralSends(DataMsg(version, c_pos), next)
    BY <1>8 DEF CSendsChunk
  <2>4. Quieter  BY <1>8, <1>quiet DEF CSendsChunk
  <2>5. DataMsg(version, c_pos).what = "data"  BY DEF DataMsg
  <2>6. QED  BY <1>send, <2>1, <2>2, <2>3, <2>4, <2>5
<1>9. ASSUME CValidates PROVE Goal
  <2>1. Exchanged(Opcode("VALIDATE"))
    BY <1>9 DEF CValidates, InReply, CentralSends, Exchanged, Opcode
  <2>2. QED
    BY <1>9, <1>send, <1>other, <1>plain, <1>tail, <2>1
    DEF CValidates, InReply, Answered, Messages
<1>10. ASSUME CActivates PROVE Goal
  <2>1. Exchanged(Opcode("ACTIVATE"))
    BY <1>10, <1>answer DEF CActivates, InReply, CentralSends, Exchanged, Opcode
  <2>2. QED
    BY <1>10, <1>send, <1>other, <1>plain, <1>tail, <2>1
    DEF CActivates, InReply, Answered, Messages
<1>11. QED
  BY <1>1, <1>2, <1>3, <1>4, <1>5, <1>6, <1>7, <1>8, <1>9, <1>10 DEF Central

(* Exchanges with the radio.                                               *)
LEMMA ExchangeWorld ==
  ASSUME Typed, ProcInv, LinkInv, Exchange \/ FetchEvent
  PROVE  Stays \/ SessionEnds
<1>typed. RadioTyped /\ CentralTyped  BY DEF Typed
<1>frame. ExchangeFrame /\ Exchanges  BY ExchangeMade
<1>none. rx = None  BY <1>frame DEF ExchangeFrame
<1>still. \A k : ~Sending(k)'  BY <1>frame DEF ExchangeFrame, Sending
<1>quiet. UNCHANGED to_central \/ to_central' = << >> => Quieter
  BY <1>still DEF Quieter, Told
<1>1. ASSUME HandsOverNothing \/ HandsOverConnect PROVE Stays
  <2>1. Incoming' = Incoming
    BY <1>1, <1>typed, <1>none, IncomingFetched DEF HandsOverNothing, HandsOverConnect
  <2>2. QED
    BY <1>1, <1>frame, <1>quiet, <2>1
    DEF HandsOverNothing, HandsOverConnect, ExchangeFrame, Stays
<1>2. ASSUME HandsOverReset PROVE SessionEnds
  <2>1. QED
    BY <1>2, <1>typed, <1>none, <1>frame, <1>quiet, IncomingReset
    DEF HandsOverReset, ExchangeFrame, SessionEnds
<1>3. ASSUME HandsOverDisconnect PROVE SessionEnds
  <2>1. Event("disconnected") \in Message /\ Event("disconnected").what = "disconnected"
    BY PlainMessage DEF Messages, Event
  <2>2. Incoming' = IF link = "connected" THEN Append(Incoming, Event("disconnected"))
                                          ELSE Incoming
    BY <1>3, <1>typed, <1>none, IncomingDisconnect
  <2>3. link # "connected" => c_state = "away"  BY DEF LinkInv
  <2>4. QED
    BY <1>3, <1>frame, <1>quiet, <2>1, <2>2, <2>3
    DEF HandsOverDisconnect, ExchangeFrame, SessionEnds
<1>4. ASSUME NEW kind \in Dfu!DataKinds, HandsOverResponse(kind) PROVE Stays
  <2>1. Incoming' = Incoming
    BY <1>4, <1>typed, <1>none, IncomingFetched DEF HandsOverResponse
  <2>2. Quieter
    <3>1. ASSUME NEW k, \E i \in 1..Len(to_central)' : to_central'[i] = k
          PROVE  Told(k)
      <4>1. CASE UNCHANGED to_central  BY <3>1, <4>1 DEF Told
      <4>2. CASE to_central' = Append(to_central, kind)
        <5>1. kind \in Dfu!Kinds  BY DEF Dfu!Kinds
        <5>2. /\ Len(to_central) \in Nat
              /\ Len(to_central') = Len(to_central) + 1
              /\ \A i \in 1..Len(to_central) : to_central'[i] = to_central[i]
              /\ to_central'[Len(to_central) + 1] = kind
          BY <1>typed, <4>2, <5>1, AppendProperties, LenProperties DEF CentralTyped
        <5>3. QED  BY <1>4, <3>1, <5>2 DEF HandsOverResponse, Told
      <4>3. QED  BY <1>4, <4>1, <4>2 DEF HandsOverResponse
    <3>2. QED  BY <1>still, <3>1 DEF Quieter, Told
  <2>3. QED
    BY <1>4, <1>frame, <2>1, <2>2 DEF HandsOverResponse, ExchangeFrame, Stays
<1>5. QED  BY <1>frame, <1>1, <1>2, <1>3, <1>4 DEF Exchanges

(* Handling an event.                                                      *)
LEMMA HandleWorld ==
  ASSUME Typed, ProcInv, HandleEvent
  PROVE  /\ rx # None /\ Incoming # << >> /\ Incoming[1] = rx
         /\ EventHandledIn
<1>typed. RadioTyped  BY DEF Typed
<1>frame. HandlingFrame /\ Handles  BY EventHandled
<1>1. Incoming # << >> /\ Incoming[1] = rx /\ Incoming' = Tail(Incoming)
  BY <1>typed, <1>frame, IncomingHandled DEF HandlingFrame, radioVars
<1>2. ~Sending("connect")  BY <1>frame DEF HandlingFrame, Sending
<1>3. Sending("connect")' => rx.what \in Restarts
  BY <1>frame
  DEF Handles, HandlesRestart, HandlesSize, HandlesInit, HandlesData,
      HandlesSysReset, HandlesReceiveInit, HandlesReceiveFw, HandlesValidate,
      HandlesActivate, Ignores, Single, Dfu!Cmd, Sending
<1>4. QED
  BY <1>frame, <1>1, <1>2, <1>3
  DEF HandlingFrame, EventHandledIn, radioVars, centralVars

(* The radio, the central and the link.                                    *)
LEMMA ElsewhereWorld ==
  ASSUME Typed, LinkInv, RadioStarts \/ Central \/ LinkEnds \/ UNCHANGED vars
  PROVE  UNCHANGED <<dfuVars, cpuVars, rx>> /\ Ongoing
<1>typed. RadioTyped /\ CentralTyped  BY DEF Typed
<1>same. UNCHANGED <<rx, to_mcu>> => Incoming' = Incoming  BY DEF Incoming
<1>quiet. (tx_queue' = tx_queue \/ tx_queue' = << >>)
             /\ (UNCHANGED to_central \/ to_central' = << >>) => Quieter
  BY QuietKept
<1>append. \A m \in Message : Append(Incoming, m) # << >>
  <2>1. Incoming \in Seq(Message)  BY <1>typed, IncomingTyped
  <2>2. QED  BY <2>1, AppendProperties
<1>1. ASSUME RadioStarts PROVE SessionEnds /\ Incoming' # << >>
  <2>1. PICK e \in {"device_started", "hw_error"} : to_mcu' = Append(to_mcu, Event(e))
    BY <1>1 DEF RadioStarts
  <2>2. Event(e) \in Message /\ Event(e).what = e
    BY PlainMessage DEF Messages, Event
  <2>3. Incoming' = Append(Incoming, Event(e))
    BY <1>1, <1>typed, <2>1, <2>2, IncomingAdded DEF RadioStarts
  <2>4. c_state = "away" /\ to_central = << >>
    BY <1>1 DEF RadioStarts, LinkInv
  <2>5. QED
    BY <1>1, <1>quiet, <1>append, <2>2, <2>3, <2>4
    DEF RadioStarts, dfuVars, centralVars, SessionEnds
<1>2. ASSUME LinkEnds PROVE SessionEnds /\ Incoming' # << >>
  <2>1. Event("disconnected") \in Message /\ Event("disconnected").what = "disconnected"
    BY PlainMessage DEF Messages, Event
  <2>2. Incoming' = Append(Incoming, Event("disconnected"))
    BY <1>2, <1>typed, <2>1, IncomingAdded DEF LinkEnds
  <2>3. QED
    BY <1>2, <1>quiet, <1>append, <2>1, <2>2 DEF LinkEnds, dfuVars, SessionEnds
<1>3. ASSUME UNCHANGED vars PROVE Stays
  BY <1>3, <1>same, <1>quiet
  DEF vars, dfuVars, radioVars, centralVars, Stays
<1>4. UNCHANGED <<dfuVars, cpuVars, rx>>
  BY CentralTypedStep DEF RadioStarts, LinkEnds, vars
<1>5. QED  BY <1>1, <1>2, <1>3, <1>4, CentralWorld DEF Ongoing

(* The processor starts again, what is coming changed in one of three ways. *)
Restart == MemoryCleared /\ mode' = "reset" /\ (EventHandledIn \/ Stays \/ SessionEnds)

(* Every step handles an event, stays, starts, ends or begins a session.   *)
LEMMA EveryStep ==
  ASSUME Typed, ProcInv, LinkInv, [Next]_vars
  PROVE  \/ HandleEvent /\ EventHandledIn
         \/ ByteLoop /\ Stays
         \/ Restart
         \/ UNCHANGED dfuUntouched /\ Outside
<1>typed. RadioTyped /\ CentralTyped  BY DEF Typed
<1> DEFINE Goal == \/ HandleEvent /\ EventHandledIn
                   \/ ByteLoop /\ Stays
                   \/ Restart
                   \/ UNCHANGED dfuUntouched /\ Outside
<1>same. UNCHANGED <<rx, to_mcu>> => Incoming' = Incoming  BY DEF Incoming
<1>quiet. (tx_queue' = tx_queue \/ tx_queue' = << >>)
             /\ (UNCHANGED to_central \/ to_central' = << >>) => Quieter
  BY QuietKept
<1>1. ASSUME JumpToApp PROVE Goal
  <2>1. rx = None  BY <1>1 DEF JumpToApp, ProcInv, ModeInv, Cleared
  <2>2. Incoming' = << >>  BY <1>1, <2>1 DEF JumpToApp, Incoming
  <2>3. QED
    BY <1>1, <1>quiet, <2>2 DEF JumpToApp, SessionEnds, Outside, dfuVars
<1>2. ASSUME StayInBootloader \/ AppFails PROVE Goal
  <2>1. UNCHANGED <<dfuVars, rx, radioVars, centralVars, to_central>>
    BY <1>2 DEF StayInBootloader, AppFails, AppResets
  <2>2. QED
    BY <1>same, <1>quiet, <2>1 DEF dfuVars, radioVars, centralVars, Stays, Outside
<1>3. ASSUME MainStarts PROVE Goal
  <2>1. UNCHANGED <<dfuUntouched, rx, radioVars, centralVars, to_central>>
    BY <1>3 DEF MainStarts
  <2>2. \A k \in {"connect", "start_ok", "validate_ok"} : ~Sending(k)'
    BY <1>3 DEF MainStarts, Dfu!Cmd, Sending
  <2>3. Quieter  BY <2>1, <2>2 DEF Quieter, Told
  <2>4. QED
    BY <1>same, <2>1, <2>3 DEF radioVars, centralVars, Stays, Outside
<1>4. ASSUME Exchange \/ FetchEvent PROVE Goal
  <2>1. ExchangeFrame  BY <1>4, ExchangeMade
  <2>2. QED  BY <1>4, <2>1, ExchangeWorld DEF ExchangeFrame, Outside
<1>5. ASSUME HandleEvent PROVE Goal
  BY <1>5, HandleWorld
<1>6. ASSUME ByteLoop PROVE Goal
  <2>1. UNCHANGED <<rx, radioVars, centralVars, to_central>>  BY <1>6 DEF ByteLoop
  <2>2. tx_queue = << >>
    BY <1>6 DEF ByteLoop, Dfu!StoreByte, Dfu!PacketDone, ProcInv, QueueInv
  <2>3. tx_queue' = << >> \/ tx_queue' = <<Dfu!Cmd("receive_ok")>>
    BY <1>6, <2>2, EmptyTakes DEF ByteLoop, Dfu!StoreByte, Dfu!PacketDone, Dfu!sendVars
  <2>4. \A k \in {"connect", "start_ok", "validate_ok"} : ~Sending(k)'
    BY <2>3 DEF Dfu!Cmd, Sending
  <2>5. Quieter  BY <2>1, <2>4 DEF Quieter, Told
  <2>6. QED
    BY <1>6, <1>same, <2>1, <2>5 DEF radioVars, centralVars, Stays
<1>7. ASSUME Watchdog PROVE Goal
  <2>1. /\ MemoryCleared /\ mode' = "reset"
        /\ UNCHANGED <<radioVars, centralVars, to_central>>
        /\ rx' = None /\ tx_queue' = << >>
    BY <1>7 DEF Watchdog, MemoryCleared
  <2>2. Quieter /\ ~Sending("connect")'
    BY <1>quiet, <2>1 DEF Sending
  <2>3. CASE rx = None
    BY <1>same, <2>1, <2>2, <2>3 DEF radioVars, centralVars, Stays, Restart
  <2>4. CASE rx # None
    <3>1. Incoming # << >> /\ Incoming' = Tail(Incoming)
      BY <1>typed, <2>1, <2>4, IncomingHandled DEF radioVars
    <3>2. ~Sending("connect")
      BY <2>4 DEF ProcInv, QueueInv, Sending
    <3>3. QED
      BY <2>1, <2>2, <3>1, <3>2 DEF radioVars, centralVars, EventHandledIn, Restart
  <2>5. QED  BY <2>3, <2>4
<1>8. ASSUME PowerCycle PROVE Goal
  <2>1. rx' = None /\ tx_queue' = << >> /\ to_mcu' = << >>
    BY <1>8 DEF PowerCycle, MemoryCleared
  <2>2. Incoming' = << >>  BY <2>1 DEF Incoming
  <2>3. QED
    BY <1>8, <1>quiet, <2>1, <2>2 DEF PowerCycle, SessionEnds, Restart
<1>9. ASSUME RadioStarts \/ Central \/ LinkEnds \/ UNCHANGED vars PROVE Goal
  BY <1>9, ElsewhereWorld DEF Ongoing, Outside, dfuVars
<1>10. ASSUME AppHandsOver PROVE Goal
  <2>1. /\ rx = None /\ to_mcu = << >> /\ tx_queue = << >> /\ to_central = << >>
        /\ UNCHANGED <<dfuVars, rx, to_central, to_mcu>>
    BY <1>10 DEF AppHandsOver, AppResets, ProcInv, ModeInv, Cleared
  <2>2. Incoming = << >> /\ Incoming' = << >>  BY <2>1 DEF Incoming
  <2>3. \A k : ~Sending(k)' /\ ~Told(k)'
    BY <2>1 DEF dfuVars, Sending, Told
  <2>4. QED
    BY <1>10, <2>1, <2>2, <2>3
    DEF AppHandsOver, dfuVars, IsHandedOver, Outside
<1>14. CASE Next
  <2>1. CASE Processor
    BY <1>1, <1>2, <1>3, <1>4, <1>5, <1>6, <2>1 DEF Processor
  <2>2. CASE Watchdog \/ PowerCycle  BY <1>7, <1>8, <2>2
  <2>3. CASE RadioStarts \/ AppFails \/ AppHandsOver
    BY <1>2, <1>9, <1>10, <2>3
  <2>4. CASE mode # "app" /\ (Central \/ LinkEnds)  BY <1>9, <2>4
  <2>5. QED  BY <1>14, <2>1, <2>2, <2>3, <2>4 DEF Next
<1>15. QED  BY <1>9, <1>14

-----------------------------------------------------------------------------
(* The items of a tail.                                                    *)
LEMMA TailItems ==
  ASSUME NEW s \in Seq(Message), s # << >>
  PROVE  /\ Len(s) \in Nat \ {0}
         /\ Tail(s) \in Seq(Message)
         /\ Len(Tail(s)) = Len(s) - 1
         /\ \A i \in 1..Len(s) - 1 : Tail(s)[i] = s[i + 1]
BY HeadTailProperties, EmptySeq

(* With one more at the end.                                               *)
LEMMA AppendItems ==
  ASSUME NEW s \in Seq(Message), NEW m \in Message
  PROVE  /\ Len(s) \in Nat
         /\ Append(s, m) \in Seq(Message)
         /\ Len(Append(s, m)) = Len(s) + 1
         /\ \A i \in 1..Len(s) : Append(s, m)[i] = s[i]
         /\ Append(s, m)[Len(s) + 1] = m
BY AppendProperties, LenProperties

(* Of nothing there is none of any kind.                                   *)
LEMMA AnyEmpty == \A W : ~Any(<< >>, W)
<1>1. Len(<< >>) = 0  OBVIOUS
<1>2. QED  BY <1>1 DEF Any

(* In a tail there is no more than before.                                 *)
LEMMA AnyTail ==
  ASSUME NEW s \in Seq(Message), s # << >>
  PROVE  \A W : /\ Any(Tail(s), W) => Any(s, W)
                /\ s[1].what \in W => Any(s, W)
<1>1. /\ Len(s) \in Nat \ {0}
      /\ Len(Tail(s)) = Len(s) - 1
      /\ \A i \in 1..Len(s) - 1 : Tail(s)[i] = s[i + 1]
  BY TailItems
<1>2. ASSUME NEW W, Any(Tail(s), W) PROVE Any(s, W)
  <2>1. PICK i \in 1..Len(s) - 1 : Tail(s)[i].what \in W  BY <1>1, <1>2 DEF Any
  <2>2. s[i + 1].what \in W /\ i + 1 \in 1..Len(s)  BY <1>1, <2>1
  <2>3. QED  BY <2>2 DEF Any
<1>3. ASSUME NEW W, s[1].what \in W PROVE Any(s, W)
  BY <1>1, <1>3 DEF Any
<1>4. QED  BY <1>2, <1>3

(* With one more there is that as well.                                    *)
LEMMA AnyAppend ==
  ASSUME NEW s \in Seq(Message), NEW m \in Message
  PROVE  \A W : Any(Append(s, m), W) <=> Any(s, W) \/ m.what \in W
<1> DEFINE t == Append(s, m)
<1>1. /\ Len(s) \in Nat
      /\ Len(t) = Len(s) + 1
      /\ \A i \in 1..Len(s) : t[i] = s[i]
      /\ t[Len(s) + 1] = m
  BY AppendItems
<1> HIDE DEF t
<1>2. \A W : Any(t, W) <=> Any(s, W) \/ m.what \in W
  <2> TAKE W
  <2>1. ASSUME Any(t, W) PROVE Any(s, W) \/ m.what \in W
    <3>1. PICK i \in 1..Len(s) + 1 : t[i].what \in W  BY <1>1, <2>1 DEF Any
    <3>2. CASE i = Len(s) + 1  BY <1>1, <3>1, <3>2
    <3>3. CASE i \in 1..Len(s)  BY <1>1, <3>1, <3>3 DEF Any
    <3>4. QED  BY <1>1, <3>2, <3>3
  <2>2. ASSUME Any(s, W) PROVE Any(t, W)
    <3>1. PICK i \in 1..Len(s) : s[i].what \in W  BY <2>2 DEF Any
    <3>2. t[i].what \in W /\ i \in 1..Len(t)  BY <1>1, <3>1
    <3>3. QED  BY <3>2 DEF Any
  <2>3. ASSUME m.what \in W PROVE Any(t, W)
    <3>1. t[Len(s) + 1].what \in W /\ Len(s) + 1 \in 1..Len(t)  BY <1>1, <2>3
    <3>2. QED  BY <3>1 DEF Any
  <2>4. QED  BY <2>1, <2>2, <2>3
<1>3. QED  BY <1>2 DEF t

(* What is in order stays so when the first goes.                          *)
LEMMA OrderedTail ==
  ASSUME NEW s \in Seq(Message), s # << >>
  PROVE  /\ Uninterrupted(s) => Uninterrupted(Tail(s))
         /\ ResetEnds(s) => ResetEnds(Tail(s))
         /\ Filled(s) => Filled(Tail(s))
         /\ OneFw(s) => OneFw(Tail(s))
         /\ \A v, pos : Streaming(s, v, pos) => Streaming(Tail(s), v, pos)
<1> DEFINE t == Tail(s)
<1>1. /\ Len(s) \in Nat \ {0}
      /\ Len(t) = Len(s) - 1
      /\ \A i \in 1..Len(t) : t[i] = s[i + 1] /\ i + 1 \in 1..Len(s)
  BY TailItems
<1> HIDE DEF t
<1>2. Uninterrupted(s) => Uninterrupted(t)
  <2> SUFFICES ASSUME Uninterrupted(s), NEW i \in 1..Len(t), NEW j \in 1..Len(t),
                      t[i].what \in Heavy, t[j].what \in Restarts
               PROVE  i < j
    BY DEF Uninterrupted
  <2>1. s[i + 1].what \in Heavy /\ s[j + 1].what \in Restarts  BY <1>1
  <2>2. i + 1 < j + 1  BY <1>1, <2>1 DEF Uninterrupted
  <2>3. QED  BY <1>1, <2>2
<1>3. ResetEnds(s) => ResetEnds(t)
  <2> SUFFICES ASSUME ResetEnds(s), NEW i \in 1..Len(t) - 1, t[i].what = "SYS_RESET"
               PROVE  t[i + 1].what \in Ends
    BY DEF ResetEnds
  <2>1. i + 1 \in 1..Len(s) - 1 /\ s[i + 1].what = "SYS_RESET"  BY <1>1
  <2>2. s[(i + 1) + 1].what \in Ends  BY <2>1 DEF ResetEnds
  <2>3. t[i + 1] = s[(i + 1) + 1]  BY <1>1
  <2>4. QED  BY <2>2, <2>3
<1>4. Filled(s) => Filled(t)  BY <1>1 DEF Filled
<1>5. OneFw(s) => OneFw(t)
  <2> SUFFICES ASSUME OneFw(s), NEW i \in 1..Len(t), NEW j \in 1..Len(t),
                      t[i].what = "RECEIVE_FW", t[j].what = "RECEIVE_FW"
               PROVE  i = j
    BY DEF OneFw
  <2>1. s[i + 1].what = "RECEIVE_FW" /\ s[j + 1].what = "RECEIVE_FW"  BY <1>1
  <2>2. i + 1 = j + 1  BY <1>1, <2>1 DEF OneFw
  <2>3. QED  BY <1>1, <2>2
<1>6. ASSUME NEW v, NEW pos, Streaming(s, v, pos) PROVE Streaming(t, v, pos)
  <2> SUFFICES ASSUME NEW i \in 1..Len(t) PROVE InStream(t, i, v, pos)
    BY DEF Streaming
  <2>1. InStream(s, i + 1, v, pos)  BY <1>1, <1>6 DEF Streaming
  <2>2. t[i] = s[i + 1]  BY <1>1
  <2>3. ASSUME NEW j \in (i + 1) + 1..Len(s), s[j].what = "RECEIVE_FW"
        PROVE  \E k \in i + 1..Len(t) : t[k].what = "RECEIVE_FW"
    <3>1. j - 1 \in i + 1..Len(t) /\ t[j - 1] = s[(j - 1) + 1]  BY <1>1
    <3>2. s[(j - 1) + 1] = s[j]  OBVIOUS
    <3>3. QED  BY <2>3, <3>1, <3>2
  <2>4. i + 1 = Len(s) <=> i = Len(t)  BY <1>1
  <2>5. i # Len(t) => t[i + 1] = s[(i + 1) + 1]  BY <1>1
  <2>6. FollowedBy(s, i + 1, v, pos) => FollowedBy(t, i, v, pos)
    BY <2>2, <2>4, <2>5 DEF FollowedBy
  <2>7. QED  BY <2>1, <2>2, <2>3, <2>4, <2>6 DEF InStream
<1>7. QED  BY <1>2, <1>3, <1>4, <1>5, <1>6 DEF t

(* And what comes last may keep it so.                                     *)
LEMMA OrderedAppend ==
  ASSUME NEW s \in Seq(Message), NEW m \in Message
  PROVE  /\ Uninterrupted(s) /\ (m.what \in Heavy => ~Any(s, Restarts))
              => Uninterrupted(Append(s, m))
         /\ ResetEnds(s) /\ (s # << >> /\ s[Len(s)].what = "SYS_RESET" => m.what \in Ends)
              => ResetEnds(Append(s, m))
         /\ Filled(s) /\ (m.what \in Packets => m.bytes # << >>)
              => Filled(Append(s, m))
         /\ OneFw(s) /\ (m.what = "RECEIVE_FW" => ~Any(s, {"RECEIVE_FW"}))
              => OneFw(Append(s, m))
<1> DEFINE t == Append(s, m)
<1>1. /\ Len(s) \in Nat
      /\ Len(t) = Len(s) + 1
      /\ \A i \in 1..Len(t) : IF i = Len(s) + 1 THEN t[i] = m
                                                ELSE t[i] = s[i] /\ i \in 1..Len(s)
      /\ s # << >> <=> Len(s) # 0
  BY AppendItems, EmptySeq
<1> HIDE DEF t
<1>apart. Heavy \cap Restarts = {}  BY DEF Heavy, Restarts
<1>2. ASSUME Uninterrupted(s), m.what \in Heavy => ~Any(s, Restarts)
      PROVE  Uninterrupted(t)
  <2> SUFFICES ASSUME NEW i \in 1..Len(t), NEW j \in 1..Len(t),
                      t[i].what \in Heavy, t[j].what \in Restarts
               PROVE  i < j
    BY DEF Uninterrupted
  <2>1. CASE i = Len(s) + 1
    <3>1. m.what \in Heavy  BY <1>1, <2>1
    <3>2. j # Len(s) + 1  BY <1>1, <1>apart, <3>1
    <3>3. QED  BY <1>1, <1>2, <3>1, <3>2 DEF Any
  <2>2. CASE i # Len(s) + 1
    BY <1>1, <1>2, <2>2 DEF Uninterrupted
  <2>3. QED  BY <2>1, <2>2
<1>3. ASSUME ResetEnds(s), s # << >> /\ s[Len(s)].what = "SYS_RESET" => m.what \in Ends
      PROVE  ResetEnds(t)
  <2> SUFFICES ASSUME NEW i \in 1..Len(t) - 1, t[i].what = "SYS_RESET"
               PROVE  t[i + 1].what \in Ends
    BY DEF ResetEnds
  <2>1. t[i] = s[i] /\ i \in 1..Len(s)  BY <1>1
  <2>2. CASE i = Len(s)
    <3>1. t[i + 1] = m  BY <1>1, <2>2
    <3>2. QED  BY <1>1, <1>3, <2>1, <2>2, <3>1
  <2>3. CASE i # Len(s)
    <3>1. t[i + 1] = s[i + 1]  BY <1>1, <2>3
    <3>2. i \in 1..Len(s) - 1  BY <1>1, <2>1, <2>3
    <3>3. QED  BY <1>3, <2>1, <3>1, <3>2 DEF ResetEnds
  <2>4. QED  BY <2>2, <2>3
<1>4. Filled(s) /\ (m.what \in Packets => m.bytes # << >>) => Filled(t)
  BY <1>1 DEF Filled
<1>5. ASSUME OneFw(s), m.what = "RECEIVE_FW" => ~Any(s, {"RECEIVE_FW"})
      PROVE  OneFw(t)
  <2> SUFFICES ASSUME NEW i \in 1..Len(t), NEW j \in 1..Len(t),
                      t[i].what = "RECEIVE_FW", t[j].what = "RECEIVE_FW"
               PROVE  i = j
    BY DEF OneFw
  <2>1. CASE i # Len(s) + 1 /\ j # Len(s) + 1
    BY <1>1, <1>5, <2>1 DEF OneFw
  <2>2. CASE i = Len(s) + 1 \/ j = Len(s) + 1
    <3>1. m.what = "RECEIVE_FW"  BY <1>1, <2>2
    <3>2. \A k \in 1..Len(s) : s[k].what # "RECEIVE_FW"  BY <1>5, <3>1 DEF Any
    <3>3. QED  BY <1>1, <3>2
  <2>3. QED  BY <2>1, <2>2
<1>6. QED  BY <1>2, <1>3, <1>4, <1>5 DEF t

(* So are no messages, and a single one.                                   *)
LEMMA OrderedShort ==
  ASSUME NEW s \in Seq(Message)
  PROVE  /\ Uninterrupted(<< >>) /\ ResetEnds(<< >>) /\ Filled(<< >>) /\ OneFw(<< >>)
         /\ s # << >> =>
              /\ <<s[1]>> \in Seq(Message)
              /\ Uninterrupted(<<s[1]>>)
              /\ ResetEnds(<<s[1]>>)
              /\ Filled(s) => Filled(<<s[1]>>)
              /\ OneFw(<<s[1]>>)
              /\ \A W : Any(<<s[1]>>, W) => Any(s, W)
<1>1. Uninterrupted(<< >>) /\ ResetEnds(<< >>) /\ Filled(<< >>) /\ OneFw(<< >>)
  <2>1. Len(<< >>) = 0  OBVIOUS
  <2>2. QED  BY <2>1 DEF Uninterrupted, ResetEnds, Filled, OneFw
<1>2. ASSUME s # << >>
      PROVE  /\ <<s[1]>> \in Seq(Message)
             /\ Uninterrupted(<<s[1]>>)
             /\ ResetEnds(<<s[1]>>)
             /\ Filled(s) => Filled(<<s[1]>>)
             /\ OneFw(<<s[1]>>)
             /\ \A W : Any(<<s[1]>>, W) => Any(s, W)
  <2> DEFINE t == <<s[1]>>
  <2>1. Len(s) \in Nat \ {0}  BY <1>2, EmptySeq
  <2>2. s[1] \in Message  BY <2>1, ElementOfSeq
  <2>3. t \in Seq(Message)  BY <2>2
  <2>4. Len(t) = 1 /\ t[1] = s[1]  OBVIOUS
  <2> HIDE DEF t
  <2>apart. Heavy \cap Restarts = {}  BY DEF Heavy, Restarts
  <2>5. Uninterrupted(t)  BY <2>4, <2>apart DEF Uninterrupted
  <2>6. ResetEnds(t) /\ OneFw(t)  BY <2>4 DEF ResetEnds, OneFw
  <2>7. Filled(s) => Filled(t)  BY <2>1, <2>4 DEF Filled
  <2>8. \A W : Any(t, W) => Any(s, W)  BY <2>1, <2>4 DEF Any
  <2>9. QED  BY <2>3, <2>5, <2>6, <2>7, <2>8 DEF t
<1>3. QED  BY <1>1, <1>2

-----------------------------------------------------------------------------
(* Where a chunk begins and ends.                                          *)
LEMMA ChunkAt ==
  ASSUME NEW v \in Versions, NEW from \in 0..ImageSize - 1
  PROVE  /\ From(DataMsg(v, from), v) = from
         /\ After(DataMsg(v, from), v) = Min2(from + ChunkLen, ImageSize)
         /\ DataMsg(v, from).bytes = Chunk(v, from)
         /\ DataMsg(v, from).what = "data"
         /\ IsChunk(DataMsg(v, from), v)
         /\ DataMsg(v, from).bytes # << >>
<1>1. /\ DataMsg(v, from).bytes = Chunk(v, from)
      /\ DataMsg(v, from).what = "data"
  BY DEF DataMsg
<1>2. /\ Chunk(v, from) \in Seq(Nat)
      /\ Len(Chunk(v, from)) \in 1..ImageSize - from
      /\ from + Len(Chunk(v, from)) = Min2(from + ChunkLen, ImageSize)
      /\ \A k \in 1..Len(Chunk(v, from)) : Chunk(v, from)[k] = Base(v) + from + k - 1
  <2>1. from \in 0..ImageSize /\ from < ImageSize  OBVIOUS
  <2>2. QED  BY <2>1, ChunkBytes
<1>3. Base(v) \in Nat  BY BaseType
<1>4. Chunk(v, from)[1] = Base(v) + from  BY <1>2, <1>3
<1>5. From(DataMsg(v, from), v) = from  BY <1>1, <1>3, <1>4 DEF From
<1>6. Chunk(v, from) # << >>  BY <1>2, EmptySeq
<1>7. QED  BY <1>1, <1>2, <1>5, <1>6 DEF After, IsChunk

(* The stream as central goes on with it.                                  *)
LEMMA StreamingAppend ==
  ASSUME NEW s \in Seq(Message), NEW m \in Message, NEW v \in Versions,
         NEW pos \in 0..ImageSize
  PROVE  /\ m.what = "RECEIVE_FW" => Streaming(Append(s, m), v, 0)
         /\ Streaming(s, v, pos) /\ ~Any(s, {"VALIDATE"}) =>
              /\ m.what = "VALIDATE" => Streaming(Append(s, m), v, pos)
              /\ pos < ImageSize /\ m = DataMsg(v, pos) =>
                   Streaming(Append(s, m), v, Min2(pos + ChunkLen, ImageSize))
<1> DEFINE t == Append(s, m)
           n == Len(s) + 1
<1>1. /\ Len(s) \in Nat
      /\ Len(t) = n
      /\ \A i \in 1..Len(s) : t[i] = s[i]
      /\ t[n] = m
  BY AppendItems
<1> HIDE DEF t
<1>2. ASSUME m.what = "RECEIVE_FW" PROVE Streaming(t, v, 0)
  <2> SUFFICES ASSUME NEW i \in 1..n PROVE InStream(t, i, v, 0)
    BY <1>1 DEF Streaming
  <2>1. CASE i = n
    BY <1>1, <1>2, <2>1 DEF InStream, FollowedBy, After
  <2>2. CASE i # n
    <3>1. n \in i + 1..Len(t)  BY <1>1, <2>2
    <3>2. QED  BY <1>1, <1>2, <3>1 DEF InStream
  <2>3. QED  BY <2>1, <2>2
<1>old. ASSUME Streaming(s, v, pos), ~Any(s, {"VALIDATE"}), NEW i \in 1..Len(s)
        PROVE  \/ \E j \in i + 1..Len(t) : t[j].what = "RECEIVE_FW"
               \/ /\ t[i].what = "RECEIVE_FW" \/ IsChunk(t[i], v)
                  /\ i = Len(s) => After(t[i], v) = pos
                  /\ i # Len(s) => /\ t[i + 1].what # "VALIDATE"
                                   /\ FollowedBy(s, i, v, pos)
                                   /\ IsChunk(t[i + 1], v)
                                   /\ From(t[i + 1], v) = After(t[i], v)
  <2>1. InStream(s, i, v, pos)  BY <1>old DEF Streaming
  <2>2. \A k \in 1..Len(s) : s[k].what # "VALIDATE"  BY <1>old DEF Any
  <2>3. t[i] = s[i] /\ (i # Len(s) => i + 1 \in 1..Len(s) /\ t[i + 1] = s[i + 1])
    BY <1>1
  <2>4. CASE \E j \in i + 1..Len(s) : s[j].what = "RECEIVE_FW"
    <3>1. PICK j \in i + 1..Len(s) : s[j].what = "RECEIVE_FW"  BY <2>4
    <3>2. j \in i + 1..Len(t) /\ t[j] = s[j]  BY <1>1
    <3>3. QED  BY <3>1, <3>2
  <2>5. CASE /\ s[i].what = "RECEIVE_FW" \/ IsChunk(s[i], v)
             /\ FollowedBy(s, i, v, pos)
    BY <2>2, <2>3, <2>5 DEF FollowedBy
  <2>6. QED  BY <2>1, <2>2, <2>4, <2>5 DEF InStream
<1>3. ASSUME Streaming(s, v, pos), ~Any(s, {"VALIDATE"}), m.what = "VALIDATE"
      PROVE  Streaming(t, v, pos)
  <2> SUFFICES ASSUME NEW i \in 1..n PROVE InStream(t, i, v, pos)
    BY <1>1 DEF Streaming
  <2>1. CASE i = n  BY <1>1, <1>3, <2>1 DEF InStream
  <2>2. CASE i \in 1..Len(s)
    BY <1>1, <1>3, <1>old, <2>2 DEF InStream, FollowedBy
  <2>3. QED  BY <1>1, <2>1, <2>2
<1>4. ASSUME Streaming(s, v, pos), ~Any(s, {"VALIDATE"}), pos < ImageSize,
             m = DataMsg(v, pos)
      PROVE  Streaming(t, v, Min2(pos + ChunkLen, ImageSize))
  <2>1. /\ From(m, v) = pos /\ IsChunk(m, v) /\ m.what = "data"
        /\ After(m, v) = Min2(pos + ChunkLen, ImageSize)
    <3>1. pos \in 0..ImageSize - 1  BY <1>4
    <3>2. QED  BY <1>4, <3>1, ChunkAt
  <2> SUFFICES ASSUME NEW i \in 1..n
               PROVE  InStream(t, i, v, Min2(pos + ChunkLen, ImageSize))
    BY <1>1 DEF Streaming
  <2>2. CASE i = n  BY <1>1, <2>1, <2>2 DEF InStream, FollowedBy
  <2>3. CASE i \in 1..Len(s)
    <3>1. CASE i = Len(s)
      <4>1. t[i + 1] = m /\ i # Len(t)  BY <1>1, <3>1
      <4>2. QED
        BY <1>4, <1>old, <2>1, <2>3, <3>1, <4>1 DEF InStream, FollowedBy
    <3>2. CASE i # Len(s)
      <4>1. i # Len(t)  BY <1>1, <2>3
      <4>2. QED  BY <1>4, <1>old, <2>3, <3>2, <4>1 DEF InStream, FollowedBy
    <3>3. QED  BY <3>1, <3>2
  <2>4. QED  BY <1>1, <2>2, <2>3
<1>5. QED  BY <1>2, <1>3, <1>4 DEF t

-----------------------------------------------------------------------------
(***************************************************************************)
(* The world keeps its order, step by step.                                *)
(***************************************************************************)
WorldTyped ==
  /\ Incoming \in Seq(Message)
  /\ c_state \in CentralStates
  /\ version \in Versions
  /\ c_pos \in 0..ImageSize

(* The parts of the world have their types.                                *)
LEMMA TypedWorld == Typed => WorldTyped /\ to_mcu \in Seq(Message) /\ Len(to_mcu) \in Nat
<1> SUFFICES ASSUME Typed PROVE WorldTyped /\ to_mcu \in Seq(Message) /\ Len(to_mcu) \in Nat
  OBVIOUS
<1>1. RadioTyped /\ CentralTyped  BY DEF Typed
<1>2. Incoming \in Seq(Message) /\ to_mcu \in Seq(Message)  BY <1>1, IncomingTyped
<1>3. QED  BY <1>1, <1>2, LenProperties DEF CentralTyped, WorldTyped

(* Central sends little while the bootloader lags behind, and none of it     *)
(* needs the connection.                                                   *)
LEMMA LittleSent ==
  ASSUME TokenInv, ~misled', NEW m \in Message, Sends(m), Lagging
  PROVE  /\ m.what \in {"size", "SYS_RESET"}
         /\ c_state' \in {"size_sent", "reset_sent"}
<1>1. PICK p \in 1..Len(Incoming) : NoticeAt(p)  BY DEF TokenInv, Sends, Lagging
<1>2. c_state \in {"ready", "size_sent", "gave_up", "reset_sent"}
  BY <1>1 DEF NoticeAt
<1>3. m.what \notin {"RECEIVE_INIT", "RECEIVE_FW"}  BY DEF Sends
<1>4. QED  BY <1>2, <1>3 DEF Sends, Exchanged

(* What the radio says when a session has ended.                           *)
Notices == {"disconnected", "reset_done", "device_started", "hw_error"}
LastIsReset(s) == s # << >> /\ s[Len(s)].what = "SYS_RESET"

(* What is coming when a session has ended is what was, and a notice.      *)
LEMMA EndedItems ==
  ASSUME Incoming \in Seq(Message), SessionEnds
  PROVE  /\ Uninterrupted(Incoming) => Uninterrupted(Incoming')
         /\ Filled(Incoming) => Filled(Incoming')
         /\ OneFw(Incoming) => OneFw(Incoming')
         /\ \A W : W \cap Notices = {} => (Any(Incoming', W) => Any(Incoming, W))
         /\ ResetInv => ResetEnds(Incoming') /\ ~LastIsReset(Incoming')
<1> DEFINE s == Incoming
           Keeps(t) == /\ Uninterrupted(s) => Uninterrupted(t)
                       /\ Filled(s) => Filled(t)
                       /\ OneFw(s) => OneFw(t)
                       /\ \A W : W \cap Notices = {} => (Any(t, W) => Any(s, W))
           Resets(t) == ResetInv => ResetEnds(t) /\ ~LastIsReset(t)
<1>light. \A w \in Notices : w \notin Heavy /\ w \notin Packets
                                /\ w # "RECEIVE_FW" /\ w # "SYS_RESET"
  BY DEF Notices, Heavy, Packets
<1>append. ASSUME NEW t \in Seq(Message), NEW m \in Message, s' = Append(t, m),
                  Keeps(t), m.what \in Notices
           PROVE  /\ Keeps(s') /\ ~LastIsReset(s')
                  /\ ResetEnds(t) /\ (LastIsReset(t) => m.what \in Ends) => ResetEnds(s')
  <2>1. /\ Uninterrupted(t) => Uninterrupted(s')
        /\ Filled(t) => Filled(s')
        /\ OneFw(t) => OneFw(s')
        /\ ResetEnds(t) /\ (LastIsReset(t) => m.what \in Ends) => ResetEnds(s')
    BY <1>light, <1>append, OrderedAppend DEF LastIsReset
  <2>2. \A W : Any(s', W) <=> Any(t, W) \/ m.what \in W
    BY <1>append, AnyAppend
  <2>3. s'[Len(s')] = m
    <3>1. Len(t) \in Nat /\ Len(s') = Len(t) + 1 /\ s'[Len(t) + 1] = m
      BY <1>append, AppendItems
    <3>2. QED  BY <3>1
  <2>4. QED  BY <1>light, <1>append, <2>1, <2>2, <2>3 DEF LastIsReset
<1>1. CASE s' = << >>
  BY <1>1, OrderedShort, AnyEmpty DEF LastIsReset
<1>2. CASE s' = s /\ c_state = "away"
  BY <1>2 DEF ResetInv, LastIsReset
<1>3. ASSUME NEW m \in Message, s' = Append(s, m),
             \/ m.what = "disconnected"
             \/ c_state = "away" /\ m.what \in {"device_started", "hw_error"}
      PROVE  Keeps(s') /\ Resets(s')
  <2>1. m.what \in Notices  BY <1>3 DEF Notices
  <2>2. ResetInv => ResetEnds(s) /\ (LastIsReset(s) => m.what \in Ends)
    BY <1>3 DEF ResetInv, LastIsReset, Ends
  <2>3. QED  BY <1>append, <1>3, <2>1, <2>2
<1>done. /\ Event("reset_done") \in Message
         /\ Event("reset_done").what \in Notices \cap Ends
  BY PlainMessage DEF Messages, Event, Notices, Ends
<1>4. CASE s' = <<Event("reset_done")>>
  <2>1. s' = Append(<< >>, Event("reset_done")) /\ << >> \in Seq(Message)
    BY <1>4
  <2>2. Keeps(<< >>) /\ ResetEnds(<< >>)  BY OrderedShort, AnyEmpty
  <2>3. QED  BY <1>append, <1>done, <2>1, <2>2
<1>5. CASE s # << >> /\ s' = Append(<<s[1]>>, Event("reset_done"))
  <2>1. <<s[1]>> \in Seq(Message) /\ Keeps(<<s[1]>>) /\ ResetEnds(<<s[1]>>)
    BY <1>5, OrderedShort
  <2>2. QED  BY <1>append, <1>done, <1>5, <2>1
<1>6. QED  BY <1>1, <1>2, <1>3, <1>4, <1>5 DEF SessionEnds

(* The link and the responses.                                             *)
LEMMA LinkKept ==
  ASSUME LinkInv, EventHandledIn \/ Outside
  PROVE  LinkInv'
BY DEF LinkInv, EventHandledIn, Outside, Stays, SessionEnds, IsHandedOver,
       Connects, Sends, Exchanged, GivesUp

(* The notice of the connection.                                           *)
LEMMA TokenKept ==
  ASSUME Typed, ProcInv, TokenInv, ~misled', EventHandledIn \/ Outside
  PROVE  TokenInv'
<1>typed. Incoming \in Seq(Message) /\ Len(Incoming) \in Nat
  BY TypedWorld, LenProperties DEF WorldTyped
<1>1. CASE Stays
  BY <1>1 DEF Stays, Quieter, TokenInv, NoticeAt, Coming
<1>2. CASE EventHandledIn
  <2> SUFFICES ASSUME link' = "connected", Coming(Restarts)' \/ Sending("connect")'
               PROVE  \E p \in 1..Len(Incoming)' : NoticeAt(p)'
    BY DEF TokenInv
  <2>1. Incoming # << >> /\ Incoming' = Tail(Incoming)  BY <1>2 DEF EventHandledIn
  <2>2. Coming(Restarts)
    BY <1>2, <1>typed, <2>1, AnyTail DEF EventHandledIn, Coming
  <2>3. PICK p \in 1..Len(Incoming) : NoticeAt(p)
    BY <1>2, <2>2 DEF EventHandledIn, TokenInv
  <2>4. p # 1  BY <2>2, <2>3 DEF NoticeAt, Coming, Any
  <2>5. /\ Len(Incoming') = Len(Incoming) - 1
        /\ \A i \in 1..Len(Incoming) - 1 : Incoming'[i] = Incoming[i + 1]
    BY <1>typed, <2>1, TailItems
  <2>6. p - 1 \in 1..Len(Incoming') /\ Incoming'[p - 1] = Incoming[p]
    <3>1. Incoming'[p - 1] = Incoming[(p - 1) + 1]  BY <1>typed, <2>4, <2>5
    <3>2. QED  BY <1>typed, <2>4, <2>5, <3>1
  <2>7. \A i \in 1..Len(Incoming') : Incoming'[i].what \in Restarts => i < p - 1
    <3> TAKE i \in 1..Len(Incoming')
    <3>1. Incoming'[i] = Incoming[i + 1] /\ i + 1 \in 1..Len(Incoming)
      BY <1>typed, <2>5
    <3>2. QED  BY <2>3, <3>1 DEF NoticeAt
  <2>8. NoticeAt(p - 1)'
    BY <1>2, <1>typed, <2>3, <2>5, <2>6, <2>7 DEF NoticeAt, EventHandledIn
  <2>9. QED  BY <2>6, <2>8
<1>3. CASE SessionEnds
  BY <1>3 DEF SessionEnds, TokenInv
<1>4. CASE IsHandedOver
  BY <1>4, AnyEmpty DEF IsHandedOver, TokenInv, Coming
<1>5. CASE Connects
  <2> DEFINE m == Event("connected")
  <2>n. PICK n : n = Len(Incoming) + 1  OBVIOUS
  <2>1. m \in Message /\ m.what = "connected"
    BY PlainMessage DEF Messages, Event
  <2> HIDE DEF m
  <2>2. Incoming' = Append(Incoming, m)  BY <1>5 DEF Connects, m
  <2>3. /\ Len(Incoming') = n
        /\ \A i \in 1..Len(Incoming) : Incoming'[i] = Incoming[i]
        /\ Incoming'[n] = m
    BY <1>typed, <2>n, <2>1, <2>2, AppendItems
  <2>4. \A i \in 1..n : Incoming'[i].what \in Restarts => i < n
    BY <1>typed, <2>n, <2>1, <2>3 DEF Restarts
  <2>5. NoticeAt(n)'  BY <1>5, <2>1, <2>3, <2>4 DEF NoticeAt, Connects
  <2>6. QED  BY <1>typed, <2>n, <2>3, <2>5 DEF TokenInv
<1>6. ASSUME NEW m \in Message, Sends(m) PROVE TokenInv'
  <2> SUFFICES ASSUME link' = "connected", Coming(Restarts)' \/ Sending("connect")'
               PROVE  \E p \in 1..Len(Incoming)' : NoticeAt(p)'
    BY DEF TokenInv
  <2>1. Incoming' = Append(Incoming, m)  BY <1>6 DEF Sends
  <2>2. m.what \notin Restarts
    <3>1. CASE m = DataMsg(version, c_pos)  BY <3>1 DEF DataMsg, Restarts
    <3>2. CASE m # DataMsg(version, c_pos)
      BY <1>6, <3>2 DEF Sends, Exchanged, Restarts
    <3>3. QED  BY <3>1, <3>2
  <2>3. Coming(Restarts) \/ Sending("connect")
    BY <1>6, <1>typed, <2>1, <2>2, AnyAppend DEF Sends, Quieter, Coming
  <2>4. c_state' = "reset_sent" \/ c_state' = "size_sent"
    BY <1>6, <2>3, LittleSent DEF Lagging
  <2>5. PICK p \in 1..Len(Incoming) : NoticeAt(p)
    BY <1>6, <2>3 DEF Sends, TokenInv
  <2>6. /\ Len(Incoming') = Len(Incoming) + 1
        /\ \A i \in 1..Len(Incoming) : Incoming'[i] = Incoming[i]
        /\ Incoming'[Len(Incoming) + 1] = m
    BY <1>typed, <2>1, AppendItems
  <2>7. \A i \in 1..Len(Incoming') : Incoming'[i].what \in Restarts => i < p
    <3> TAKE i \in 1..Len(Incoming')
    <3>1. CASE i = Len(Incoming) + 1  BY <2>2, <2>6, <3>1
    <3>2. CASE i \in 1..Len(Incoming)  BY <2>5, <2>6, <3>2 DEF NoticeAt
    <3>3. QED  BY <1>typed, <2>6, <3>1, <3>2
  <2>8. NoticeAt(p)'
    BY <1>typed, <2>4, <2>5, <2>6, <2>7 DEF NoticeAt
  <2>9. QED  BY <1>typed, <2>6, <2>8
<1>7. CASE GivesUp
  BY <1>7 DEF GivesUp, Quieter, TokenInv, NoticeAt, Coming
<1>8. QED  BY <1>1, <1>2, <1>3, <1>4, <1>5, <1>6, <1>7 DEF Outside

(* What the session needs is not given away.                               *)
LEMMA HeavyKept ==
  ASSUME Typed, ProcInv, TokenInv, HeavyInv, ~misled', EventHandledIn \/ Outside
  PROVE  HeavyInv'
<1> DEFINE s == Incoming
           Bare == Sending("connect") \/ link = "advertising" \/ c_state \in Early
<1>typed. s \in Seq(Message)  BY TypedWorld DEF WorldTyped
<1>1. CASE Stays
  BY <1>1 DEF Stays, Quieter, HeavyInv, Coming
<1>2. CASE EventHandledIn
  <2>1. s # << >> /\ s' = Tail(s)  BY <1>2 DEF EventHandledIn
  <2>2. Uninterrupted(s')
    BY <1>typed, <2>1, OrderedTail DEF HeavyInv
  <2>3. \A W : Any(s', W) => Any(s, W)  BY <1>typed, <2>1, AnyTail
  <2>4. ASSUME Sending("connect")', Any(s', Heavy) PROVE FALSE
    <3>1. /\ Len(s') = Len(s) - 1
          /\ \A i \in 1..Len(s) - 1 : s'[i] = s[i + 1]
          /\ Len(s) \in Nat \ {0}
      BY <1>typed, <2>1, TailItems
    <3>2. PICK i \in 1..Len(s') : s'[i].what \in Heavy  BY <2>4 DEF Any
    <3>3. s[i + 1].what \in Heavy /\ i + 1 \in 1..Len(s)  BY <3>1, <3>2
    <3>4. s[1].what \in Restarts  BY <1>2, <2>4 DEF EventHandledIn
    <3>5. i + 1 < 1  BY <3>1, <3>3, <3>4 DEF HeavyInv, Uninterrupted
    <3>6. QED  BY <3>1, <3>2, <3>5
  <2>5. QED
    BY <1>2, <2>2, <2>3, <2>4 DEF EventHandledIn, HeavyInv, Coming
<1>3. CASE SessionEnds
  <2>1. Sending("connect")' => ~Any(s, Heavy)
    BY <1>3 DEF SessionEnds, Quieter, HeavyInv, Coming
  <2>2. ~(link' = "advertising" \/ c_state' \in Early)
    BY <1>3 DEF SessionEnds, Early
  <2>3. Uninterrupted(s') /\ (Any(s', Heavy) => Any(s, Heavy))
    <3>1. Heavy \cap Notices = {}  BY DEF Heavy, Notices
    <3>2. QED  BY <1>3, <1>typed, <3>1, EndedItems DEF HeavyInv
  <2>4. QED  BY <2>1, <2>2, <2>3 DEF HeavyInv, Coming
<1>4. CASE IsHandedOver
  BY <1>4, <1>typed, AnyEmpty, OrderedShort DEF IsHandedOver, HeavyInv, Coming
<1>5. CASE Connects
  <2>1. Event("connected") \in Message /\ Event("connected").what \notin Heavy
    BY PlainMessage DEF Messages, Event, Heavy
  <2>2. Uninterrupted(s') /\ (Any(s', Heavy) => Any(s, Heavy))
    BY <1>5, <1>typed, <2>1, OrderedAppend, AnyAppend DEF Connects, HeavyInv
  <2>3. QED  BY <1>5, <2>2 DEF Connects, HeavyInv, Coming
<1>6. ASSUME NEW m \in Message, Sends(m) PROVE HeavyInv'
  <2>1. s' = Append(s, m)  BY <1>6 DEF Sends
  <2>2. m.what \in Heavy => ~Any(s, Restarts) /\ ~Sending("connect")
    <3> SUFFICES ASSUME Coming(Restarts) \/ Sending("connect") PROVE m.what \notin Heavy
      BY DEF Coming
    <3>1. m.what \in {"size", "SYS_RESET"}  BY <1>6, LittleSent DEF Lagging
    <3>2. QED  BY <3>1 DEF Heavy
  <2>3. Uninterrupted(s')
    BY <1>typed, <2>1, <2>2, OrderedAppend DEF HeavyInv
  <2>4. Any(s', Heavy) <=> Any(s, Heavy) \/ m.what \in Heavy
    BY <1>typed, <2>1, AnyAppend
  <2>5. link' # "advertising"  BY <1>6 DEF Sends
  <2>6. Sending("connect")' => ~Any(s', Heavy)
    BY <1>6, <2>2, <2>4 DEF Sends, Quieter, HeavyInv, Coming
  <2>7. c_state' \in Early => ~Any(s', Heavy)
    <3> SUFFICES ASSUME c_state' \in Early PROVE ~Any(s', Heavy)
      OBVIOUS
    <3>1. c_state = "ready" /\ m.what = "size"
      BY <1>6 DEF Sends, Exchanged, Early
    <3>2. QED  BY <2>4, <3>1 DEF HeavyInv, Coming, Early, Heavy
  <2>8. QED  BY <2>3, <2>5, <2>6, <2>7 DEF HeavyInv, Coming
<1>7. CASE GivesUp
  BY <1>7 DEF GivesUp, Quieter, HeavyInv, Coming, Early
<1>8. QED  BY <1>1, <1>2, <1>3, <1>4, <1>5, <1>6, <1>7 DEF Outside

(* A reset that was asked for is the last of its session.                  *)
LEMMA ResetKept ==
  ASSUME Typed, ResetInv, EventHandledIn \/ Outside
  PROVE  ResetInv'
<1> DEFINE s == Incoming
<1>typed. s \in Seq(Message)  BY TypedWorld DEF WorldTyped
<1>inv. ResetEnds(s) /\ (LastIsReset(s) => c_state = "reset_sent")
  BY DEF ResetInv, LastIsReset
<1> SUFFICES ResetEnds(s') /\ (LastIsReset(s') => c_state' = "reset_sent")
  BY DEF ResetInv, LastIsReset
<1>1. CASE Stays  BY <1>1, <1>inv DEF Stays
<1>2. CASE EventHandledIn
  <2>1. s # << >> /\ s' = Tail(s) /\ UNCHANGED c_state  BY <1>2 DEF EventHandledIn
  <2>2. ResetEnds(s')  BY <1>typed, <1>inv, <2>1, OrderedTail
  <2>3. LastIsReset(s') => LastIsReset(s)
    <3>1. /\ Len(s') = Len(s) - 1
          /\ \A i \in 1..Len(s) - 1 : s'[i] = s[i + 1]
          /\ Len(s) \in Nat \ {0}
          /\ s' \in Seq(Message)
      BY <1>typed, <2>1, TailItems
    <3>2. s' # << >> => Len(s') # 0  BY <3>1, EmptySeq
    <3>3. s' # << >> => s'[Len(s')] = s[Len(s)]
      <4>1. s' # << >> => s'[Len(s) - 1] = s[(Len(s) - 1) + 1]  BY <3>1, <3>2
      <4>2. QED  BY <3>1, <4>1
    <3>4. QED  BY <2>1, <3>3 DEF LastIsReset
  <2>4. QED  BY <1>inv, <2>1, <2>2, <2>3
<1>3. CASE SessionEnds  BY <1>3, <1>typed, EndedItems
<1>4. CASE IsHandedOver
  BY <1>4, <1>typed, OrderedShort DEF IsHandedOver, LastIsReset
<1>append. ASSUME NEW m \in Message, s' = Append(s, m), c_state # "reset_sent"
           PROVE  ResetEnds(s') /\ (LastIsReset(s') => m.what = "SYS_RESET")
  <2>1. ResetEnds(s')
    BY <1>append, <1>inv, <1>typed, OrderedAppend DEF LastIsReset
  <2>2. Len(s) \in Nat /\ Len(s') = Len(s) + 1 /\ s'[Len(s) + 1] = m
    BY <1>append, <1>typed, AppendItems
  <2>3. s'[Len(s')] = m  BY <2>2
  <2>4. QED  BY <2>1, <2>3 DEF LastIsReset
<1>5. CASE Connects
  <2>1. Event("connected") \in Message /\ Event("connected").what # "SYS_RESET"
    BY PlainMessage DEF Messages, Event
  <2>2. QED  BY <1>5, <1>append, <2>1 DEF Connects
<1>6. ASSUME NEW m \in Message, Sends(m)
      PROVE  ResetEnds(s') /\ (LastIsReset(s') => c_state' = "reset_sent")
  <2>1. s' = Append(s, m) /\ c_state # "reset_sent"
    BY <1>6 DEF Sends, Exchanged
  <2>2. m.what = "SYS_RESET" => c_state' = "reset_sent"
    <3>1. DataMsg(version, c_pos).what # "SYS_RESET"  BY DEF DataMsg
    <3>2. QED  BY <1>6, <3>1 DEF Sends, Exchanged
  <2>3. QED  BY <1>append, <2>1, <2>2
<1>7. CASE GivesUp  BY <1>7, <1>inv DEF GivesUp
<1>8. QED  BY <1>1, <1>2, <1>3, <1>4, <1>5, <1>6, <1>7 DEF Outside

(* How far central has come.                                               *)
LEMMA PosKept ==
  ASSUME Typed, PosInv, EventHandledIn \/ Outside
  PROVE  PosInv'
<1>typed. c_pos \in 0..ImageSize  BY TypedWorld DEF WorldTyped
<1>1. CASE Stays \/ EventHandledIn  BY <1>1 DEF Stays, EventHandledIn, PosInv
<1>2. CASE SessionEnds \/ GivesUp  BY <1>2 DEF SessionEnds, GivesUp, PosInv
<1>3. CASE IsHandedOver \/ Connects  BY <1>3 DEF IsHandedOver, Connects, PosInv
<1>4. ASSUME NEW m \in Message, Sends(m) PROVE PosInv'
  <2>1. Exchanged(m)  BY <1>4 DEF Sends
  <2>2. CASE c_state = "streaming" /\ c_pos' = Min2(c_pos + ChunkLen, ImageSize)
                /\ c_state' = IF c_pos' = ImageSize THEN "sent_all" ELSE "streaming"
    <3>1. c_pos' <= ImageSize /\ c_pos' \in Nat  BY <1>typed, <2>2 DEF Min2
    <3>2. QED  BY <2>2, <3>1 DEF PosInv
  <2>3. CASE UNCHANGED c_pos
    BY <2>1, <2>3 DEF Exchanged, PosInv
  <2>4. QED  BY <2>1, <2>2, <2>3 DEF Exchanged
<1>5. QED  BY <1>1, <1>2, <1>3, <1>4 DEF Outside

(* What central has sent, and in what order.                               *)
LEMMA OrderKept ==
  ASSUME Typed, HeavyInv, PosInv, OrderInv, EventHandledIn \/ Outside
  PROVE  OrderInv'
<1> DEFINE s == Incoming
           Late(w) == Any(s, {w})
           Later(w) == Any(s', {w})
           Placed(st, fw, val, act) ==
             /\ fw => st \notin {"init", "init_sent"}
             /\ val => st \in {"validating", "activated", "gave_up", "reset_sent", "away"}
             /\ act => st \in {"activated", "away"}
           Kept == Filled(s') /\ OneFw(s')
                     /\ Placed(c_state', Later("RECEIVE_FW"), Later("VALIDATE"), Later("ACTIVATE"))
<1>typed. s \in Seq(Message)  BY TypedWorld DEF WorldTyped
<1>inv. /\ Filled(s) /\ OneFw(s)
        /\ Placed(c_state, Late("RECEIVE_FW"), Late("VALIDATE"), Late("ACTIVATE"))
  BY DEF OrderInv, Coming
<1> SUFFICES Kept
  BY DEF OrderInv, Coming
<1>1. CASE Stays  BY <1>1, <1>inv DEF Stays
<1>2. CASE EventHandledIn
  <2>1. s # << >> /\ s' = Tail(s) /\ UNCHANGED c_state  BY <1>2 DEF EventHandledIn
  <2>2. Filled(s') /\ OneFw(s')  BY <1>typed, <1>inv, <2>1, OrderedTail
  <2>3. \A w : Later(w) => Late(w)  BY <1>typed, <2>1, AnyTail
  <2>4. QED  BY <1>inv, <2>1, <2>2, <2>3
<1>3. CASE SessionEnds
  <2>1. Filled(s') /\ OneFw(s')  BY <1>3, <1>typed, <1>inv, EndedItems
  <2>2. c_state' = "away"  BY <1>3 DEF SessionEnds
  <2>3. QED  BY <2>1, <2>2
<1>4. CASE IsHandedOver
  <2>1. s' = << >>  BY <1>4 DEF IsHandedOver
  <2>2. Filled(s') /\ OneFw(s')  BY <1>typed, <2>1, OrderedShort
  <2>3. \A w : ~Later(w)  BY <2>1, AnyEmpty
  <2>4. QED  BY <2>2, <2>3
<1>5. CASE Connects
  <2>1. /\ Event("connected") \in Message
        /\ Event("connected").what \notin Packets \cup {"RECEIVE_FW", "VALIDATE", "ACTIVATE"}
    BY PlainMessage DEF Messages, Event, Packets
  <2>2. s' = Append(s, Event("connected"))  BY <1>5 DEF Connects
  <2>3. Filled(s') /\ OneFw(s')  BY <1>typed, <1>inv, <2>1, <2>2, OrderedAppend
  <2>4. ~Any(s, Heavy)  BY <1>5 DEF Connects, HeavyInv, Coming
  <2>5. \A w \in Heavy : ~Late(w)  BY <2>4 DEF Any
  <2>6. \A w \in {"RECEIVE_FW", "VALIDATE", "ACTIVATE"} : ~Later(w)
    BY <1>typed, <2>1, <2>2, <2>5, AnyAppend DEF Heavy
  <2>7. QED  BY <2>3, <2>6
<1>6. ASSUME NEW m \in Message, Sends(m) PROVE Kept
  <2>1. s' = Append(s, m) /\ Exchanged(m)  BY <1>6 DEF Sends
  <2>2. m.what \in Packets => m.bytes # << >>
    <3>1. CASE c_state = "streaming" /\ m = DataMsg(version, c_pos)
      <4>1. version \in Versions  BY TypedWorld DEF WorldTyped
      <4>2. c_pos \in 0..ImageSize - 1
        BY <3>1, TypedWorld DEF WorldTyped, PosInv
      <4>3. QED  BY <3>1, <4>1, <4>2, ChunkAt
    <3>2. CASE ~(c_state = "streaming" /\ m = DataMsg(version, c_pos))
      BY <2>1, <3>2 DEF Exchanged, Packets
    <3>3. QED  BY <3>1, <3>2
  <2>early. c_state \in Early => \A w \in Heavy : ~Late(w)
    BY DEF HeavyInv, Coming, Any
  <2>3. m.what = "RECEIVE_FW" => ~Late("RECEIVE_FW") /\ c_state' = "streaming"
                                  /\ ~Late("VALIDATE") /\ ~Late("ACTIVATE")
    <3>1. DataMsg(version, c_pos).what # "RECEIVE_FW"  BY DEF DataMsg
    <3>2. m.what = "RECEIVE_FW" => c_state \in Early \cup {"init_sent"} /\ c_state' = "streaming"
      BY <2>1, <3>1 DEF Exchanged, Early
    <3>3. QED  BY <1>inv, <2>early, <3>2 DEF Early, Heavy
  <2>4. Filled(s') /\ OneFw(s')  BY <1>typed, <1>inv, <2>1, <2>2, <2>3, OrderedAppend
  <2>5. \A w : Later(w) <=> Late(w) \/ m.what = w
    BY <1>typed, <2>1, AnyAppend
  <2>6. Later("RECEIVE_FW") => c_state' \notin {"init", "init_sent"}
    <3>1. CASE c_state' \in {"init", "init_sent"}
      <4>1. c_state \in {"size_sent", "init"} /\ m.what # "RECEIVE_FW"
        BY <2>1, <3>1 DEF Exchanged
      <4>2. QED  BY <1>inv, <2>early, <2>5, <4>1 DEF Early, Heavy
    <3>2. QED  BY <3>1
  <2>7. Later("VALIDATE") =>
          c_state' \in {"validating", "activated", "gave_up", "reset_sent", "away"}
    <3>1. DataMsg(version, c_pos).what # "VALIDATE"  BY DEF DataMsg
    <3>2. m.what = "VALIDATE" => c_state' = "validating"
      BY <2>1, <3>1 DEF Exchanged
    <3>3. Late("VALIDATE") => c_state' \in {"activated", "reset_sent"}
      BY <1>inv, <2>1 DEF Exchanged
    <3>4. QED  BY <2>5, <3>2, <3>3
  <2>8. Later("ACTIVATE") => c_state' \in {"activated", "away"}
    <3>1. DataMsg(version, c_pos).what # "ACTIVATE"  BY DEF DataMsg
    <3>2. m.what = "ACTIVATE" => c_state' = "activated"
      BY <2>1, <3>1 DEF Exchanged
    <3>3. ~Late("ACTIVATE")
      BY <1>inv, <2>1 DEF Exchanged
    <3>4. QED  BY <2>5, <3>2, <3>3
  <2>9. QED  BY <2>4, <2>6, <2>7, <2>8
<1>7. CASE GivesUp
  BY <1>7, <1>inv DEF GivesUp
<1>8. QED  BY <1>1, <1>2, <1>3, <1>4, <1>5, <1>6, <1>7 DEF Outside

(* The packets that follow RECEIVE_FW are the stream.                      *)
LEMMA SentKept ==
  ASSUME Typed, PosInv, OrderInv, SentInv, EventHandledIn \/ Outside
  PROVE  SentInv'
<1> DEFINE s == Incoming
<1>typed. /\ s \in Seq(Message) /\ version \in Versions /\ c_pos \in 0..ImageSize
  BY TypedWorld DEF WorldTyped
<1> SUFFICES ASSUME c_state' \in Sent PROVE Streaming(s', version', c_pos')
  BY DEF SentInv
<1>1. CASE Stays  BY <1>1 DEF Stays, SentInv
<1>2. CASE EventHandledIn
  <2>1. /\ s # << >> /\ s' = Tail(s)
        /\ UNCHANGED <<c_state, version, c_pos>>
    BY <1>2 DEF EventHandledIn
  <2>2. Streaming(s, version, c_pos)  BY <2>1 DEF SentInv
  <2>3. QED  BY <1>typed, <2>1, <2>2, OrderedTail
<1>3. CASE SessionEnds \/ IsHandedOver \/ Connects \/ GivesUp
  BY <1>3 DEF SessionEnds, IsHandedOver, Connects, GivesUp, Sent
<1>4. ASSUME NEW m \in Message, Sends(m) PROVE Streaming(s', version', c_pos')
  <2>1. s' = Append(s, m) /\ Exchanged(m) /\ UNCHANGED version  BY <1>4 DEF Sends
  <2>2. CASE m.what = "RECEIVE_FW"
    <3>1. DataMsg(version, c_pos).what # "RECEIVE_FW"  BY DEF DataMsg
    <3>2. c_state \in {"size_sent", "init_sent"} /\ c_pos' = c_pos
      BY <2>1, <2>2, <3>1 DEF Exchanged
    <3>3. c_pos' = 0  BY <3>2 DEF PosInv
    <3>4. QED  BY <1>typed, <2>1, <2>2, <3>3, StreamingAppend
  <2>3. CASE m.what # "RECEIVE_FW"
    <3>1. c_state \in {"streaming", "sent_all"}
      BY <2>1, <2>3 DEF Exchanged, Sent
    <3>2. Streaming(s, version, c_pos) /\ ~Any(s, {"VALIDATE"})
      BY <3>1 DEF Sent, SentInv, OrderInv, Coming
    <3>3. CASE c_state = "streaming"
      <4>1. m = DataMsg(version, c_pos) /\ c_pos' = Min2(c_pos + ChunkLen, ImageSize)
        BY <2>1, <2>3, <3>3 DEF Exchanged, Sent
      <4>2. c_pos < ImageSize  BY <3>3 DEF PosInv
      <4>3. QED  BY <1>typed, <2>1, <3>2, <4>1, <4>2, StreamingAppend
    <3>4. CASE c_state = "sent_all"
      <4>1. m.what = "VALIDATE" /\ c_pos' = c_pos
        BY <2>1, <2>3, <3>4 DEF Exchanged, Sent
      <4>2. QED  BY <1>typed, <2>1, <3>2, <4>1, StreamingAppend
    <3>5. QED  BY <3>1, <3>3, <3>4
  <2>4. QED  BY <2>2, <2>3
<1>5. QED  BY <1>1, <1>2, <1>3, <1>4 DEF Outside

(* Nothing has been sent at first.                                         *)
LEMMA InitWorldInv == Init => WorldInv
<1> SUFFICES ASSUME Init PROVE WorldInv
  OBVIOUS
<1>1. /\ rx = None /\ to_mcu = << >> /\ tx_queue = << >> /\ to_central = << >>
      /\ link = "off" /\ c_state = "away"
  BY DEF Init, Dfu!Init
<1>2. Incoming = << >>  BY <1>1 DEF Incoming
<1>3. \A W : ~Coming(W)  BY <1>2, AnyEmpty DEF Coming
<1>4. Uninterrupted(Incoming) /\ ResetEnds(Incoming) /\ Filled(Incoming) /\ OneFw(Incoming)
  <2>1. << >> \in Seq(Message)  OBVIOUS
  <2>2. QED  BY <1>2, <2>1, OrderedShort
<1>5. QED
  BY <1>1, <1>2, <1>3, <1>4
  DEF WorldInv, LinkInv, TokenInv, HeavyInv, ResetInv, PosInv, OrderInv, SentInv, Sent

(* All of it together.                                                    *)
LEMMA StepWorldInv ==
  ASSUME Typed, ProcInv, WorldInv, ~misled', [Next]_vars
  PROVE  WorldInv'
<1>1. /\ LinkInv /\ TokenInv /\ HeavyInv /\ ResetInv /\ PosInv /\ OrderInv /\ SentInv
  BY DEF WorldInv
<1>2. EventHandledIn \/ Outside
  BY <1>1, EveryStep DEF Outside, Restart
<1>3. LinkInv'  BY <1>1, <1>2, LinkKept
<1>4. TokenInv'  BY <1>1, <1>2, TokenKept
<1>5. HeavyInv'  BY <1>1, <1>2, HeavyKept
<1>6. ResetInv'  BY <1>1, <1>2, ResetKept
<1>7. PosInv'  BY <1>1, <1>2, PosKept
<1>8. OrderInv'  BY <1>1, <1>2, OrderKept
<1>9. SentInv'  BY <1>1, <1>2, SentKept
<1>10. QED  BY <1>3, <1>4, <1>5, <1>6, <1>7, <1>8, <1>9 DEF WorldInv

-----------------------------------------------------------------------------
(***************************************************************************)
(* The DFU procedure against the session.  Its counters survive a session, *)
(* so what they say of the next one is what is left when ST_IDLE is        *)
(* entered: Loose, from cleared memory and no application to lose; on the  *)
(* way to the application; Doomed, the radio about to end the session; or  *)
(* Calm, no session far enough to be harmed.                               *)
(***************************************************************************)
FlagInv ==
  valid_app =>
    m_dfu_state \in {"ST_IDLE", "ST_RDY", "ST_RX_INIT_PKT"} \/ pc = "activate"

Loose == m_num_of_firmware_bytes_rcvd = 0 /\ m_image_size = 0 /\ ~valid_app

Leaves == mode = "reset" /\ MayJump

Doomed == /\ Sending("radio_reset")
          /\ IF Incoming = << >> THEN c_state = "reset_sent"
                                 ELSE Incoming[1].what \in Ends

Calm == /\ ~Coming(Heavy)
        /\ ~Told("start_ok")
        /\ c_state \notin {"init", "init_sent", "activated"} \cup Sent

IdleInv == m_dfu_state = "ST_IDLE" => Loose \/ Leaves \/ Doomed \/ Calm

(* A session that begins on a counter that is not zero announces the size   *)
(* of its image.                                                           *)
ReadyInv ==
  m_dfu_state \in {"ST_RDY", "ST_RX_INIT_PKT"} =>
    m_num_of_firmware_bytes_rcvd = 0 \/ m_image_size = ImageSize

(* Until RECEIVE_FW has been handled, the session has not begun.           *)
Candidate ==
  \/ Sending("start_ok")
  \/ c_state \in Early /\ Told("start_ok")
  \/ c_state \in {"init", "init_sent"}
  \/ c_state \in Sent /\ Coming({"RECEIVE_FW"})

CandInv == Candidate => m_dfu_state \in {"ST_IDLE", "ST_RDY", "ST_RX_INIT_PKT"}

SessionInv == FlagInv /\ IdleInv /\ ReadyInv /\ CandInv

(* Calm lasts as long as no event is handled.                              *)
LEMMA CalmStays ==
  ASSUME Typed, Calm, Outside
  PROVE  Calm'
<1> DEFINE s == Incoming
           Mild(st) == st \notin {"init", "init_sent", "activated"} \cup Sent
<1>typed. s \in Seq(Message)  BY TypedWorld DEF WorldTyped
<1>calm. ~Any(s, Heavy) /\ ~Told("start_ok") /\ Mild(c_state)
  BY DEF Calm, Coming
<1> SUFFICES ~Any(s', Heavy) /\ ~Told("start_ok")' /\ Mild(c_state')
  BY DEF Calm, Coming
<1>1. CASE Stays  BY <1>1, <1>calm DEF Stays, Quieter
<1>2. CASE SessionEnds
  <2>1. Heavy \cap Notices = {}  BY DEF Heavy, Notices
  <2>2. ~Any(s', Heavy)  BY <1>2, <1>typed, <1>calm, <2>1, EndedItems
  <2>3. QED  BY <1>2, <1>calm, <2>2 DEF SessionEnds, Quieter, Sent
<1>3. CASE IsHandedOver
  BY <1>3, AnyEmpty DEF IsHandedOver, Sent
<1>4. CASE Connects
  <2>1. Event("connected") \in Message /\ Event("connected").what \notin Heavy
    BY PlainMessage DEF Messages, Event, Heavy
  <2>2. ~Any(s', Heavy)
    BY <1>4, <1>typed, <1>calm, <2>1, AnyAppend DEF Connects
  <2>3. QED  BY <1>4, <1>calm, <2>2 DEF Connects, Quieter, Sent
<1>5. ASSUME NEW m \in Message, Sends(m)
      PROVE  ~Any(s', Heavy) /\ ~Told("start_ok")' /\ Mild(c_state')
  <2>1. m.what \notin Heavy /\ Mild(c_state')
    BY <1>5, <1>calm DEF Sends, Exchanged, Heavy, Sent
  <2>2. ~Any(s', Heavy)
    BY <1>5, <1>typed, <1>calm, <2>1, AnyAppend DEF Sends
  <2>3. QED  BY <1>5, <1>calm, <2>1, <2>2 DEF Sends, Quieter
<1>6. CASE GivesUp  BY <1>6, <1>calm DEF GivesUp, Quieter, Sent
<1>7. QED  BY <1>1, <1>2, <1>3, <1>4, <1>5, <1>6 DEF Outside

(* What is about to end stays so until the radio is told.                  *)
LEMMA DoomedStays ==
  ASSUME Typed, Doomed, Ongoing, UNCHANGED tx_queue
  PROVE  Doomed'
<1> DEFINE s == Incoming
           Over(t, st) == IF t = << >> THEN st = "reset_sent" ELSE t[1].what \in Ends
<1>typed. s \in Seq(Message)  BY TypedWorld DEF WorldTyped
<1>over. Over(s, c_state)  BY DEF Doomed
<1> SUFFICES Over(s', c_state')
  BY DEF Doomed, Sending
<1>append. ASSUME NEW m \in Message, s' = Append(s, m), s # << >> \/ m.what \in Ends
           PROVE  Over(s', c_state')
  <2>1. /\ s' # << >>
        /\ s'[1] = IF s = << >> THEN m ELSE s[1]
    <3>1. /\ Len(s) \in Nat
          /\ s' # << >>
          /\ \A i \in 1..Len(s) : s'[i] = s[i]
          /\ s'[Len(s) + 1] = m
          /\ s # << >> => Len(s) # 0
      BY <1>typed, <1>append, AppendProperties, LenProperties, EmptySeq
    <3>2. CASE s = << >>
      <4>1. Len(s) = 0  BY <3>2
      <4>2. QED  BY <3>1, <3>2, <4>1
    <3>3. CASE s # << >>  BY <3>1, <3>3
    <3>4. QED  BY <3>2, <3>3
  <2>2. QED  BY <1>append, <1>over, <2>1
<1>1. CASE Stays  BY <1>1, <1>over DEF Stays
<1>2. CASE SessionEnds /\ s' # << >>
  <2>1. CASE s' = s /\ c_state = "away"  BY <1>2, <1>over, <2>1
  <2>2. ASSUME NEW m \in Message, s' = Append(s, m),
               \/ m.what = "disconnected"
               \/ c_state = "away" /\ m.what \in {"device_started", "hw_error"}
        PROVE  Over(s', c_state')
    BY <1>over, <1>append, <2>2 DEF Ends
  <2>3. CASE s' = <<Event("reset_done")>>
    BY <2>3 DEF Event, Ends
  <2>4. CASE s # << >> /\ s' = Append(<<s[1]>>, Event("reset_done"))
    <3>1. s[1] \in Message /\ Event("reset_done") \in Message
      BY <1>typed, <2>4, HeadTailProperties, PlainMessage DEF Messages
    <3>2. <<s[1]>> \in Seq(Message) /\ Len(<<s[1]>>) = 1 /\ <<s[1]>>[1] = s[1]
      BY <3>1
    <3>3. s' # << >> /\ s'[1] = s[1]
      BY <2>4, <3>1, <3>2, AppendProperties
    <3>4. QED  BY <1>over, <2>4, <3>3
  <2>5. QED  BY <1>2, <2>1, <2>2, <2>3, <2>4 DEF SessionEnds
<1>3. CASE Connects
  <2>1. s # << >>  BY <1>3, <1>over DEF Connects
  <2>2. Event("connected") \in Message  BY PlainMessage DEF Messages
  <2>3. QED  BY <1>3, <1>append, <2>1, <2>2 DEF Connects
<1>4. ASSUME NEW m \in Message, Sends(m) PROVE Over(s', c_state')
  <2>1. s # << >>  BY <1>4, <1>over DEF Sends, Exchanged
  <2>2. QED  BY <1>4, <1>append, <2>1 DEF Sends
<1>5. CASE GivesUp
  <2>1. s # << >>  BY <1>5, <1>over DEF GivesUp
  <2>2. QED  BY <1>5, <1>over, <2>1 DEF GivesUp
<1>6. QED  BY <1>1, <1>2, <1>3, <1>4, <1>5 DEF Ongoing

(* In ST_IDLE an event of the session finds nothing to harm.               *)
LEMMA HeavyFindsLoose ==
  ASSUME Typed, ProcInv, IdleInv, HandleEvent, m_dfu_state = "ST_IDLE"
  PROVE  /\ Loose \/ Calm
         /\ rx.what \in Heavy => Loose
<1>1. HandlingFrame /\ Handles  BY EventHandled
<1>2. rx # None /\ Incoming # << >> /\ Incoming[1] = rx  BY HandleWorld
<1>3. ~Leaves /\ ~Doomed  BY <1>1 DEF HandlingFrame, Leaves, Doomed, Sending
<1>4. Loose \/ Calm  BY <1>3 DEF IdleInv
<1>5. rx.what \in Heavy => ~Calm
  <2>1. Incoming \in Seq(Message)  BY TypedWorld DEF WorldTyped
  <2>2. QED  BY <1>2, <2>1, AnyTail DEF Calm, Coming
<1>6. QED  BY <1>4, <1>5

(* The flag is withdrawn before a byte is received.                        *)
LEMMA FlagKept ==
  ASSUME Typed, ProcInv, LinkInv, FlagInv, IdleInv, [Next]_vars
  PROVE  FlagInv'
<1>1. CASE HandleEvent
  <2>1. HandlingFrame /\ Handles  BY <1>1, EventHandled
  <2>2. m_dfu_state \in Dfu!States  BY DEF Typed, DfuTyped
  <2>3. ASSUME pc = "poll", HandlesReceiveFw PROVE ~valid_app'
    <3>1. m_dfu_state = "ST_IDLE" => ~valid_app
      BY <1>1, <2>3, HeavyFindsLoose DEF HandlesReceiveFw, Heavy, Loose
    <3>2. valid_app \in BOOLEAN  BY DEF Typed, CpuTyped
    <3>3. QED
      BY <2>3, <3>1, <3>2 DEF HandlesReceiveFw, FlagInv
  <2>4. QED
    BY <2>1, <2>2, <2>3
    DEF FlagInv, Handles, HandlesRestart, HandlesSize, HandlesInit, HandlesData,
        HandlesSysReset, HandlesReceiveInit, HandlesReceiveFw, HandlesValidate,
        HandlesActivate, Ignores, Undisturbed
<1>2. CASE ByteLoop
  <2>1. pc = "data" /\ m_dfu_state = "ST_RX_DATA_PKT" /\ UNCHANGED valid_app
    BY <1>2 DEF ByteLoop, Dfu!StoreByte, Dfu!PacketDone, ProcInv, HandlerInv
  <2>2. QED  BY <2>1 DEF FlagInv
<1>3. CASE Restart
  BY <1>3 DEF Restart, MemoryCleared, FlagInv
<1>4. CASE UNCHANGED dfuUntouched
  BY <1>4 DEF dfuUntouched, FlagInv
<1>5. QED  BY <1>1, <1>2, <1>3, <1>4, EveryStep

(* What a restart, or the end of a session, leaves.                        *)
LEMMA IdleKept ==
  ASSUME Typed, ProcInv, WorldInv, IdleInv, [Next]_vars
  PROVE  IdleInv'
<1> SUFFICES ASSUME m_dfu_state' = "ST_IDLE"
             PROVE  Loose' \/ Leaves' \/ Doomed' \/ Calm'
  BY DEF IdleInv
<1>inv. LinkInv /\ ResetInv  BY DEF WorldInv
<1>loose. Loose /\ UNCHANGED dfuUntouched => Loose'  BY DEF dfuUntouched, Loose
<1>gone. ASSUME Incoming' = << >>, tx_queue' = << >>, to_central' = << >>,
                c_state' \in {"away", "ready"}
         PROVE  Calm'
  BY <1>gone, AnyEmpty DEF Calm, Coming, Told, Sending, Sent
<1>dfu. UNCHANGED dfuVars => UNCHANGED dfuUntouched /\ UNCHANGED tx_queue
  BY DEF dfuVars
<1>1. ASSUME JumpToApp \/ PowerCycle \/ AppFails \/ AppHandsOver PROVE Calm'
  <2>1. /\ Cleared => tx_queue = << >> /\ rx = None
        /\ mode # "boot" => Cleared
        /\ mode = "app" => to_mcu = << >> /\ to_central = << >> /\ c_state = "away"
    BY DEF Cleared, ProcInv, ModeInv
  <2>2. /\ rx' = None /\ to_mcu' = << >> /\ tx_queue' = << >> /\ to_central' = << >>
        /\ c_state' \in {"away", "ready"}
    BY <1>1, <1>dfu, <2>1
    DEF JumpToApp, PowerCycle, AppFails, AppHandsOver, AppResets, MemoryCleared,
        radioVars, centralVars
  <2>3. Incoming' = << >>  BY <2>2 DEF Incoming
  <2>4. QED  BY <1>gone, <2>2, <2>3
<1>outside. ASSUME UNCHANGED dfuUntouched, Outside, ~Leaves, ~Doomed PROVE Loose' \/ Calm'
  <2>1. m_dfu_state = "ST_IDLE"  BY <1>outside DEF dfuUntouched
  <2>2. QED  BY <1>loose, <1>outside, <2>1, CalmStays DEF IdleInv
<1>2. ASSUME StayInBootloader PROVE Loose' \/ Calm'
  <2>1. ~Leaves /\ ~Doomed
    BY <1>2 DEF StayInBootloader, Leaves, Doomed, Sending, ProcInv, ModeInv, Cleared
  <2>2. UNCHANGED dfuUntouched /\ Outside
    BY <1>2, <1>inv, EveryStep, EventHandled
    DEF StayInBootloader, HandlingFrame, ByteLoop, Restart
  <2>3. QED  BY <1>outside, <2>1, <2>2
<1>3. ASSUME MainStarts PROVE Loose' \/ Calm'
  <2>1. ~Leaves /\ ~Doomed
    BY <1>3 DEF MainStarts, Leaves, Doomed, Sending, ProcInv, ModeInv, Cleared
  <2>2. UNCHANGED dfuUntouched /\ Outside
    BY <1>3, <1>inv, EveryStep, EventHandled
    DEF MainStarts, HandlingFrame, ByteLoop, Restart
  <2>3. QED  BY <1>outside, <2>1, <2>2
<1>4. ASSUME Exchange \/ FetchEvent PROVE Loose' \/ Calm'
  <2>1. ExchangeFrame /\ Exchanges  BY <1>4, ExchangeMade
  <2>2. UNCHANGED dfuUntouched /\ Outside
    BY <1>4, <1>inv, <2>1, ExchangeWorld DEF ExchangeFrame, Outside
  <2>3. ~Leaves  BY <2>1 DEF ExchangeFrame, Leaves
  <2>4. CASE Doomed
    <3>1. HandsOverReset
      BY <2>1, <2>4
      DEF Doomed, Sending, Exchanges, HandsOverNothing, HandsOverConnect,
          HandsOverDisconnect, HandsOverResponse, Dfu!DataKinds
    <3>2. to_central' = << >> /\ tx_queue' = << >> /\ c_state' = "away"
      BY <2>1, <3>1 DEF HandsOverReset, ExchangeFrame
    <3>3. \/ Incoming' = <<Event("reset_done")>>
          \/ /\ Incoming # << >>
             /\ Incoming' = Append(<<Incoming[1]>>, Event("reset_done"))
      <4>1. RadioTyped /\ rx = None  BY <2>1 DEF Typed, ExchangeFrame
      <4>2. QED  BY <3>1, <4>1, IncomingReset
    <3>4. ~Any(Incoming', Heavy)
      <4>1. CASE Incoming' = <<Event("reset_done")>>
        BY <4>1 DEF Any, Event, Heavy
      <4>2. CASE Incoming # << >> /\ Incoming' = Append(<<Incoming[1]>>, Event("reset_done"))
        <5>1. Event("reset_done") \in Message /\ Event("reset_done").what \notin Heavy
          BY PlainMessage DEF Messages, Event, Heavy
        <5>2. <<Incoming[1]>> \in Seq(Message) /\ ~Any(<<Incoming[1]>>, Heavy)
          <6>1. Incoming[1] \in Message
            BY <4>2, TypedWorld, HeadTailProperties DEF WorldTyped
          <6>2. Incoming[1].what \notin Heavy
            BY <2>4, <4>2 DEF Doomed, Ends, Heavy
          <6>3. QED  BY <6>1, <6>2 DEF Any
        <5>3. QED  BY <4>2, <5>1, <5>2, AnyAppend
      <4>3. QED  BY <3>3, <4>1, <4>2
    <3>5. QED  BY <3>2, <3>4 DEF Calm, Coming, Told, Sending, Sent
  <2>5. QED  BY <1>outside, <2>2, <2>3, <2>4
<1>5. ASSUME HandleEvent PROVE Loose' \/ Doomed' \/ Calm'
  <2>1. HandlingFrame /\ Handles /\ EventHandledIn
        /\ Incoming # << >> /\ Incoming[1] = rx
    BY <1>5, EventHandled, HandleWorld
  <2>items. /\ Incoming \in Seq(Message)
            /\ Incoming' = Tail(Incoming)
            /\ Len(Incoming) \in Nat \ {0}
            /\ Len(Incoming') = Len(Incoming) - 1
            /\ \A i \in 1..Len(Incoming) - 1 : Incoming'[i] = Incoming[i + 1]
    BY <2>1, TypedWorld, TailItems DEF WorldTyped, EventHandledIn
  <2>2. CASE HandlesSysReset
    <3>1. Sending("radio_reset")'
      BY <2>2 DEF HandlesSysReset, Sending, Single, Dfu!Cmd
    <3>2. CASE Len(Incoming) = 1
      <4>1. Incoming' = << >>
        <5>1. Incoming' \in Seq(Message) /\ Len(Incoming') = 0
          BY <2>1, <2>items, <3>2, TailItems
        <5>2. QED  BY <5>1, EmptySeq
      <4>2. c_state' = "reset_sent"
        BY <1>inv, <2>1, <2>2, <3>2
        DEF ResetInv, HandlesSysReset, EventHandledIn
      <4>3. QED  BY <3>1, <4>1, <4>2 DEF Doomed
    <3>3. CASE Len(Incoming) # 1
      <4>1. Len(Incoming') # 0 /\ Incoming'[1] = Incoming[2] /\ 1 \in 1..Len(Incoming) - 1
        BY <2>items, <3>3
      <4>2. Incoming[1 + 1].what \in Ends
        BY <1>inv, <2>1, <2>2, <4>1 DEF ResetInv, ResetEnds, HandlesSysReset
      <4>3. Incoming' # << >>  BY <4>1
      <4>4. QED  BY <3>1, <4>1, <4>2, <4>3 DEF Doomed
    <3>4. QED  BY <3>2, <3>3
  <2>3. CASE ~HandlesSysReset
    <3>1. /\ m_dfu_state = "ST_IDLE"
          /\ tx_queue' = << >> \/ tx_queue' = <<Connect>>
          /\ UNCHANGED <<m_image_size, valid_app>>
      BY <2>1, <2>3
      DEF Handles, HandlesRestart, HandlesSize, HandlesInit, HandlesData,
          HandlesReceiveInit, HandlesReceiveFw, HandlesValidate,
          HandlesActivate, Ignores, Undisturbed
    <3>2. Loose \/ Calm  BY <1>5, <3>1, HeavyFindsLoose
    <3>3. Loose => Loose'  BY <2>1, <3>1 DEF Loose, HandlingFrame
    <3>4. Calm => Calm'
      <4>1. Any(Incoming', Heavy) => Any(Incoming, Heavy)
        BY <2>1, <2>items, AnyTail
      <4>2. ~Sending("start_ok")'
        BY <3>1 DEF Sending, Connect
      <4>3. QED
        BY <2>1, <4>1, <4>2 DEF Calm, Coming, Told, EventHandledIn
    <3>5. QED  BY <3>2, <3>3, <3>4
  <2>4. QED  BY <2>2, <2>3
<1>6. ASSUME ByteLoop PROVE FALSE
  BY <1>6
  DEF ByteLoop, Dfu!StoreByte, Dfu!PacketDone, Dfu!dfuVars, ProcInv, HandlerInv
<1>7. ASSUME Watchdog PROVE Loose' \/ Leaves'
  BY <1>7
  DEF Watchdog, MemoryCleared, ProcInv, ModeInv, Typed, CpuTyped, Loose, Leaves, MayJump
<1>8. ASSUME RadioStarts \/ Central \/ LinkEnds \/ UNCHANGED vars
      PROVE  Loose' \/ Leaves' \/ Doomed' \/ Calm'
  <2>1. UNCHANGED <<dfuVars, cpuVars, rx>> /\ Ongoing
    BY <1>8, <1>inv, ElsewhereWorld
  <2>2. UNCHANGED dfuUntouched /\ UNCHANGED tx_queue /\ Outside
    BY <1>dfu, <2>1 DEF Ongoing, Outside
  <2>3. Leaves => Leaves'
    BY <2>1, <2>2 DEF Leaves, MayJump, cpuVars, dfuUntouched
  <2>4. Doomed => Doomed'  BY <2>1, <2>2, DoomedStays
  <2>5. QED  BY <1>outside, <2>2, <2>3, <2>4
<1>9. QED
  BY <1>1, <1>2, <1>3, <1>4, <1>5, <1>6, <1>7, <1>8 DEF Next, Processor

(* The size a session begins with.                                         *)
LEMMA ReadyKept ==
  ASSUME Typed, ProcInv, LinkInv, IdleInv, ReadyInv, [Next]_vars
  PROVE  ReadyInv'
<1>1. CASE HandleEvent
  <2>1. HandlingFrame /\ Handles  BY <1>1, EventHandled
  <2>2. m_num_of_firmware_bytes_rcvd' = m_num_of_firmware_bytes_rcvd
    BY <2>1 DEF HandlingFrame
  <2>3. CASE HandlesSize
    <3>1. Loose \/ rx.what \notin Heavy
      BY <1>1, <2>3, HeavyFindsLoose DEF HandlesSize
    <3>2. QED  BY <2>2, <2>3, <3>1 DEF HandlesSize, ReadyInv, Loose, Packets, Heavy
  <2>4. CASE ~HandlesSize
    BY <2>1, <2>2, <2>4
    DEF ReadyInv, Handles, HandlesRestart, HandlesInit, HandlesData,
        HandlesSysReset, HandlesReceiveInit, HandlesReceiveFw, HandlesValidate,
        HandlesActivate, Ignores, Undisturbed
  <2>5. QED  BY <2>3, <2>4
<1>2. CASE ByteLoop
  BY <1>2
  DEF ByteLoop, Dfu!StoreByte, Dfu!PacketDone, Dfu!dfuVars, ProcInv, HandlerInv, ReadyInv
<1>3. CASE Restart
  BY <1>3 DEF Restart, MemoryCleared, ReadyInv
<1>4. CASE UNCHANGED dfuUntouched
  BY <1>4 DEF dfuUntouched, ReadyInv
<1>5. QED  BY <1>1, <1>2, <1>3, <1>4, EveryStep

(* RECEIVE_FW is handled once, and before anything of the stream.          *)
LEMMA CandKept ==
  ASSUME Typed, ProcInv, WorldInv, CandInv, [Next]_vars
  PROVE  CandInv'
<1> DEFINE Fresh == {"ST_IDLE", "ST_RDY", "ST_RX_INIT_PKT"}
<1>inv. LinkInv /\ HeavyInv /\ OrderInv  BY DEF WorldInv
<1>typed. Incoming \in Seq(Message)  BY TypedWorld DEF WorldTyped
<1> SUFFICES ASSUME Candidate' PROVE m_dfu_state' \in Fresh
  BY DEF CandInv
<1>1. CASE HandleEvent
  <2>1. HandlingFrame /\ Handles /\ EventHandledIn
        /\ Incoming # << >> /\ Incoming[1] = rx
    BY <1>1, EventHandled, HandleWorld
  <2>2. CASE HandlesSize  BY <2>2 DEF HandlesSize
  <2>3. CASE ~HandlesSize
    <3>1. ~Sending("start_ok")'
      BY <2>1, <2>3
      DEF Handles, HandlesRestart, HandlesInit, HandlesData, HandlesSysReset,
          HandlesReceiveInit, HandlesReceiveFw, HandlesValidate,
          HandlesActivate, Ignores, Single, Dfu!Cmd, Connect, Sending
    <3>2. \A W : /\ Any(Incoming', W) => Any(Incoming, W)
                 /\ rx.what \in W => Any(Incoming, W)
      BY <1>typed, <2>1, AnyTail DEF EventHandledIn
    <3>3. Candidate
      BY <2>1, <3>1, <3>2 DEF Candidate, Told, EventHandledIn, Coming
    <3>4. m_dfu_state \in Fresh  BY <3>3 DEF CandInv
    <3>5. rx.what # "RECEIVE_FW"
      <4> SUFFICES ASSUME rx.what = "RECEIVE_FW" PROVE FALSE
        OBVIOUS
      <4>1. Coming({"RECEIVE_FW"}) /\ Coming(Heavy)
        BY <3>2 DEF Coming, Heavy
      <4>2. c_state \notin Early \cup {"init", "init_sent"}
        BY <1>inv, <4>1 DEF HeavyInv, OrderInv
      <4>3. Any(Incoming', {"RECEIVE_FW"})
        BY <2>1, <3>1, <4>2 DEF Candidate, EventHandledIn, Coming
      <4>4. /\ Len(Incoming) \in Nat \ {0}
            /\ Len(Incoming') = Len(Incoming) - 1
            /\ \A i \in 1..Len(Incoming) - 1 : Incoming'[i] = Incoming[i + 1]
        BY <1>typed, <2>1, TailItems DEF EventHandledIn
      <4>5. PICK i \in 1..Len(Incoming') : Incoming'[i].what = "RECEIVE_FW"
        BY <4>3 DEF Any
      <4>6. Incoming[i + 1].what = "RECEIVE_FW" /\ i + 1 \in 1..Len(Incoming)
        BY <4>4, <4>5
      <4>7. 1 = i + 1
        <5>1. OneFw(Incoming) /\ 1 \in 1..Len(Incoming)
          BY <1>inv, <4>4 DEF OrderInv
        <5>2. QED  BY <2>1, <4>6, <5>1 DEF OneFw
      <4>8. QED  BY <4>4, <4>5, <4>7
    <3>6. QED
      BY <2>1, <2>3, <3>4, <3>5
      DEF Handles, HandlesRestart, HandlesInit, HandlesData, HandlesSysReset,
          HandlesReceiveInit, HandlesReceiveFw, HandlesValidate,
          HandlesActivate, Ignores, Undisturbed
  <2>4. QED  BY <2>2, <2>3
<1>2. CASE ByteLoop /\ Stays
  <2>1. Candidate  BY <1>2 DEF Stays, Quieter, Candidate, Told, Coming
  <2>2. UNCHANGED m_dfu_state
    BY <1>2 DEF ByteLoop, Dfu!StoreByte, Dfu!PacketDone, Dfu!dfuVars
  <2>3. QED  BY <2>1, <2>2 DEF CandInv
<1>3. CASE Restart  BY <1>3 DEF Restart, MemoryCleared
<1>4. CASE UNCHANGED dfuUntouched /\ Outside
  <2> SUFFICES Candidate
    BY <1>4 DEF CandInv, dfuUntouched
  <2>1. CASE Stays  BY <2>1 DEF Stays, Quieter, Candidate, Coming, Told
  <2>2. CASE SessionEnds
    BY <2>2 DEF SessionEnds, Quieter, Candidate, Early, Sent, Told
  <2>3. CASE IsHandedOver
    BY <2>3 DEF IsHandedOver, Candidate, Told, Sent
  <2>4. CASE Connects
    <3>1. Told("start_ok") => Sending("start_ok")
      BY <2>4 DEF Connects, Told
    <3>2. QED  BY <2>4, <3>1 DEF Connects, Quieter, Candidate, Told, Sent
  <2>5. ASSUME NEW m \in Message, Sends(m) PROVE Candidate
    <3>1. Any(Incoming', {"RECEIVE_FW"}) <=> Coming({"RECEIVE_FW"}) \/ m.what = "RECEIVE_FW"
      BY <1>typed, <2>5, AnyAppend DEF Sends, Coming
    <3>2. DataMsg(version, c_pos).what = "data"  BY DEF DataMsg
    <3>3. Exchanged(m) /\ Quieter  BY <2>5 DEF Sends
    <3>4. CASE Sending("start_ok")'  BY <3>3, <3>4 DEF Quieter, Candidate
    <3>5. CASE c_state' \in Early /\ Told("start_ok")'
      BY <3>2, <3>3, <3>5 DEF Exchanged, Quieter, Candidate, Early
    <3>6. CASE c_state' \in {"init", "init_sent"}
      BY <3>3, <3>6 DEF Exchanged, Candidate, Early
    <3>7. CASE c_state' \in Sent /\ Any(Incoming', {"RECEIVE_FW"})
      BY <3>1, <3>2, <3>3, <3>7 DEF Exchanged, Candidate, Early, Sent
    <3>8. QED  BY <3>4, <3>5, <3>6, <3>7 DEF Candidate, Coming
  <2>6. CASE GivesUp
    BY <2>6 DEF GivesUp, Quieter, Candidate, Early, Sent, Told
  <2>7. QED  BY <1>4, <2>1, <2>2, <2>3, <2>4, <2>5, <2>6 DEF Outside
<1>5. QED  BY <1>inv, <1>1, <1>2, <1>3, <1>4, EveryStep

(* At first there is no session.                                           *)
LEMMA InitSessionInv == Init => SessionInv
<1> SUFFICES ASSUME Init PROVE SessionInv
  OBVIOUS
<1>1. /\ rx = None /\ to_mcu = << >> /\ tx_queue = << >> /\ to_central = << >>
      /\ c_state = "away" /\ m_dfu_state = "ST_IDLE"
  BY DEF Init, Dfu!Init
<1>2. ~Coming(Heavy)  BY <1>1, AnyEmpty DEF Incoming, Coming
<1>3. Calm  BY <1>1, <1>2 DEF Calm, Told, Sending, Sent
<1>4. QED
  BY <1>1, <1>3 DEF SessionInv, FlagInv, IdleInv, ReadyInv, CandInv

(* Step by step.                                                           *)
LEMMA StepSessionInv ==
  ASSUME Typed, ProcInv, WorldInv, SessionInv, [Next]_vars
  PROVE  SessionInv'
<1>1. LinkInv /\ FlagInv /\ IdleInv /\ ReadyInv /\ CandInv
  BY DEF WorldInv, SessionInv
<1>2. FlagInv'  BY <1>1, FlagKept
<1>3. IdleInv'  BY <1>1, IdleKept
<1>4. ReadyInv'  BY <1>1, ReadyKept
<1>5. CandInv'  BY <1>1, CandKept
<1>6. QED  BY <1>2, <1>3, <1>4, <1>5 DEF SessionInv

-----------------------------------------------------------------------------
(***************************************************************************)
(* The stream in flash.  The first n bytes of version v are placed: those   *)
(* before the current page in flash, the rest in the page buffer, and the  *)
(* page, once started, is blank.                                           *)
(***************************************************************************)
Placed(v, n) ==
  /\ m_page_address + m_page_buff_index = n
  /\ m_page_address % PageSize = 0
  /\ \A a \in 0..m_page_address - 1 : flash[a] = Base(v) + a
  /\ \A k \in 0..m_page_buff_index - 1 :
       m_page_buff[k] = Base(v) + m_page_address + k
  /\ m_page_buff_index # 0 =>
       \A a \in m_page_address..FlashSize - 1 :
         a < m_page_address + PageSize => flash[a] = Dfu!Blank

(* The lemmas of pages, for the definitions the device uses.               *)
LEMMA DevicePages ==
  ASSUME NEW addr \in Nat, addr % PageSize = 0
  PROVE  /\ (addr + PageSize) % PageSize = 0
         /\ addr < FlashSize =>
              /\ Dfu!PageCells(addr) = addr..addr + PageSize - 1
              /\ \A a \in Dfu!PageCells(addr) : Dfu!FilledFrom(addr, a) = a - addr
<1>1. (addr + PageSize) % PageSize = 0
  <2>1. Pages!DfuAssumption  BY DEF Pages!DfuAssumption, Pages!IndexWrap
  <2>2. QED  BY <2>1, Pages!NextPageAligned, Zenon
<1>2. addr < FlashSize =>
        /\ Pages!PageCells(addr) = addr..addr + PageSize - 1
        /\ \A a \in Pages!PageCells(addr) : Pages!FilledFrom(addr, a) = a - addr
  BY Pages!AlignedPage DEF Pages!IndexWrap
<1>3. /\ Pages!PageCells(addr) = Dfu!PageCells(addr)
      /\ \A a : Pages!FilledFrom(addr, a) = Dfu!FilledFrom(addr, a)
  BY DEF Pages!PageCells, Dfu!PageCells, Pages!PageBase, Dfu!PageBase,
         Pages!FilledFrom, Dfu!FilledFrom
<1>4. QED  BY <1>1, <1>2, <1>3

(* A page written: what is below it stays, what was erased takes the bytes. *)
PageFollows(f, addr, buff, a) ==
  /\ a < addr => Dfu!PageWritten(f, addr, buff)[a] = f[a]
  /\ a >= addr /\ a < addr + PageSize /\ f[a] = Dfu!Blank
       => Dfu!PageWritten(f, addr, buff)[a] = buff[a - addr]

(* A page, blank before, holds after the write what the buffer did.        *)
LEMMA BlankWritten ==
  ASSUME NEW f \in [0..FlashSize - 1 -> Dfu!Cell], NEW buff,
         NEW addr \in Nat, addr < FlashSize, addr % PageSize = 0,
         NEW a \in 0..FlashSize - 1
  PROVE  PageFollows(f, addr, buff, a)
<1> DEFINE new == Dfu!PageWritten(f, addr, buff)
<1>1. /\ Dfu!PageCells(addr) = addr..addr + PageSize - 1
      /\ \A c \in Dfu!PageCells(addr) : Dfu!FilledFrom(addr, c) = c - addr
  BY DevicePages
<1>2. new[a] = IF a \in Dfu!PageCells(addr)
                 THEN Dfu!Program(f[a], buff[Dfu!FilledFrom(addr, a)]) ELSE f[a]
  BY DEF Dfu!PageWritten
<1>3. ASSUME a < addr PROVE new[a] = f[a]
  <2>1. a \notin Dfu!PageCells(addr)  BY <1>1, <1>3
  <2>2. QED  BY <1>2, <2>1
<1>4. ASSUME a >= addr, a < addr + PageSize, f[a] = Dfu!Blank
      PROVE  new[a] = buff[a - addr]
  <2>1. a \in Dfu!PageCells(addr)  BY <1>1, <1>4
  <2>2. Dfu!FilledFrom(addr, a) = a - addr  BY <1>1, <2>1
  <2>3. new[a] = Dfu!Program(f[a], buff[a - addr])  BY <1>2, <2>1, <2>2
  <2>4. QED  BY <1>4, <2>3 DEF Dfu!Program
<1>5. QED  BY <1>3, <1>4 DEF PageFollows

(* One byte more.                                                          *)
LEMMA StorePlaced ==
  ASSUME Typed, NEW v \in Versions, NEW n \in 0..ImageSize - 1, Placed(v, n),
         Dfu!StoreByte, packet[next_byte + 1] = Base(v) + n
  PROVE  Placed(v, n + 1)'
<1> DEFINE addr == m_page_address
           idx == m_page_buff_index
           byte == packet[next_byte + 1]
           buff == [m_page_buff EXCEPT ![idx] = byte]
           ready == Dfu!PageReady
<1>types. /\ addr \in Nat
          /\ idx \in 0..PageSize - 1
          /\ m_page_buff \in [0..PageSize - 1 -> Nat \cup {Dfu!Zero}]
          /\ flash \in [0..FlashSize - 1 -> Dfu!Cell]
          /\ Base(v) \in Nat
          /\ PageSize \in Nat \ {0} /\ FlashSize \in Nat /\ ImageSize < FlashSize
  <2>1. Base(v) \in Nat  BY BaseType
  <2>2. PageSize \in Nat \ {0} /\ FlashSize \in Nat /\ ImageSize < FlashSize  OBVIOUS
  <2>3. QED  BY <2>1, <2>2 DEF Typed, PageTyped
<1>1. /\ addr + idx = n
      /\ addr % PageSize = 0
      /\ \A a \in 0..addr - 1 : flash[a] = Base(v) + a
      /\ \A k \in 0..idx - 1 : m_page_buff[k] = Base(v) + addr + k
      /\ idx # 0 => \A a \in addr..FlashSize - 1 : a < addr + PageSize => flash[a] = Dfu!Blank
  BY DEF Placed
<1>2. addr < FlashSize  BY <1>types, <1>1
<1>3. /\ Dfu!PageCells(addr) = addr..addr + PageSize - 1
      /\ (addr + PageSize) % PageSize = 0
  BY <1>types, <1>1, <1>2, DevicePages
<1>4. /\ ready \in [0..FlashSize - 1 -> Dfu!Cell]
      /\ \A a \in 0..addr - 1 : ready[a] = Base(v) + a
      /\ \A a \in addr..FlashSize - 1 : a < addr + PageSize => ready[a] = Dfu!Blank
  <2>1. ready \in [0..FlashSize - 1 -> Dfu!Cell]
    BY <1>types DEF Dfu!PageReady, Dfu!Erased, Dfu!Cell, Dfu!Blank
  <2>2. CASE idx = 0
    <3>1. ready = [a \in 0..FlashSize - 1 |-> IF a \in addr..addr + PageSize - 1
                                                THEN Dfu!Blank ELSE flash[a]]
      BY <1>types, <1>3, <2>2 DEF Dfu!PageReady, Dfu!Erased
    <3> HIDE DEF ready
    <3>2. \A a \in 0..addr - 1 : ready[a] = Base(v) + a
      <4> TAKE a \in 0..addr - 1
      <4>1. a \in 0..FlashSize - 1 /\ a \notin addr..addr + PageSize - 1
        BY <1>types, <1>2
      <4>2. QED  BY <1>1, <3>1, <4>1
    <3>3. \A a \in addr..FlashSize - 1 : a < addr + PageSize => ready[a] = Dfu!Blank
      <4> TAKE a \in addr..FlashSize - 1
      <4>1. a \in 0..FlashSize - 1 /\ (a < addr + PageSize => a \in addr..addr + PageSize - 1)
        BY <1>types
      <4>2. QED  BY <3>1, <4>1
    <3>4. QED  BY <2>1, <3>2, <3>3 DEF ready
  <2>3. CASE idx # 0
    <3>1. ready = flash  BY <2>3 DEF Dfu!PageReady
    <3>2. QED  BY <1>1, <2>1, <2>3, <3>1
  <2>4. QED  BY <2>2, <2>3
<1>5. \A k \in 0..idx : buff[k] = Base(v) + addr + k
  <2> HIDE DEF byte
  <2>1. byte = Base(v) + n  BY DEF byte
  <2>2. buff[idx] = Base(v) + addr + idx
    <3>1. buff[idx] = byte  BY <1>types
    <3>2. byte = Base(v) + addr + idx
      <4>1. \A b \in Nat : b + (addr + idx) = b + addr + idx  BY <1>types
      <4>2. QED  BY <1>types, <1>1, <2>1, <4>1
    <3>3. QED  BY <3>1, <3>2
  <2>3. \A k \in 0..idx - 1 : buff[k] = m_page_buff[k]  BY <1>types
  <2> HIDE DEF buff
  <2>4. QED  BY <1>types, <1>1, <2>2, <2>3
<1>step. /\ m_page_buff' = buff
         /\ IF idx + 1 = PageSize
              THEN /\ m_page_buff_index' = 0
                   /\ flash' = Dfu!PageWritten(ready, addr, buff)
                   /\ m_page_address' = addr + PageSize
              ELSE /\ m_page_buff_index' = idx + 1
                   /\ flash' = ready
                   /\ m_page_address' = addr
  BY <1>types, IndexStays DEF Dfu!StoreByte, Dfu!PageFull, PageTyped
<1> HIDE DEF buff, ready
<1>6. CASE idx + 1 = PageSize
  <2>1. /\ m_page_buff_index' = 0
        /\ m_page_address' = addr + PageSize
        /\ flash' = Dfu!PageWritten(ready, addr, buff)
    BY <1>6, <1>step
  <2>2. addr + PageSize = n + 1 /\ addr + PageSize <= FlashSize
    BY <1>types, <1>1, <1>6
  <2>3. \A a \in 0..addr + PageSize - 1 : flash'[a] = Base(v) + a
    <3> TAKE a \in 0..addr + PageSize - 1
    <3>1. a \in 0..FlashSize - 1  BY <1>types, <2>2
    <3>2. /\ a < addr => flash'[a] = ready[a]
          /\ a >= addr /\ ready[a] = Dfu!Blank => flash'[a] = buff[a - addr]
      <4>1. a < addr + PageSize  BY <1>types
      <4>2. ready \in [0..FlashSize - 1 -> Dfu!Cell]  BY <1>4
      <4> DEFINE new == Dfu!PageWritten(ready, addr, buff)
      <4>3. /\ a < addr => new[a] = ready[a]
            /\ a >= addr /\ a < addr + PageSize /\ ready[a] = Dfu!Blank
                 => new[a] = buff[a - addr]
        <5>1. addr \in Nat /\ addr < FlashSize /\ addr % PageSize = 0
          BY <1>types, <1>1, <1>2
        <5>2. PageFollows(ready, addr, buff, a)
          BY <3>1, <4>2, <5>1, BlankWritten
        <5>3. QED  BY <5>2 DEF PageFollows
      <4> HIDE DEF new
      <4>4. flash' = new  BY <2>1 DEF new
      <4>5. QED  BY <4>1, <4>3, <4>4
    <3>3. CASE a < addr
      <4>1. a \in 0..addr - 1  BY <1>types, <3>1, <3>3
      <4>2. QED  BY <1>4, <3>2, <3>3, <4>1
    <3>4. CASE a >= addr
      <4>1. a \in addr..FlashSize - 1 /\ a < addr + PageSize /\ a - addr \in 0..idx
        BY <1>types, <1>6, <3>1, <3>4
      <4>2. flash'[a] = Base(v) + addr + (a - addr)
        BY <1>4, <1>5, <3>2, <3>4, <4>1
      <4>3. QED  BY <1>types, <3>1, <4>2
    <3>5. QED  BY <1>types, <3>1, <3>3, <3>4
  <2>4. /\ m_page_address' + m_page_buff_index' = n + 1
        /\ m_page_address' % PageSize = 0
        /\ \A a \in 0..m_page_address' - 1 : flash'[a] = Base(v) + a
        /\ \A k \in 0..m_page_buff_index' - 1 : FALSE
    BY <1>types, <1>3, <2>1, <2>2, <2>3
  <2>5. QED  BY <2>1, <2>4 DEF Placed
<1>7. CASE idx + 1 # PageSize
  <2>1. /\ m_page_buff_index' = idx + 1
        /\ m_page_address' = addr
        /\ flash' = ready
    BY <1>7, <1>step
  <2>2. \A k \in 0..m_page_buff_index' - 1 : m_page_buff'[k] = Base(v) + m_page_address' + k
    BY <1>types, <1>5, <1>step, <2>1
  <2>3. m_page_address' + m_page_buff_index' = n + 1
    BY <1>types, <1>1, <2>1
  <2>4. QED  BY <1>1, <1>4, <2>1, <2>2, <2>3 DEF Placed
<1>8. QED  BY <1>6, <1>7

(* When all of an image is placed, the final write puts it in flash.       *)
LEMMA FinalPlaced ==
  ASSUME Typed, NEW v \in Versions, Placed(v, ImageSize),
         flash' = Dfu!FinalPageWritten
  PROVE  HoldsImage(v)'
<1> DEFINE addr == m_page_address
           idx == m_page_buff_index
<1>types. /\ addr \in Nat
          /\ idx \in 0..PageSize - 1
          /\ flash \in [0..FlashSize - 1 -> Dfu!Cell]
          /\ Base(v) \in Nat
          /\ PageSize \in Nat \ {0} /\ FlashSize \in Nat /\ ImageSize < FlashSize
  <2>1. Base(v) \in Nat  BY BaseType
  <2>2. PageSize \in Nat \ {0} /\ FlashSize \in Nat /\ ImageSize < FlashSize  OBVIOUS
  <2>3. QED  BY <2>1, <2>2 DEF Typed, PageTyped
<1>1. /\ addr + idx = ImageSize
      /\ addr % PageSize = 0
      /\ \A a \in 0..addr - 1 : flash[a] = Base(v) + a
      /\ \A k \in 0..idx - 1 : m_page_buff[k] = Base(v) + addr + k
      /\ idx # 0 => \A a \in addr..FlashSize - 1 : a < addr + PageSize => flash[a] = Dfu!Blank
  BY DEF Placed
<1>2. addr < FlashSize  BY <1>types, <1>1
<1>3. flash' = Dfu!PageWritten(flash, addr, m_page_buff)  BY DEF Dfu!FinalPageWritten
<1> SUFFICES ASSUME NEW p \in 0..ImageSize - 1 PROVE flash'[p] = Base(v) + p
  BY DEF HoldsImage, Base
<1>4. p \in 0..FlashSize - 1  BY <1>types
<1>5. /\ p < addr => flash'[p] = flash[p]
      /\ p >= addr /\ p < addr + PageSize /\ flash[p] = Dfu!Blank
           => flash'[p] = m_page_buff[p - addr]
  <2> DEFINE new == Dfu!PageWritten(flash, addr, m_page_buff)
  <2>1. /\ p < addr => new[p] = flash[p]
        /\ p >= addr /\ p < addr + PageSize /\ flash[p] = Dfu!Blank
             => new[p] = m_page_buff[p - addr]
    <3>1. PageFollows(flash, addr, m_page_buff, p)
      BY <1>types, <1>1, <1>2, <1>4, BlankWritten
    <3>2. QED  BY <3>1 DEF PageFollows
  <2> HIDE DEF new
  <2>2. flash' = new  BY <1>3 DEF new
  <2>3. QED  BY <2>1, <2>2
<1>6. CASE p < addr
  <2>1. p \in 0..addr - 1  BY <1>types, <1>4, <1>6
  <2>2. QED  BY <1>1, <1>5, <1>6, <2>1
<1>7. CASE p >= addr
  <2>1. /\ p \in addr..FlashSize - 1 /\ p < addr + PageSize
        /\ p - addr \in 0..idx - 1 /\ idx # 0
    BY <1>types, <1>1, <1>4, <1>7
  <2>2. flash'[p] = Base(v) + addr + (p - addr)
    BY <1>1, <1>5, <1>7, <2>1
  <2>3. QED  BY <1>types, <1>4, <2>2
<1>8. QED  BY <1>types, <1>4, <1>6, <1>7

-----------------------------------------------------------------------------
(***************************************************************************)
(* The session against the flash.                                          *)
(***************************************************************************)
(* Before the first byte, the page is the first one.                       *)
StartInv ==
  /\ pc = "data" => packet # << >>
  /\ m_num_of_firmware_bytes_rcvd = 0 /\ pc # "data" =>
       m_page_address = 0 /\ m_page_buff_index = 0

(* The byte of the stream that is to come next, and the bytes taken so far. *)
NextFrom(s, v, pos) == IF s # << >> /\ IsChunk(s[1], v) THEN From(s[1], v) ELSE pos
Due == NextFrom(Incoming, version, c_pos)
Taken == m_num_of_firmware_bytes_rcvd + Len(packet)

(* The image so far: all of it, when its size has been received, otherwise  *)
(* the bytes counted, and those of the packet in hand that are stored.     *)
Faithful(v) ==
  IF m_num_of_firmware_bytes_rcvd = ImageSize THEN HoldsImage(v)
  ELSE /\ m_num_of_firmware_bytes_rcvd < ImageSize
       /\ pc = "data" => packet = Chunk(v, m_num_of_firmware_bytes_rcvd)
       /\ Placed(v, m_num_of_firmware_bytes_rcvd + next_byte)

(* A session is never short of what it has sent.  What an earlier one left  *)
(* in the count is never made up for; without, the image is faithful.      *)
StreamInv ==
  c_state \in Sent /\ m_dfu_state = "ST_RX_DATA_PKT" =>
    /\ Taken >= Due
    /\ Taken > Due => m_image_size \in {0, ImageSize}
    /\ Taken = Due /\ m_image_size = ImageSize => Faithful(version)

(* A session that is told of an image validated asked for it.              *)
OkInv ==
  Told("validate_ok") =>
    /\ c_state \in {"validating", "activated", "gave_up", "reset_sent", "away"}
    /\ link # "advertising"

(* From the moment it is told so, nothing writes to flash.                 *)
Vouched ==
  \/ c_state = "activated"
  \/ c_state = "validating" /\ Told("validate_ok")
  \/ Coming({"ACTIVATE"})

Settled ==
  /\ HoldsImage(version)
  /\ m_dfu_state # "ST_RX_DATA_PKT"
  /\ ~Coming({"RECEIVE_FW", "VALIDATE"})

SettledInv == Vouched => Settled

FlashInv == StartInv /\ StreamInv /\ OkInv /\ SettledInv

(* The counts are numbers, and what is due is of the image.                *)
LEMMA DueTyped ==
  ASSUME Typed
  PROVE  /\ Due \in 0..ImageSize
         /\ Taken \in Nat /\ Len(packet) \in Nat
         /\ m_num_of_firmware_bytes_rcvd \in Nat
         /\ ImageSize \in Nat \ {0}
<1>1. Len(packet) \in Nat /\ m_num_of_firmware_bytes_rcvd \in Nat
  BY LenProperties DEF Typed, DfuTyped
<1>2. version \in Versions /\ c_pos \in 0..ImageSize  BY DEF Typed, CentralTyped
<1>3. ASSUME IsChunk(Incoming[1], version) PROVE From(Incoming[1], version) \in 0..ImageSize
  <2>1. PICK from \in 0..ImageSize - 1 : Incoming[1] = DataMsg(version, from)
    BY <1>3 DEF IsChunk
  <2>2. From(DataMsg(version, from), version) = from  BY <1>2, ChunkAt
  <2>3. QED  BY <2>1, <2>2
<1>4. Due \in 0..ImageSize  BY <1>2, <1>3 DEF Due, NextFrom
<1>5. QED  BY <1>1, <1>4 DEF Taken

(* A chunk is a packet.                                                    *)
LEMMA ChunkIsData == \A m, v : IsChunk(m, v) => m.what = "data"
<1> SUFFICES ASSUME NEW m, NEW v, IsChunk(m, v) PROVE m.what = "data"
  OBVIOUS
<1>1. PICK from \in 0..ImageSize - 1 : m = DataMsg(v, from)  BY DEF IsChunk
<1>2. QED  BY <1>1 DEF DataMsg

(* What is due after the first item of a stream.                           *)
LEMMA DueAfter ==
  ASSUME NEW s \in Seq(Message), s # << >>, NEW v, NEW pos, Streaming(s, v, pos),
         ~Any(Tail(s), {"RECEIVE_FW"}), s[1].what # "VALIDATE"
  PROVE  /\ s[1].what = "RECEIVE_FW" \/ IsChunk(s[1], v)
         /\ NextFrom(Tail(s), v, pos) = After(s[1], v)
<1>1. /\ Len(s) \in Nat \ {0}
      /\ Tail(s) \in Seq(Message)
      /\ Len(Tail(s)) = Len(s) - 1
      /\ \A i \in 1..Len(s) - 1 : Tail(s)[i] = s[i + 1]
  BY TailItems
<1>2. InStream(s, 1, v, pos)  BY <1>1 DEF Streaming
<1>3. \A j \in 2..Len(s) : s[j].what # "RECEIVE_FW"
  <2> SUFFICES ASSUME NEW j \in 2..Len(s), s[j].what = "RECEIVE_FW" PROVE FALSE
    OBVIOUS
  <2>1. j - 1 \in 1..Len(s) - 1 /\ (j - 1) + 1 = j  BY <1>1
  <2>2. Tail(s)[j - 1] = s[j]  BY <1>1, <2>1
  <2>3. QED  BY <1>1, <2>1, <2>2 DEF Any
<1>4. /\ s[1].what = "RECEIVE_FW" \/ IsChunk(s[1], v)
      /\ FollowedBy(s, 1, v, pos)
  <2>1. \A j \in 1 + 1..Len(s) : s[j].what # "RECEIVE_FW"  BY <1>3
  <2>2. QED  BY <1>2, <2>1 DEF InStream
<1>5. CASE Len(s) = 1
  <2>1. Tail(s) = << >>
    <3>1. Tail(s) \in Seq(Message) /\ Len(Tail(s)) = 0  BY <1>1, <1>5
    <3>2. QED  BY <3>1, EmptySeq
  <2>2. QED  BY <1>4, <1>5, <2>1 DEF FollowedBy, NextFrom
<1>6. CASE Len(s) # 1
  <2>1. Tail(s) # << >> /\ Tail(s)[1] = s[1 + 1]
    <3>1. Len(Tail(s)) # 0 /\ 1 \in 1..Len(s) - 1  BY <1>1, <1>6
    <3>2. QED  BY <1>1, <3>1
  <2>2. s[1 + 1].what = "VALIDATE" => ~IsChunk(s[1 + 1], v)
    BY ChunkIsData
  <2>3. QED  BY <1>4, <1>6, <2>1, <2>2 DEF FollowedBy, NextFrom
<1>7. QED  BY <1>5, <1>6

(* The first byte is stored in the first page.                             *)
LEMMA StartKept ==
  ASSUME Typed, ProcInv, LinkInv, OrderInv, StartInv, [Next]_vars
  PROVE  StartInv'
<1>1. CASE HandleEvent
  <2>1. HandlingFrame /\ Handles  BY <1>1, EventHandled
  <2>2. HandlesData => packet' # << >>
    <3>1. rx # None /\ Incoming # << >> /\ Incoming[1] = rx  BY <1>1, HandleWorld
    <3>2. Len(Incoming) \in Nat \ {0}
      BY <3>1, TypedWorld, TailItems DEF WorldTyped
    <3>3. rx.what \in Packets => rx.bytes # << >>
      <4>1. 1 \in 1..Len(Incoming)  BY <3>2
      <4>2. QED  BY <3>1, <4>1 DEF OrderInv, Filled
    <3>4. QED  BY <3>3 DEF HandlesData
  <2>3. pc # "data"  BY <2>1 DEF HandlingFrame, ProcInv, HandlerInv
  <2>4. pc' = "data" => HandlesData
    BY <2>1, <2>3
    DEF Handles, HandlesRestart, HandlesSize, HandlesInit, HandlesData,
        HandlesSysReset, HandlesReceiveInit, HandlesReceiveFw, HandlesValidate,
        HandlesActivate, Ignores, Undisturbed
  <2>5. QED  BY <2>1, <2>2, <2>3, <2>4 DEF StartInv, HandlingFrame
<1>2. CASE ByteLoop
  <2>1. CASE Dfu!StoreByte
    BY <2>1 DEF Dfu!StoreByte, StartInv
  <2>2. CASE Dfu!PacketDone
    <3>1. packet # << >>  BY <2>2 DEF Dfu!PacketDone, StartInv
    <3>2. m_num_of_firmware_bytes_rcvd' # 0 /\ pc' # "data"
      <4>1. packet \in Seq(Nat) /\ m_num_of_firmware_bytes_rcvd \in Nat
        BY DEF Typed, DfuTyped
      <4>2. Len(packet) \in Nat /\ Len(packet) # 0
        BY <3>1, <4>1, EmptySeq, LenProperties
      <4>3. QED  BY <2>2, <4>1, <4>2 DEF Dfu!PacketDone, Dfu!BytesReceived
    <3>3. QED  BY <3>2 DEF StartInv
  <2>3. QED  BY <1>2, <2>1, <2>2 DEF ByteLoop
<1>3. CASE Restart
  BY <1>3 DEF Restart, MemoryCleared, StartInv
<1>4. CASE UNCHANGED dfuUntouched
  BY <1>4 DEF dfuUntouched, StartInv
<1>5. QED  BY <1>1, <1>2, <1>3, <1>4, EveryStep

(* While a session sends, the queue of what is coming from it to the byte   *)
(* loop holds chunks, and VALIDATE at the end.                             *)
LEMMA SessionItems ==
  ASSUME Typed, WorldInv, CandInv, c_state \in Sent,
         m_dfu_state = "ST_RX_DATA_PKT", Incoming # << >>
  PROVE  /\ ~Any(Incoming, {"RECEIVE_FW"})
         /\ Incoming[1].what = "VALIDATE" => Len(Incoming) = 1
         /\ Incoming[1].what # "VALIDATE" =>
              /\ IsChunk(Incoming[1], version)
              /\ NextFrom(Tail(Incoming), version, c_pos) = After(Incoming[1], version)
<1>1. Incoming \in Seq(Message)  BY TypedWorld DEF WorldTyped
<1>2. Streaming(Incoming, version, c_pos)  BY DEF WorldInv, SentInv
<1>3. ~Any(Incoming, {"RECEIVE_FW"})  BY DEF CandInv, Candidate, Coming
<1>4. /\ ~Any(Tail(Incoming), {"RECEIVE_FW"})
      /\ Incoming[1].what # "RECEIVE_FW"
  BY <1>1, <1>3, AnyTail
<1>5. ASSUME Incoming[1].what = "VALIDATE" PROVE Len(Incoming) = 1
  <2>1. Len(Incoming) \in Nat \ {0}  BY <1>1, TailItems
  <2>2. InStream(Incoming, 1, version, c_pos)  BY <1>2, <2>1 DEF Streaming
  <2>3. ~IsChunk(Incoming[1], version)  BY <1>5, ChunkIsData
  <2>4. ~\E j \in 1 + 1..Len(Incoming) : Incoming[j].what = "RECEIVE_FW"
    <3>1. \A j \in 1 + 1..Len(Incoming) : j \in 1..Len(Incoming)  BY <2>1
    <3>2. QED  BY <1>3, <3>1 DEF Any
  <2>5. QED  BY <1>4, <2>2, <2>3, <2>4 DEF InStream
<1>6. ASSUME Incoming[1].what # "VALIDATE"
      PROVE  /\ IsChunk(Incoming[1], version)
             /\ NextFrom(Tail(Incoming), version, c_pos) = After(Incoming[1], version)
  BY <1>1, <1>2, <1>4, <1>6, DueAfter
<1>7. QED  BY <1>3, <1>5, <1>6

(* RECEIVE_FW, handled: nothing is due, nothing is taken.                  *)
LEMMA StreamBegins ==
  ASSUME Typed, ProcInv, WorldInv, SessionInv, StartInv, HandleEvent, pc = "poll",
         HandlesReceiveFw, c_state \in Sent
  PROVE  StreamInv'
<1>1. HandlingFrame /\ EventHandledIn /\ rx # None
        /\ Incoming # << >> /\ Incoming[1] = rx
  BY EventHandled, HandleWorld
<1>2. Incoming \in Seq(Message) /\ Incoming' = Tail(Incoming)
  BY <1>1, TypedWorld DEF WorldTyped, EventHandledIn
<1>3. Streaming(Incoming, version, c_pos) /\ OneFw(Incoming)
  BY DEF WorldInv, SentInv, OrderInv
<1>4. ~Any(Tail(Incoming), {"RECEIVE_FW"})
  <2>1. /\ Len(Incoming) \in Nat \ {0}
        /\ Len(Tail(Incoming)) = Len(Incoming) - 1
        /\ \A i \in 1..Len(Incoming) - 1 : Tail(Incoming)[i] = Incoming[i + 1]
    BY <1>1, <1>2, TailItems
  <2> SUFFICES ASSUME NEW i \in 1..Len(Incoming) - 1, Tail(Incoming)[i].what = "RECEIVE_FW"
               PROVE  FALSE
    BY <2>1 DEF Any
  <2>2. Incoming[i + 1].what = "RECEIVE_FW" /\ i + 1 \in 1..Len(Incoming) /\ i + 1 # 1
    BY <2>1
  <2>3. 1 \in 1..Len(Incoming) /\ Incoming[1].what = "RECEIVE_FW"
    BY <1>1, <2>1 DEF HandlesReceiveFw
  <2>4. QED  BY <1>3, <2>2, <2>3 DEF OneFw
<1>5. Due' = 0
  <2>1. NextFrom(Tail(Incoming), version, c_pos) = After(Incoming[1], version)
    BY <1>1, <1>2, <1>3, <1>4, DueAfter DEF HandlesReceiveFw
  <2>2. After(Incoming[1], version) = 0  BY <1>1 DEF HandlesReceiveFw, After
  <2>3. QED  BY <1>1, <1>2, <2>1, <2>2 DEF Due, EventHandledIn
<1>6. m_num_of_firmware_bytes_rcvd = 0 \/ m_image_size = ImageSize
  <2>1. Coming({"RECEIVE_FW"})
    BY <1>1, <1>2, AnyTail DEF Coming, HandlesReceiveFw
  <2>2. m_dfu_state \in {"ST_IDLE", "ST_RDY", "ST_RX_INIT_PKT"}
    BY <2>1 DEF SessionInv, CandInv, Candidate
  <2>3. m_dfu_state = "ST_IDLE" => Loose
    BY HeavyFindsLoose DEF SessionInv, HandlesReceiveFw, Heavy
  <2>4. QED  BY <2>2, <2>3 DEF SessionInv, ReadyInv, Loose
<1>7. packet' = << >> /\ next_byte' = 0 /\ pc' = "poll"
  BY DEF ProcInv, HandlerInv, HandlesReceiveFw
<1>8. /\ Taken' = m_num_of_firmware_bytes_rcvd
      /\ m_num_of_firmware_bytes_rcvd \in Nat /\ ImageSize \in Nat \ {0}
  <2>1. Len(packet') = 0  BY <1>7
  <2>2. QED  BY <1>1, <2>1, DueTyped DEF Taken, HandlingFrame
<1>9. ASSUME m_num_of_firmware_bytes_rcvd = 0 PROVE Faithful(version)'
  <2>1. m_page_address' = 0 /\ m_page_buff_index' = 0
        /\ m_num_of_firmware_bytes_rcvd' = 0
    BY <1>1, <1>9 DEF StartInv, HandlingFrame
  <2>2. 0 % PageSize = 0  OBVIOUS
  <2>3. Placed(version, m_num_of_firmware_bytes_rcvd + next_byte)'
    BY <1>7, <2>1, <2>2 DEF Placed
  <2>4. QED  BY <1>7, <1>8, <2>1, <2>3 DEF Faithful
<1>10. QED
  BY <1>5, <1>6, <1>8, <1>9 DEF StreamInv, HandlesReceiveFw

(* A chunk, handled: it is taken, and no longer due.                       *)
LEMMA StreamGoesOn ==
  ASSUME Typed, ProcInv, WorldInv, CandInv, StreamInv, HandleEvent, pc = "poll",
         HandlesData, c_state \in Sent
  PROVE  StreamInv'
<1>1. HandlingFrame /\ EventHandledIn /\ rx # None
        /\ Incoming # << >> /\ Incoming[1] = rx
  BY EventHandled, HandleWorld
<1>2. m_dfu_state = "ST_RX_DATA_PKT"  BY DEF HandlesData
<1>3. /\ IsChunk(rx, version)
      /\ NextFrom(Tail(Incoming), version, c_pos) = After(rx, version)
  <2>1. rx.what # "VALIDATE"  BY DEF HandlesData, Packets
  <2>2. QED  BY <1>1, <1>2, <2>1, SessionItems
<1>4. PICK from \in 0..ImageSize - 1 : rx = DataMsg(version, from)
  BY <1>3 DEF IsChunk
<1>5. PICK v \in Versions : v = version  BY DEF Typed, CentralTyped
<1>6. /\ From(rx, v) = from
      /\ After(rx, v) = from + Len(rx.bytes)
      /\ rx.bytes = Chunk(v, from)
      /\ Len(rx.bytes) \in Nat
  <2>1. /\ From(rx, v) = from
        /\ After(rx, v) = Min2(from + ChunkLen, ImageSize)
        /\ rx.bytes = Chunk(v, from)
    BY <1>4, <1>5, ChunkAt
  <2>2. /\ from + Len(Chunk(v, from)) = Min2(from + ChunkLen, ImageSize)
        /\ Chunk(v, from) \in Seq(Nat)
    <3>1. from \in 0..ImageSize  OBVIOUS
    <3>2. QED  BY <3>1, ChunkBytes
  <2>3. Len(Chunk(v, from)) \in Nat  BY <2>2, LenProperties
  <2>4. QED  BY <2>1, <2>2, <2>3
<1>7. Due = from  BY <1>1, <1>3, <1>5, <1>6 DEF Due, NextFrom
<1>8. Due' = from + Len(rx.bytes)
  BY <1>1, <1>3, <1>5, <1>6 DEF Due, EventHandledIn
<1>9. /\ Taken = m_num_of_firmware_bytes_rcvd
      /\ Taken' = m_num_of_firmware_bytes_rcvd + Len(rx.bytes)
      /\ m_num_of_firmware_bytes_rcvd \in Nat
  <2>1. Len(packet) = 0  BY DEF ProcInv, HandlerInv
  <2>2. QED  BY <1>1, <2>1, DueTyped DEF Taken, HandlingFrame, HandlesData
<1>10. /\ Taken >= from
       /\ Taken > from => m_image_size \in {0, ImageSize}
       /\ Taken = from /\ m_image_size = ImageSize => Faithful(v)
  BY <1>2, <1>5, <1>7 DEF StreamInv
<1>11. ASSUME Taken = from, Faithful(v) PROVE Faithful(v)'
  <2>1. m_num_of_firmware_bytes_rcvd = from /\ from # ImageSize /\ from < ImageSize
    BY <1>9, <1>11
  <2>2. Placed(v, from + next_byte) /\ next_byte = 0
    BY <1>11, <2>1 DEF Faithful, ProcInv, HandlerInv
  <2>3. Placed(v, from + next_byte)'
    BY <1>1, <2>2 DEF Placed, HandlingFrame, HandlesData
  <2>4. m_num_of_firmware_bytes_rcvd' = from /\ packet' = Chunk(v, from)
    BY <1>1, <1>6, <2>1 DEF HandlingFrame, HandlesData
  <2>5. QED  BY <2>1, <2>3, <2>4 DEF Faithful
<1>12. /\ Taken' >= Due'
       /\ Taken' > Due' => Taken > from
       /\ Taken' = Due' => Taken = from
  <2>1. Taken' = Taken + Len(rx.bytes)  BY <1>9
  <2>2. Taken \in Nat /\ Taken >= from  BY <1>9, <1>10
  <2>3. QED  BY <1>6, <1>8, <2>1, <2>2
<1>13. version' = v /\ m_image_size' = m_image_size
  BY <1>1, <1>5 DEF EventHandledIn, HandlesData
<1>14. QED  BY <1>10, <1>11, <1>12, <1>13 DEF StreamInv

(* The bytes of a packet, stored: what was in hand is in its place.        *)
LEMMA StreamStored ==
  ASSUME Typed, ProcInv, StartInv, StreamInv, ByteLoop, Stays, c_state \in Sent
  PROVE  StreamInv'
<1>1. pc = "data" /\ m_dfu_state = "ST_RX_DATA_PKT" /\ packet # << >>
  BY DEF ByteLoop, Dfu!StoreByte, Dfu!PacketDone, ProcInv, HandlerInv, StartInv
<1>2. /\ Due \in 0..ImageSize
      /\ m_num_of_firmware_bytes_rcvd \in Nat
      /\ Len(packet) \in Nat \ {0}
      /\ packet \in Seq(Nat)
      /\ next_byte \in 0..Len(packet)
  <2>1. packet \in Seq(Nat) /\ next_byte \in 0..Len(packet)  BY DEF Typed, DfuTyped
  <2>2. QED  BY <1>1, <2>1, DueTyped, EmptySeq
<1>3. PICK v \in Versions : v = version  BY DEF Typed, CentralTyped
<1>4. /\ Taken >= Due
      /\ Taken > Due => m_image_size \in {0, ImageSize}
      /\ Taken = Due /\ m_image_size = ImageSize => Faithful(v)
  BY <1>1, <1>3 DEF StreamInv
<1>5. /\ Due' = Due /\ version' = v
      /\ Taken' = Taken
      /\ UNCHANGED <<m_image_size, m_dfu_state>>
  <2>1. Due' = Due /\ version' = v  BY <1>3 DEF Stays, Due
  <2>2. UNCHANGED <<m_image_size, m_dfu_state>>
    BY DEF ByteLoop, Dfu!StoreByte, Dfu!PacketDone, Dfu!dfuVars
  <2>3. CASE Dfu!StoreByte
    BY <2>1, <2>2, <2>3 DEF Dfu!StoreByte, Dfu!dfuVars, Taken
  <2>4. CASE Dfu!PacketDone
    <3>1. Len(packet') = 0  BY <2>4 DEF Dfu!PacketDone
    <3>2. QED
      BY <1>2, <2>1, <2>2, <2>4, <3>1 DEF Dfu!PacketDone, Dfu!BytesReceived, Taken
  <2>5. QED  BY <2>3, <2>4 DEF ByteLoop
<1>6. ASSUME Taken = Due, m_image_size = ImageSize PROVE Faithful(v)'
  <2> PICK n : n = m_num_of_firmware_bytes_rcvd  OBVIOUS
  <2>1. /\ n \in Nat /\ n < ImageSize
        /\ n + Len(packet) <= ImageSize
    BY <1>2, <1>6 DEF Taken
  <2>2. packet = Chunk(v, n) /\ Placed(v, n + next_byte)
    BY <1>1, <1>4, <1>6, <2>1 DEF Faithful
  <2>3. CASE Dfu!StoreByte
    <3> PICK k : k = next_byte  OBVIOUS
    <3>1. k \in Nat /\ k + 1 \in 1..Len(packet)
      BY <1>2, <2>3 DEF Dfu!StoreByte
    <3>2. n + k \in 0..ImageSize - 1  BY <1>2, <2>1, <3>1
    <3>3. packet[next_byte + 1] = Base(v) + (n + k)
      <4>1. n \in 0..ImageSize  BY <2>1
      <4>2. Chunk(v, n)[k + 1] = Base(v) + n + (k + 1) - 1
        BY <2>2, <3>1, <4>1, ChunkBytes
      <4>3. Base(v) \in Nat  BY BaseType
      <4>4. QED  BY <2>1, <2>2, <3>1, <4>2, <4>3
    <3>4. Placed(v, (n + k) + 1)'
      BY <2>2, <2>3, <3>2, <3>3, StorePlaced
    <3>5. /\ next_byte' = k + 1
          /\ m_num_of_firmware_bytes_rcvd' = n
          /\ packet' = packet
      BY <2>3 DEF Dfu!StoreByte, Dfu!dfuVars
    <3>6. (n + k) + 1 = n + (k + 1)  BY <2>1, <3>1
    <3>7. Placed(v, m_num_of_firmware_bytes_rcvd + next_byte)'
      BY <3>4, <3>5, <3>6
    <3>8. QED  BY <2>1, <2>2, <3>5, <3>7 DEF Faithful
  <2>4. CASE Dfu!PacketDone
    <3> PICK total : total = n + Len(packet)  OBVIOUS
    <3>1. Placed(v, total) /\ m_num_of_firmware_bytes_rcvd' = total
          /\ next_byte' = 0 /\ pc' = "poll" /\ total \in Nat /\ total <= ImageSize
      BY <1>2, <2>1, <2>2, <2>4 DEF Dfu!PacketDone, Dfu!BytesReceived
    <3>2. CASE total = ImageSize
      <4>1. flash' = Dfu!FinalPageWritten
        BY <1>6, <2>4, <3>2 DEF Dfu!PacketDone, Dfu!BytesReceived
      <4>2. HoldsImage(v)'  BY <3>1, <3>2, <4>1, FinalPlaced
      <4>3. QED  BY <3>1, <3>2, <4>2 DEF Faithful
    <3>3. CASE total # ImageSize
      <4>1. UNCHANGED <<flash, m_page_address, m_page_buff, m_page_buff_index>>
        BY <1>6, <2>4, <3>3 DEF Dfu!PacketDone, Dfu!BytesReceived
      <4>2. Placed(v, total)'  BY <3>1, <4>1 DEF Placed
      <4>3. total + 0 = total  BY <3>1
      <4>4. QED  BY <3>1, <3>3, <4>2, <4>3 DEF Faithful
    <3>4. QED  BY <3>2, <3>3
  <2>5. QED  BY <2>3, <2>4 DEF ByteLoop
<1>7. QED  BY <1>4, <1>5, <1>6 DEF StreamInv

(* The stream, step by step.                                               *)
LEMMA StreamKept ==
  ASSUME Typed, ProcInv, WorldInv, SessionInv, CandInv', StartInv, StreamInv,
         [Next]_vars
  PROVE  StreamInv'
<1>inv. LinkInv /\ CandInv  BY DEF WorldInv, SessionInv
<1> SUFFICES ASSUME c_state' \in Sent, m_dfu_state' = "ST_RX_DATA_PKT"
             PROVE  StreamInv'
  BY DEF StreamInv
<1>1. CASE HandleEvent
  <2>1. HandlingFrame /\ Handles /\ EventHandledIn /\ rx # None
          /\ Incoming # << >> /\ Incoming[1] = rx
    BY <1>1, EventHandled, HandleWorld
  <2>2. c_state \in Sent  BY <2>1 DEF EventHandledIn
  <2>3. CASE pc = "poll" /\ HandlesReceiveFw  BY <1>1, <2>2, <2>3, StreamBegins
  <2>4. CASE pc = "poll" /\ HandlesData  BY <1>1, <1>inv, <2>2, <2>4, StreamGoesOn
  <2>5. CASE ~(pc = "poll" /\ (HandlesReceiveFw \/ HandlesData))
    <3>1. /\ m_dfu_state = "ST_RX_DATA_PKT"
          /\ rx.what \notin Packets \cup {"VALIDATE"}
      BY <2>1, <2>5
      DEF Handles, HandlesRestart, HandlesSize, HandlesInit, HandlesSysReset,
          HandlesReceiveInit, HandlesValidate, HandlesActivate, Ignores,
          Undisturbed, Restarts, Packets, ProcInv, HandlerInv
    <3>2. IsChunk(rx, version)
      BY <1>inv, <2>1, <2>2, <3>1, SessionItems
    <3>3. QED  BY <3>1, <3>2, ChunkIsData DEF Packets
  <2>6. QED  BY <2>3, <2>4, <2>5
<1>2. CASE ByteLoop /\ Stays
  BY <1>2, StreamStored DEF Stays
<1>3. CASE Restart  BY <1>3 DEF Restart, MemoryCleared
<1>4. CASE UNCHANGED dfuUntouched /\ Outside
  <2>1. m_dfu_state = "ST_RX_DATA_PKT"  BY <1>4 DEF dfuUntouched
  <2>2. Taken' = Taken /\ m_image_size' = m_image_size
    BY <1>4 DEF dfuUntouched, Taken
  <2>faithful. \A v : Faithful(v) => Faithful(v)'
    BY <1>4 DEF dfuUntouched, Faithful, Placed, HoldsImage
  <2>3. ASSUME c_state \in Sent, Due' = Due, version' = version PROVE StreamInv'
    <3>1. PICK v : v = version  OBVIOUS
    <3>2. /\ Taken >= Due
          /\ Taken > Due => m_image_size \in {0, ImageSize}
          /\ Taken = Due /\ m_image_size = ImageSize => Faithful(v)
      BY <2>1, <2>3, <3>1 DEF StreamInv
    <3>3. Faithful(v) => Faithful(v)'  BY <2>faithful
    <3>4. QED  BY <2>2, <2>3, <3>1, <3>2, <3>3 DEF StreamInv
  <2>4. CASE Stays
    BY <2>3, <2>4 DEF Stays, Due
  <2>5. CASE SessionEnds \/ IsHandedOver \/ Connects \/ GivesUp
    BY <2>5 DEF SessionEnds, IsHandedOver, Connects, GivesUp, Sent
  <2>6. ASSUME NEW m \in Message, Sends(m) PROVE StreamInv'
    <3>1. Incoming \in Seq(Message) /\ Incoming' = Append(Incoming, m)
      BY <2>6, TypedWorld DEF WorldTyped, Sends
    <3>2. m.what # "RECEIVE_FW"
      <4> SUFFICES ASSUME m.what = "RECEIVE_FW" PROVE FALSE
        OBVIOUS
      <4>1. Coming({"RECEIVE_FW"})'  BY <3>1, AnyAppend DEF Coming
      <4>2. Candidate'  BY <4>1 DEF Candidate
      <4>3. QED  BY <4>2 DEF CandInv
    <3>3. \/ /\ c_state = "streaming" /\ m = DataMsg(version, c_pos)
          \/ /\ c_state = "sent_all" /\ m.what = "VALIDATE" /\ c_pos' = c_pos
      BY <2>6, <3>2 DEF Sends, Exchanged, Sent
    <3>4. c_state \in Sent /\ version' = version  BY <2>6, <3>3 DEF Sent, Sends
    <3>5. Due' = Due
      <4>1. CASE Incoming = << >>
        <5>1. Incoming' # << >> /\ Incoming'[1] = m
          <6>1. Len(Incoming) = 0  BY <4>1
          <6>2. Len(Incoming') = 1 /\ Incoming'[1] = m
            BY <3>1, <6>1, AppendItems
          <6>3. Len(Incoming') # 0  BY <6>2
          <6>4. QED  BY <6>2, <6>3
        <5>2. Due = c_pos  BY <4>1 DEF Due, NextFrom
        <5>3. CASE c_state = "streaming" /\ m = DataMsg(version, c_pos)
          <6>1. c_pos \in 0..ImageSize - 1 /\ version \in Versions
            BY <5>3, TypedWorld DEF WorldTyped, WorldInv, PosInv
          <6>2. IsChunk(m, version) /\ From(m, version) = c_pos
            BY <5>3, <6>1, ChunkAt
          <6>3. QED  BY <3>4, <5>1, <5>2, <6>2 DEF Due, NextFrom
        <5>4. CASE m.what = "VALIDATE" /\ c_pos' = c_pos
          BY <3>4, <5>1, <5>2, <5>4, ChunkIsData DEF Due, NextFrom
        <5>5. QED  BY <3>3, <5>3, <5>4
      <4>2. CASE Incoming # << >>
        <5>1. Incoming' # << >> /\ Incoming'[1] = Incoming[1]
          <6>1. Len(Incoming) \in Nat \ {0}  BY <3>1, <4>2, TailItems
          <6>2. Len(Incoming') = Len(Incoming) + 1 /\ Incoming'[1] = Incoming[1]
            BY <3>1, <6>1, AppendItems
          <6>3. Len(Incoming') # 0  BY <6>1, <6>2
          <6>4. QED  BY <6>2, <6>3
        <5>2. IsChunk(Incoming[1], version)
          <6>1. Incoming[1].what # "VALIDATE"
            <7>1. ~Any(Incoming, {"VALIDATE"})
              BY <3>3 DEF WorldInv, OrderInv, Coming
            <7>2. QED  BY <3>1, <4>2, <7>1, AnyTail
          <6>2. QED  BY <1>inv, <2>1, <3>4, <4>2, <6>1, SessionItems
        <5>3. PICK v : v = version  OBVIOUS
        <5>4. Due = From(Incoming[1], v)  BY <4>2, <5>2, <5>3 DEF Due, NextFrom
        <5>5. Due' = From(Incoming[1], v)
          BY <3>4, <5>1, <5>2, <5>3 DEF Due, NextFrom
        <5>6. QED  BY <5>4, <5>5
      <4>3. QED  BY <4>1, <4>2
    <3>6. QED  BY <2>3, <3>4, <3>5
  <2>7. QED  BY <1>4, <2>4, <2>5, <2>6 DEF Outside
<1>5. QED  BY <1>inv, <1>1, <1>2, <1>3, <1>4, EveryStep

(* A response is the answer to what the session asked.                     *)
LEMMA OkKept ==
  ASSUME Typed, ProcInv, WorldInv, OkInv, [Next]_vars
  PROVE  OkInv'
<1> DEFINE Asked(st) ==
             st \in {"validating", "activated", "gave_up", "reset_sent", "away"}
           Goal == Asked(c_state') /\ link' # "advertising"
<1>inv. LinkInv /\ HeavyInv /\ OrderInv  BY DEF WorldInv
<1>ok. Told("validate_ok") => Asked(c_state) /\ link # "advertising"
  BY DEF OkInv
<1> SUFFICES ASSUME Told("validate_ok")' PROVE Goal
  BY DEF OkInv
<1>same. ASSUME EventHandledIn, ~Sending("validate_ok")' PROVE Goal
  <2>1. Told("validate_ok")  BY <1>same DEF EventHandledIn, Told
  <2>2. QED  BY <1>same, <1>ok, <2>1 DEF EventHandledIn
<1>stays. ASSUME Stays PROVE Goal
  <2>1. Told("validate_ok") /\ UNCHANGED c_state  BY <1>stays DEF Stays, Quieter
  <2>2. CASE UNCHANGED link  BY <1>ok, <2>1, <2>2
  <2>3. CASE Sending("connect") /\ link = "standby"
    <3>1. ~Sending("validate_ok")  BY <2>3 DEF Sending
    <3>2. to_central = << >>  BY <1>inv, <2>3 DEF LinkInv
    <3>3. QED  BY <2>1, <3>1, <3>2 DEF Told
  <2>4. QED  BY <1>stays, <2>2, <2>3 DEF Stays
<1>ends. ASSUME SessionEnds PROVE Goal
  BY <1>ends DEF SessionEnds
<1>1. ASSUME HandleEvent PROVE Goal
  <2>1. HandlingFrame /\ Handles /\ EventHandledIn
        /\ Incoming # << >> /\ Incoming[1] = rx
    BY <1>1, EventHandled, HandleWorld
  <2>2. CASE HandlesValidate
    <3>1. Incoming \in Seq(Message)  BY TypedWorld DEF WorldTyped
    <3>2. Coming({"VALIDATE"}) /\ Coming(Heavy)
      BY <2>1, <2>2, <3>1, AnyTail DEF HandlesValidate, Coming, Heavy
    <3>3. Asked(c_state) /\ link # "advertising"
      BY <1>inv, <3>2 DEF OrderInv, HeavyInv
    <3>4. QED  BY <2>1, <3>3 DEF EventHandledIn
  <2>3. CASE ~HandlesValidate
    <3>1. ~Sending("validate_ok")'
      BY <2>1, <2>3
      DEF Handles, HandlesRestart, HandlesSize, HandlesInit, HandlesData,
          HandlesSysReset, HandlesReceiveInit, HandlesReceiveFw,
          HandlesActivate, Ignores, Sending, Single, Dfu!Cmd, Connect
    <3>2. QED  BY <1>same, <2>1, <3>1
  <2>4. QED  BY <2>2, <2>3
<1>2. ASSUME Restart PROVE Goal
  <2>1. ~Sending("validate_ok")'  BY <1>2 DEF Restart, MemoryCleared, Sending
  <2>2. QED  BY <1>2, <1>same, <1>stays, <1>ends, <2>1 DEF Restart
<1>3. ASSUME Outside PROVE Goal
  <2>1. CASE IsHandedOver  BY <2>1 DEF IsHandedOver
  <2>2. CASE Connects
    BY <1>ok, <2>2 DEF Connects, Quieter
  <2>3. ASSUME NEW m \in Message, Sends(m) PROVE Goal
    BY <1>ok, <2>3 DEF Sends, Exchanged, Quieter
  <2>4. CASE GivesUp
    BY <1>ok, <2>4 DEF GivesUp, Quieter
  <2>5. QED  BY <1>3, <1>stays, <1>ends, <2>1, <2>2, <2>3, <2>4 DEF Outside
<1>4. QED  BY <1>inv, <1>1, <1>2, <1>3, <1>stays, EveryStep

(* A validation that succeeds finds the image in flash.                    *)
LEMMA ValidatedHolds ==
  ASSUME Typed, ProcInv, WorldInv, CandInv, StreamInv, HandleEvent, pc = "poll",
         HandlesValidate, Dfu!Complete, c_state = "validating"
  PROVE  HoldsImage(version) /\ Incoming' = << >>
<1>1. HandlingFrame /\ EventHandledIn /\ rx # None
        /\ Incoming # << >> /\ Incoming[1] = rx
  BY EventHandled, HandleWorld
<1>2. /\ m_dfu_state = "ST_RX_DATA_PKT"
      /\ Incoming[1].what = "VALIDATE"
      /\ c_state \in Sent
  BY <1>1 DEF HandlesValidate, Sent
<1>3. Len(Incoming) = 1  BY <1>1, <1>2, SessionItems
<1>4. Incoming' = << >>
  <2>1. Incoming \in Seq(Message) /\ Incoming' = Tail(Incoming)
    BY <1>1, TypedWorld DEF WorldTyped, EventHandledIn
  <2>2. Incoming' \in Seq(Message) /\ Len(Incoming') = 0
    BY <1>1, <1>3, <2>1, TailItems
  <2>3. QED  BY <2>2, EmptySeq
<1>5. Due = ImageSize
  <2>1. ~IsChunk(Incoming[1], version)  BY <1>2, ChunkIsData
  <2>2. c_pos = ImageSize  BY DEF WorldInv, PosInv
  <2>3. QED  BY <2>1, <2>2 DEF Due, NextFrom
<1>6. /\ Taken = m_num_of_firmware_bytes_rcvd
      /\ m_num_of_firmware_bytes_rcvd = m_image_size
      /\ m_num_of_firmware_bytes_rcvd \in Nat
      /\ ImageSize \in Nat \ {0}
  <2>1. Len(packet) = 0  BY DEF ProcInv, HandlerInv
  <2>2. QED  BY <2>1, DueTyped DEF Taken, Dfu!Complete
<1>7. /\ Taken >= Due
      /\ Taken > Due => m_image_size \in {0, ImageSize}
      /\ Taken = Due /\ m_image_size = ImageSize => Faithful(version)
  BY <1>2 DEF StreamInv
<1>8. Taken = Due /\ m_image_size = ImageSize  BY <1>5, <1>6, <1>7
<1>9. HoldsImage(version)  BY <1>6, <1>7, <1>8 DEF Faithful
<1>10. QED  BY <1>4, <1>9

(* Once central has been told, nothing writes to flash.                    *)
LEMMA SettledKept ==
  ASSUME Typed, ProcInv, WorldInv, SessionInv, StreamInv, OkInv, SettledInv,
         [Next]_vars
  PROVE  SettledInv'
<1> DEFINE Writes == {"RECEIVE_FW", "VALIDATE"}
<1>inv. LinkInv /\ HeavyInv /\ OrderInv /\ CandInv  BY DEF WorldInv, SessionInv
<1>typed. Incoming \in Seq(Message)  BY TypedWorld DEF WorldTyped
<1> SUFFICES ASSUME Vouched' PROVE Settled'
  BY DEF SettledInv
<1>lasts. ASSUME Vouched, UNCHANGED <<flash, version>>,
                 m_dfu_state' # "ST_RX_DATA_PKT" \/ m_dfu_state' = m_dfu_state,
                 ~Coming(Writes)'
          PROVE  Settled'
  <2>1. Settled  BY <1>lasts DEF SettledInv
  <2>2. PICK v : v = version  OBVIOUS
  <2>3. HoldsImage(v)'  BY <1>lasts, <2>1, <2>2 DEF Settled, HoldsImage
  <2>4. QED  BY <1>lasts, <2>1, <2>2, <2>3 DEF Settled
<1>tail. EventHandledIn /\ Vouched => ~Coming(Writes)'
  BY <1>typed, AnyTail DEF EventHandledIn, SettledInv, Settled, Coming
<1>ends. ASSUME SessionEnds PROVE Vouched /\ ~Coming(Writes)'
  <2>1. {"ACTIVATE"} \cap Notices = {} /\ Writes \cap Notices = {}
    BY DEF Notices
  <2>2. /\ Any(Incoming', {"ACTIVATE"}) => Any(Incoming, {"ACTIVATE"})
        /\ Any(Incoming', Writes) => Any(Incoming, Writes)
    BY <1>typed, <1>ends, <2>1, EndedItems
  <2>3. Vouched  BY <1>ends, <2>2 DEF SessionEnds, Vouched, Coming
  <2>4. QED  BY <2>2, <2>3 DEF SettledInv, Settled, Coming
<1>stays. ASSUME Stays PROVE Vouched /\ ~Coming(Writes)'
  <2>1. Vouched  BY <1>stays DEF Stays, Quieter, Vouched, Coming
  <2>2. QED  BY <1>stays, <2>1 DEF Stays, SettledInv, Settled, Coming
<1>1. ASSUME HandleEvent PROVE Settled'
  <2>1. HandlingFrame /\ Handles /\ EventHandledIn
        /\ Incoming # << >> /\ Incoming[1] = rx
    BY <1>1, EventHandled, HandleWorld
  <2>2. UNCHANGED <<flash, version, c_state, to_central>>
    BY <2>1 DEF HandlingFrame, EventHandledIn
  <2>3. CASE Vouched
    <3>1. rx.what # "RECEIVE_FW"
      <4>1. ~Any(Incoming, Writes)
        BY <2>3 DEF SettledInv, Settled, Coming
      <4>2. Incoming[1].what \notin Writes  BY <1>typed, <2>1, <4>1, AnyTail
      <4>3. QED  BY <2>1, <4>2
    <3>2. m_dfu_state' # "ST_RX_DATA_PKT" \/ m_dfu_state' = m_dfu_state
      BY <2>1, <3>1
      DEF Handles, HandlesRestart, HandlesSize, HandlesInit, HandlesData,
          HandlesSysReset, HandlesReceiveInit, HandlesReceiveFw, HandlesValidate,
          HandlesActivate, Ignores, Undisturbed
    <3>3. QED  BY <1>lasts, <1>tail, <2>1, <2>2, <2>3, <3>2
  <2>4. CASE ~Vouched
    <3>1. ~Coming({"ACTIVATE"})'
      BY <1>typed, <2>1, <2>4, AnyTail DEF EventHandledIn, Vouched, Coming
    <3>2. c_state = "validating" /\ Told("validate_ok")' /\ ~Told("validate_ok")
      BY <2>2, <2>4, <3>1 DEF Vouched
    <3>3. Sending("validate_ok")'  BY <2>2, <3>2 DEF Told
    <3>4. pc = "poll" /\ HandlesValidate /\ Dfu!Complete
      BY <2>1, <3>3
      DEF Handles, HandlesRestart, HandlesSize, HandlesInit, HandlesData,
          HandlesSysReset, HandlesReceiveInit, HandlesReceiveFw, HandlesValidate,
          HandlesActivate, Ignores, Sending, Single, Dfu!Cmd, Connect
    <3>5. HoldsImage(version) /\ Incoming' = << >>
      BY <1>1, <1>inv, <3>2, <3>4, ValidatedHolds
    <3>6. ~Coming(Writes)'  BY <3>5, AnyEmpty DEF Coming
    <3>7. PICK v : v = version  OBVIOUS
    <3>8. HoldsImage(v)'  BY <2>2, <3>5, <3>7 DEF HoldsImage
    <3>9. m_dfu_state' = "ST_FW_VALID"  BY <3>4 DEF HandlesValidate
    <3>10. QED  BY <2>2, <3>6, <3>7, <3>8, <3>9 DEF Settled
  <2>5. QED  BY <2>3, <2>4
<1>2. ASSUME ByteLoop, Stays PROVE Settled'
  <2>1. m_dfu_state = "ST_RX_DATA_PKT"
    BY <1>2 DEF ByteLoop, Dfu!StoreByte, Dfu!PacketDone, ProcInv, HandlerInv
  <2>2. QED  BY <1>2, <1>stays, <2>1 DEF SettledInv, Settled
<1>3. ASSUME Restart PROVE Settled'
  <2>1. UNCHANGED <<flash, version>> /\ m_dfu_state' = "ST_IDLE" /\ tx_queue' = << >>
    BY <1>3 DEF Restart, MemoryCleared, EventHandledIn, Stays, SessionEnds
  <2>2. Vouched /\ ~Coming(Writes)'
    <3>1. EventHandledIn => Vouched
      <4> SUFFICES ASSUME EventHandledIn PROVE Vouched
        OBVIOUS
      <4>1. Coming({"ACTIVATE"})' => Coming({"ACTIVATE"})
        BY <1>typed, AnyTail DEF EventHandledIn, Coming
      <4>2. Told("validate_ok")' => Told("validate_ok")
        BY <2>1 DEF EventHandledIn, Told, Sending
      <4>3. QED  BY <4>1, <4>2 DEF EventHandledIn, Vouched
    <3>2. QED  BY <1>3, <1>tail, <1>stays, <1>ends, <3>1 DEF Restart
  <2>3. QED  BY <1>lasts, <2>1, <2>2
<1>4. ASSUME UNCHANGED dfuUntouched, Outside PROVE Settled'
  <2>1. UNCHANGED <<flash, m_dfu_state>>  BY <1>4 DEF dfuUntouched
  <2>2. CASE Stays  BY <1>lasts, <1>stays, <2>1, <2>2 DEF Stays
  <2>3. CASE SessionEnds  BY <1>lasts, <1>ends, <2>1, <2>3 DEF SessionEnds
  <2>4. CASE IsHandedOver
    BY <2>4, AnyEmpty DEF IsHandedOver, Vouched, Coming
  <2>5. CASE Connects
    <3>1. /\ Event("connected") \in Message
          /\ Event("connected").what \notin {"ACTIVATE"}
      BY PlainMessage DEF Messages, Event
    <3>2. ~Any(Incoming, {"ACTIVATE"})
      <4>1. ~Any(Incoming, Heavy)  BY <1>inv, <2>5 DEF Connects, HeavyInv, Coming
      <4>2. QED  BY <4>1 DEF Any, Heavy
    <3>3. ~Any(Incoming', {"ACTIVATE"})
      BY <1>typed, <2>5, <3>1, <3>2, AnyAppend DEF Connects
    <3>4. QED  BY <2>5, <3>3 DEF Connects, Vouched, Coming
  <2>6. ASSUME NEW m \in Message, Sends(m) PROVE Settled'
    <3>1. /\ Exchanged(m) /\ Quieter /\ UNCHANGED version
          /\ Incoming' = Append(Incoming, m)
      BY <2>6 DEF Sends
    <3>2. DataMsg(version, c_pos).what = "data"  BY DEF DataMsg
    <3>3. CASE c_state = "validating" /\ Told("validate_ok") /\ m.what = "ACTIVATE"
      <4>1. Vouched  BY <3>3 DEF Vouched
      <4>2. ~Coming(Writes)'
        BY <1>typed, <3>1, <3>3, <4>1, AnyAppend DEF SettledInv, Settled, Coming
      <4>3. QED  BY <1>lasts, <2>1, <3>1, <4>1, <4>2
    <3>4. CASE ~(c_state = "validating" /\ Told("validate_ok") /\ m.what = "ACTIVATE")
      <4>1. m.what # "ACTIVATE" /\ c_state \notin {"activated", "away"}
            /\ c_state' # "activated"
        BY <3>1, <3>2, <3>4 DEF Exchanged
      <4>2. ~Coming({"ACTIVATE"})  BY <1>inv, <4>1 DEF OrderInv
      <4>3. ~Coming({"ACTIVATE"})'
        BY <1>typed, <3>1, <4>1, <4>2, AnyAppend DEF Coming
      <4>4. c_state' = "validating" /\ Told("validate_ok")
        BY <3>1, <4>1, <4>3 DEF Vouched, Quieter
      <4>5. c_state = "sent_all"  BY <3>1, <4>4 DEF Exchanged
      <4>6. QED  BY <4>4, <4>5 DEF OkInv
    <3>5. QED  BY <3>3, <3>4
  <2>7. CASE GivesUp
    <3>1. ~Coming({"ACTIVATE"})  BY <1>inv, <2>7 DEF GivesUp, OrderInv
    <3>2. QED  BY <2>7, <3>1 DEF GivesUp, Vouched, Coming
  <2>8. QED  BY <1>4, <2>2, <2>3, <2>4, <2>5, <2>6, <2>7 DEF Outside
<1>5. QED  BY <1>inv, <1>1, <1>2, <1>3, <1>4, EveryStep

(* At first nothing has been sent or stored.                               *)
LEMMA InitFlashInv == Init => FlashInv
<1> SUFFICES ASSUME Init PROVE FlashInv
  OBVIOUS
<1>1. /\ rx = None /\ to_mcu = << >> /\ tx_queue = << >> /\ to_central = << >>
      /\ c_state = "away" /\ m_dfu_state = "ST_IDLE" /\ pc = "poll"
      /\ m_page_address = 0 /\ m_page_buff_index = 0
  BY DEF Init, Dfu!Init
<1>2. ~Coming({"ACTIVATE"})  BY <1>1, AnyEmpty DEF Incoming, Coming
<1>3. ~Told("validate_ok")  BY <1>1 DEF Told, Sending
<1>4. QED
  BY <1>1, <1>2, <1>3
  DEF FlashInv, StartInv, StreamInv, OkInv, SettledInv, Vouched, Sent

(* Step by step.                                                           *)
LEMMA StepFlashInv ==
  ASSUME Typed, ProcInv, WorldInv, SessionInv, FlashInv, [Next]_vars
  PROVE  FlashInv'
<1>1. /\ StartInv /\ StreamInv /\ OkInv /\ SettledInv
      /\ LinkInv /\ OrderInv
  BY DEF FlashInv, WorldInv
<1>2. StartInv'  BY <1>1, StartKept
<1>3. CandInv'
  <2>1. SessionInv'  BY StepSessionInv
  <2>2. QED  BY <2>1 DEF SessionInv
<1>4. StreamInv'  BY <1>1, <1>3, StreamKept
<1>5. OkInv'  BY <1>1, OkKept
<1>6. SettledInv'  BY <1>1, SettledKept
<1>7. QED  BY <1>2, <1>4, <1>5, <1>6 DEF FlashInv

-----------------------------------------------------------------------------
(***************************************************************************)
(* The device as a whole.                                                  *)
(***************************************************************************)
TrustInv ==
  /\ WorldInv
  /\ SessionInv
  /\ FlashInv

DeviceInv ==
  /\ Typed
  /\ ProcInv
  /\ ~misled => TrustInv

(* Who was misled stays misled.                                            *)
LEMMA MisledStays ==
  ASSUME Typed, [Next]_vars, misled
  PROVE  misled'
<1>frame. ASSUME UNCHANGED misled PROVE misled'  BY <1>frame
<1>1. CASE Exchange \/ FetchEvent
  BY <1>1, <1>frame DEF Exchange, FetchEvent, centralVars
<1>2. CASE Central
  BY <1>2, <1>frame
  DEF Central, CConnect, CResets, CSendsSize, CReceiveInit, CSendsInit, CReceiveFw,
      CSendsChunk, CValidates, CActivates, CGivesUp, Unprompted, InReply
<1>3. CASE Next /\ ~Central /\ ~Exchange /\ ~FetchEvent
  BY <1>3, <1>frame
  DEF Next, Processor, JumpToApp, StayInBootloader, MainStarts, HandleEvent,
      ByteLoop, Watchdog, PowerCycle, RadioStarts, AppFails, AppHandsOver,
      LinkEnds, centralVars
<1>4. CASE UNCHANGED vars  BY <1>4, <1>frame DEF vars, centralVars
<1>5. QED  BY <1>1, <1>2, <1>3, <1>4

(* It is an invariant of every behaviour.                                  *)
THEOREM DeviceInvHolds == Spec => []DeviceInv
<1>1. Init => DeviceInv
  BY InitTyped, InitProcInv, InitWorldInv, InitSessionInv, InitFlashInv
  DEF DeviceInv, TrustInv
<1>2. DeviceInv /\ [Next]_vars => DeviceInv'
  <2> SUFFICES ASSUME DeviceInv, [Next]_vars PROVE DeviceInv'
    OBVIOUS
  <2>1. Typed /\ ProcInv  BY DEF DeviceInv
  <2>2. Typed'  BY <2>1, StepTyped
  <2>3. ProcInv'  BY <2>1, StepProcInv
  <2>4. ASSUME ~misled' PROVE TrustInv'
    <3>1. ~misled  BY <2>1, <2>4, MisledStays
    <3>2. WorldInv /\ SessionInv /\ FlashInv  BY <3>1 DEF DeviceInv, TrustInv
    <3>3. WorldInv'  BY <2>1, <2>4, <3>2, StepWorldInv
    <3>4. SessionInv'  BY <2>1, <3>2, StepSessionInv
    <3>5. FlashInv'  BY <2>1, <3>2, StepFlashInv
    <3>6. QED  BY <3>3, <3>4, <3>5 DEF TrustInv
  <2>5. QED  BY <2>2, <2>3, <2>4 DEF DeviceInv
<1>3. QED  BY <1>1, <1>2, PTL DEF Spec

(* A central that is told, in its session, that its image was validated     *)
(* can rely on it, whatever earlier sessions left behind and however many   *)
(* events the radio holds, as long as no central ever went on, in reply,    *)
(* while the bootloader lagged behind (dfu_image_validate, dfu_reset,       *)
(* ble_update).                                                            *)
THEOREM ValidatedImageIsInFlash == Spec => []ValidatedIsInFlash
<1>1. DeviceInv => ValidatedIsInFlash
  <2> SUFFICES ASSUME DeviceInv, ~misled,
                      c_state = "activated" \/ (c_state = "validating" /\ Answered)
               PROVE  HoldsImage(version)
    BY DEF ValidatedIsInFlash, ToldIsInFlash
  <2>1. c_state = "validating" /\ Answered => Told("validate_ok")
    <3> SUFFICES ASSUME c_state = "validating", Answered PROVE Told("validate_ok")
      OBVIOUS
    <3>1. to_central # << >> /\ Head(to_central) = "validate_ok"
      BY DEF Answered, Awaiting
    <3>2. to_central \in Seq(Dfu!Kinds)  BY DEF DeviceInv, Typed, CentralTyped
    <3>3. Len(to_central) \in Nat \ {0} /\ to_central[1] = "validate_ok"
      BY <3>1, <3>2, EmptySeq, HeadTailProperties
    <3>4. QED  BY <3>3 DEF Told
  <2>2. Vouched  BY <2>1 DEF Vouched
  <2>3. QED  BY <2>2 DEF DeviceInv, TrustInv, FlashInv, SettledInv, Settled
<1>2. QED  BY <1>1, DeviceInvHolds, PTL

-----------------------------------------------------------------------------
(***************************************************************************)
(* The owner's view.                                                       *)
(***************************************************************************)
(* What is in flash is told from the cells; an image that is all there is   *)
(* one of the applications, and broken is not the same as none.            *)
LEMMA ImageTold ==
  /\ flash' = flash => ImageInFlash' = ImageInFlash
  /\ \A v \in Versions : HoldsImage(v) => ImageInFlash \in Versions \cup {0}
  /\ ImageInFlash # None
<1> DEFINE OldIn(f) == \A p \in 0..OldSize - 1 : f[p] = Dfu!Old
           ImageIn(f, v) == \A p \in 0..ImageSize - 1 : f[p] = v * Stride + p
           Told1(f) == IF OldIn(f) THEN 0
                       ELSE IF \E v \in Versions : ImageIn(f, v)
                         THEN CHOOSE v \in Versions : ImageIn(f, v)
                         ELSE Broken
<1>1. ImageInFlash = Told1(flash)
  BY DEF ImageInFlash, HoldsOld, HoldsImage
<1>2. ImageInFlash' = Told1(flash')
  BY DEF ImageInFlash, HoldsOld, HoldsImage
<1>3. flash' = flash => ImageInFlash' = ImageInFlash
  <2> HIDE DEF Told1
  <2>1. QED  BY <1>1, <1>2
<1>4. ASSUME \E v \in Versions : HoldsImage(v)
      PROVE  (CHOOSE v \in Versions : HoldsImage(v)) \in Versions
  BY <1>4
<1>5. (\E v \in Versions : HoldsImage(v)) => ImageInFlash \in Versions \cup {0}
  BY <1>4 DEF ImageInFlash
<1>6. ImageInFlash \in Versions \cup {0, Broken}
  BY <1>4 DEF ImageInFlash
<1>7. ImageInFlash # None
  <2>1. Versions \subseteq Int /\ None \notin Int /\ Broken \in Int  BY DEF Broken
  <2>2. QED  BY <1>6, <2>1
<1>8. QED  BY <1>3, <1>5, <1>7

(* Only jump_check starts the application, with the flag set.              *)
LEMMA OnlyJumpStarts ==
  ASSUME Typed, [Next]_vars, mode # "app", mode' = "app"
  PROVE  JumpToApp
<1>1. ~Central  BY CentralTypedStep DEF cpuVars
<1>2. CASE Processor
  BY <1>2
  DEF Processor, StayInBootloader, MainStarts, Exchange, FetchEvent, HandleEvent,
      WaitDisconnected, ByteLoop, cpuVars
<1>3. CASE Next /\ ~Processor
  BY <1>1, <1>3
  DEF Next, Watchdog, PowerCycle, RadioStarts, AppFails, AppHandsOver,
      AppResets, LinkEnds, cpuVars
<1>4. QED  BY <1>2, <1>3 DEF vars, cpuVars

(* A step of the device is one of the owner's view, or none, but for what a *)
(* misled central makes it do.                                             *)
LEMMA OwnerStep ==
  ASSUME DeviceInv, ~misled', [Next]_vars
  PROVE  [Owner!Next]_(Owner!vars)
<1> DEFINE in == IF valid_app THEN ImageInFlash ELSE None
           up == IF mode = "app" THEN ImageInFlash ELSE None
           Goal == [Owner!Next]_(Owner!vars)
<1>inv. /\ Typed /\ ProcInv /\ LinkInv /\ FlagInv /\ SettledInv
        /\ Incoming \in Seq(Message)
        /\ valid_app \in BOOLEAN /\ valid_app' \in BOOLEAN
  <2>1. Typed /\ ProcInv  BY DEF DeviceInv
  <2>2. Typed'  BY <2>1, StepTyped
  <2>3. Incoming \in Seq(Message)  BY <2>1, TypedWorld DEF WorldTyped
  <2>4. valid_app \in BOOLEAN  BY <2>1 DEF Typed, CpuTyped
  <2>5. valid_app' \in BOOLEAN  BY <2>2 DEF Typed, CpuTyped
  <2>6. ~misled  BY <2>1, MisledStays
  <2>7. QED
    BY <2>1, <2>3, <2>4, <2>5, <2>6
    DEF DeviceInv, TrustInv, WorldInv, SessionInv, FlashInv
<1>stutter. in' = in /\ up' = up => Goal  BY DEF Owner!vars
<1>discard. in # None /\ in' = None /\ up = None /\ up' = None => Goal
  BY DEF Owner!Next, Owner!Discard
<1>install. in = None /\ in' \in Versions \cup {0} /\ up' = up => Goal
  BY DEF Owner!Next, Owner!Install
<1>start. in # None /\ in' = in /\ up' = in => Goal
  BY DEF Owner!Next, Owner!Start
<1>stop. up # None /\ in' = in /\ up' = None => Goal
  BY DEF Owner!Next, Owner!Stop
<1>image. /\ flash' = flash => ImageInFlash' = ImageInFlash
          /\ \A v \in Versions : HoldsImage(v) => ImageInFlash \in Versions \cup {0}
          /\ ImageInFlash # None
  BY ImageTold
<1>1. ASSUME HandleEvent PROVE Goal
  <2>1. HandlingFrame /\ Handles  BY <1>inv, <1>1, EventHandled
  <2>2. /\ mode = "boot" /\ mode' = "boot" /\ flash' = flash
        /\ up = None /\ up' = None
    BY <2>1 DEF HandlingFrame, cpuVars
  <2>3. CASE UNCHANGED valid_app
    BY <1>stutter, <1>image, <2>2, <2>3
  <2>4. CASE HandlesReceiveFw
    BY <1>inv, <1>stutter, <1>discard, <1>image, <2>2, <2>4 DEF HandlesReceiveFw
  <2>5. CASE pc = "poll" /\ HandlesActivate
    <3>1. ~valid_app /\ valid_app'
      BY <1>inv, <2>5 DEF HandlesActivate, FlagInv
    <3>2. HoldsImage(version)
      <4>1. Incoming # << >> /\ Incoming[1] = rx  BY <1>inv, <1>1, HandleWorld
      <4>2. Coming({"ACTIVATE"})
        BY <1>inv, <2>5, <4>1, AnyTail DEF HandlesActivate, Coming
      <4>3. QED  BY <1>inv, <4>2 DEF SettledInv, Settled, Vouched
    <3>3. version \in Versions  BY <1>inv DEF Typed, CentralTyped
    <3>4. ImageInFlash' \in Versions \cup {0}
      BY <1>image, <2>2, <3>2, <3>3
    <3>5. QED  BY <1>install, <2>2, <3>1, <3>4
  <2>6. QED
    BY <2>1, <2>3, <2>4, <2>5
    DEF Handles, HandlesRestart, HandlesSize, HandlesInit, HandlesData,
        HandlesSysReset, HandlesReceiveInit, HandlesValidate, Ignores, Undisturbed
<1>2. ASSUME ByteLoop PROVE Goal
  <2>1. /\ pc = "data" /\ m_dfu_state = "ST_RX_DATA_PKT" /\ UNCHANGED valid_app
        /\ mode = "boot" /\ mode' = "boot"
    BY <1>inv, <1>2
    DEF ByteLoop, Dfu!StoreByte, Dfu!PacketDone, ProcInv, HandlerInv, cpuVars
  <2>2. ~valid_app  BY <1>inv, <2>1 DEF FlagInv
  <2>3. QED  BY <1>stutter, <2>1, <2>2
<1>3. ASSUME UNCHANGED <<flash, valid_app>> PROVE Goal
  <2>1. ImageInFlash' = ImageInFlash /\ in' = in  BY <1>3, <1>image
  <2>2. CASE (mode = "app") <=> (mode' = "app")
    BY <1>stutter, <2>1, <2>2
  <2>3. CASE mode = "app" /\ mode' # "app"
    BY <1>stop, <1>image, <2>1, <2>3
  <2>4. CASE mode # "app" /\ mode' = "app"
    <3>1. JumpToApp  BY <1>inv, <2>4, OnlyJumpStarts
    <3>2. valid_app  BY <3>1 DEF JumpToApp, MayJump
    <3>3. QED  BY <1>start, <1>image, <2>1, <2>4, <3>2
  <2>5. QED  BY <2>2, <2>3, <2>4
<1>4. QED
  BY <1>inv, <1>1, <1>2, <1>3, EveryStep DEF Restart, MemoryCleared, dfuUntouched

(* The device implements the owner's view (Firmware.tla): through any       *)
(* sequence of resets, power losses, lost links and repeated updates, the   *)
(* flag declares one complete application or none, and what jump_check      *)
(* starts is the application so declared, as long as no central was misled. *)
THEOREM DeviceImplementsFirmware == Spec => RunsWhatIsInstalled
<1>1. Init => Owner!Init
  <2> SUFFICES ASSUME Init PROVE Owner!Init
    OBVIOUS
  <2>1. HoldsOld
    BY DEF Init, Dfu!Init, HoldsOld, Dfu!Old
  <2>2. ImageInFlash = 0  BY <2>1 DEF ImageInFlash
  <2>3. valid_app /\ mode # "app"  BY DEF Init
  <2>4. QED  BY <2>2, <2>3 DEF Owner!Init
<1>2. DeviceInv /\ [Next]_vars => [misled' \/ Owner!Next]_(Owner!vars)
  BY OwnerStep
<1>3. QED  BY <1>1, <1>2, DeviceInvHolds, PTL DEF Spec, RunsWhatIsInstalled

(* What the owner's view says is installed is never broken.                *)
Installed == IF valid_app THEN ImageInFlash ELSE None
TrashInv == Installed # Broken

(* What runs is never a partly overwritten application, unless a central    *)
(* was misled or the reset button is pressed, of which Spec knows nothing   *)
(* (dfu.c: "the currently loaded application will be trashed, and we should *)
(* disable jumping to application until we have verified the incoming       *)
(* firmware").                                                             *)
THEOREM TrashIsNeverRun == Spec => [](~misled => NeverRunsTrash)
<1>types. Broken \notin Versions \cup {0} /\ None # Broken
  BY DEF Broken
<1>1. Init => (~misled => TrashInv)
  <2> SUFFICES ASSUME Init PROVE TrashInv
    OBVIOUS
  <2>1. HoldsOld  BY DEF Init, Dfu!Init, HoldsOld, Dfu!Old
  <2>2. QED  BY <1>types, <2>1 DEF TrashInv, Installed, ImageInFlash
<1>2. DeviceInv /\ (~misled => TrashInv) /\ [Next]_vars => (~misled => TrashInv)'
  <2> SUFFICES ASSUME DeviceInv, ~misled => TrashInv, [Next]_vars, ~misled'
               PROVE  TrashInv'
    OBVIOUS
  <2>0. TrashInv  BY MisledStays DEF DeviceInv
  <2>1. [Owner!Next]_(Owner!vars)  BY OwnerStep
  <2>2. Installed' \in {Installed, None} \cup Versions \cup {0}
    BY <2>1
    DEF Installed, Owner!vars, Owner!Next, Owner!Discard, Owner!Install,
        Owner!Start, Owner!Stop
  <2>3. QED  BY <1>types, <2>0, <2>2 DEF TrashInv
<1>3. DeviceInv /\ (~misled => TrashInv) => (~misled => NeverRunsTrash)
  BY DEF DeviceInv, ProcInv, ModeInv, TrashInv, Installed, NeverRunsTrash
<1>4. QED  BY <1>1, <1>2, <1>3, DeviceInvHolds, PTL DEF Spec
=============================================================================
