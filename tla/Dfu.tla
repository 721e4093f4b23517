-------------------------------- MODULE Dfu --------------------------------
(***************************************************************************)
(* The DFU procedure (BLE/dfu.c): the state machine that dfu_update drives *)
(* from the packets and control opcodes of a BLE central, the assembly of  *)
(* firmware bytes into flash pages, the responses it queues for the radio, *)
(* and the EEPROM flag that declares the application valid.                *)
(*                                                                         *)
(* One action is one call of dfu_update, except that a firmware packet is  *)
(* handled in steps, one per byte, as the loop of dfu_data_pkt_handle      *)
(* does: a reset may strike between any two of them.                       *)
(*                                                                         *)
(* The central is arbitrary: any packet or opcode in any state.  A byte of *)
(* firmware is represented by a natural number; in Spec the k-th byte of   *)
(* the stream (counting from 0 since the reset) is the number k, so a cell *)
(* tells which byte it holds.                                              *)
(***************************************************************************)
EXTENDS QueueSend, FiniteSets

CONSTANTS PageSize,      \* SPM_PAGESIZE, in bytes
          FlashSize,     \* the flash, in bytes
          CreditWrap,    \* the number of values of a uint8_t
          TotalCredit,   \* data_credit_total
          ImageSizes,    \* the image sizes a central announces
          PacketLens,    \* the lengths of its firmware packets
          NotifTargets,  \* the notification intervals it asks for
          MaxBytes,      \* bound: firmware bytes accepted since the reset,
                         \* and the page address at which a packet is taken
          MaxInRadio     \* bound: data packets the radio holds at once

(* The number of values of m_page_buff_index, a uint8_t.  It is compared    *)
(* with SPM_PAGESIZE: a page of 256 bytes, which the larger parts of the    *)
(* family have, would never be seen as full.  Such parts are left out.     *)
IndexWrap == 256

ASSUME DfuAssumption ==
  /\ PageSize \in Nat \ {0} /\ PageSize % 2 = 0
  /\ PageSize < IndexWrap
  /\ FlashSize \in Nat \ {0} /\ FlashSize % PageSize = 0
  /\ QueueSize \in Nat \ {0}
  /\ CreditWrap \in Nat \ {0}
  /\ TotalCredit \in 0..CreditWrap - 1
  /\ ImageSizes \subseteq Nat
  /\ PacketLens \subseteq Nat
  /\ NotifTargets \subseteq Nat
  /\ MaxBytes \in Nat /\ MaxBytes < FlashSize
  /\ MaxInRadio \in Nat

VARIABLES
  m_dfu_state,
  m_image_size,
  m_pkt_notif_target,
  m_pkt_notif_target_cnt,
  m_num_of_firmware_bytes_rcvd,
  m_page_address,
  m_page_buff,
  m_page_buff_index,
  packet,                  \* the firmware packet being handled
  next_byte,               \* the loop index over its bytes
  pc,                      \* where the processor is, see PC below
  flash,
  valid_app,               \* the application flag in EEPROM
  tx_queue,                \* aci_tx_q, the commands that wait for the radio
  data_credit_available,
  tx_pipe_open,            \* the control point TX bit of pipes_open_bitmap
  in_radio                 \* data packets whose credit the radio still owes

dfuVars == <<m_dfu_state, m_image_size, m_pkt_notif_target,
             m_pkt_notif_target_cnt, m_num_of_firmware_bytes_rcvd>>
pageVars == <<m_page_address, m_page_buff, m_page_buff_index, flash>>
handlerVars == <<packet, next_byte>>
sendVars == <<tx_queue, data_credit_available>>
vars == <<dfuVars, pageVars, handlerVars, pc, valid_app, sendVars,
          tx_pipe_open, in_radio>>

-----------------------------------------------------------------------------
(* Flash cells.  Anything that is not one of these is a byte of firmware.  *)
Blank == -1    \* erased, 0xFF
Zero  == -2    \* 0x00, what the page buffer holds at start
Mixed == -3    \* two different bytes, both programmed without an erase
Old   == -4    \* a byte of what was in flash before the transfer

Cell == Nat \cup {Blank, Zero, Mixed, Old}

States == {"ST_IDLE", "ST_RDY", "ST_RX_INIT_PKT", "ST_RX_DATA_PKT", "ST_FW_VALID"}

(* "poll": in the loop over ble_update.  "data": in the byte loop of        *)
(* dfu_data_pkt_handle.  "activate", "radio_reset": in the endless loops of *)
(* dfu_image_activate and of dfu_reset.                                     *)
PC == {"poll", "data", "activate", "radio_reset"}

DataKinds == {"start_ok", "init_ok", "receive_ok", "validate_ok", "notif"}
Kinds == DataKinds \cup {"disconnect", "radio_reset"}
Command == [kind : Kinds, value : Nat]
Cmd(k) == [kind |-> k, value |-> 0]

-----------------------------------------------------------------------------
(* Self-programming.  The word address ignores bit 0, the page address the  *)
(* bits below the page and those beyond the flash.                          *)
PageBase(addr) == ((addr % FlashSize) \div PageSize) * PageSize
PageCells(addr) == PageBase(addr)..PageBase(addr) + PageSize - 1

(* Mutation: the page after the current one is erased in advance.          *)
ErasedAhead(f, addr) ==
  [a \in DOMAIN f |->
     IF a \in PageCells(addr) \cup PageCells(addr + PageSize) THEN Blank ELSE f[a]]

Erased(f, addr) == [a \in DOMAIN f |-> IF a \in PageCells(addr) THEN Blank ELSE f[a]]

(* Programming can only clear bits.                                        *)
Program(cell, byte) ==
  IF cell \in {Blank, byte} THEN byte
  ELSE IF Zero \in {cell, byte} THEN Zero ELSE Mixed

(* m_write_page fills the words of the temporary page from addr on, and     *)
(* writes the page that addr lies in: cell a gets the byte that was filled  *)
(* into its word.                                                           *)
FilledFrom(addr, a) == (a - ((addr \div 2) * 2)) % PageSize

PageWritten(f, addr, buff) ==
  [a \in DOMAIN f |-> IF a \in PageCells(addr)
                        THEN Program(f[a], buff[FilledFrom(addr, a)])
                        ELSE f[a]]

-----------------------------------------------------------------------------
Init ==
  /\ m_dfu_state = "ST_IDLE"
  /\ m_image_size = 0
  /\ m_pkt_notif_target = 0
  /\ m_pkt_notif_target_cnt = 0
  /\ m_num_of_firmware_bytes_rcvd = 0
  /\ m_page_address = 0
  /\ m_page_buff = [k \in 0..PageSize - 1 |-> Zero]
  /\ m_page_buff_index = 0
  /\ packet = << >>
  /\ next_byte = 0
  /\ pc = "poll"
  /\ flash = [a \in 0..FlashSize - 1 |-> Old]
  /\ valid_app \in BOOLEAN
  /\ tx_queue = << >>
  /\ data_credit_available = TotalCredit
  /\ tx_pipe_open = FALSE
  /\ in_radio = 0

(* Whether the command was queued: a refused one changes nothing.          *)
Queued == tx_queue' # tx_queue

(* Mutation: the credit counter does not wrap.                             *)
SendUnwrapped(cmd) ==
  /\ tx_queue' \in AfterSend(tx_queue, cmd)
  /\ data_credit_available' =
       IF Queued THEN data_credit_available - 1 ELSE data_credit_available

(* Mutation: a credit is charged whether or not the command was queued.    *)
SendAlwaysCharges(cmd) ==
  /\ tx_queue' \in AfterSend(tx_queue, cmd)
  /\ data_credit_available' = (data_credit_available - 1) % CreditWrap

(* m_send: the credit is decremented, never consulted, in a uint8_t.       *)
Send(cmd) ==
  /\ tx_queue' \in AfterSend(tx_queue, cmd)
  /\ data_credit_available' =
       IF Queued THEN (data_credit_available - 1) % CreditWrap
                 ELSE data_credit_available

-----------------------------------------------------------------------------
(* The first packet announces the image size.                              *)
ImageSizeSet(size) ==
  /\ pc = "poll"
  /\ m_dfu_state = "ST_IDLE"
  /\ tx_pipe_open' = TRUE
  /\ m_image_size' = size
  /\ Send(Cmd("start_ok"))
  /\ m_dfu_state' = "ST_RDY"
  /\ UNCHANGED <<m_pkt_notif_target, m_pkt_notif_target_cnt,
                 m_num_of_firmware_bytes_rcvd, pageVars, handlerVars, pc,
                 valid_app, in_radio>>

InitPacket ==
  /\ pc = "poll"
  /\ m_dfu_state = "ST_RX_INIT_PKT"
  /\ Send(Cmd("init_ok"))
  /\ UNCHANGED <<dfuVars, pageVars, handlerVars, pc, valid_app, tx_pipe_open,
                 in_radio>>

(* A receipt is reported every m_pkt_notif_target packets, with the count   *)
(* of bytes received before this one.                                       *)
NotifyReceipt ==
  \/ /\ m_pkt_notif_target = 0
     /\ UNCHANGED <<m_pkt_notif_target_cnt, sendVars>>
  \/ /\ m_pkt_notif_target # 0
     /\ m_pkt_notif_target_cnt # 1
     /\ m_pkt_notif_target_cnt' = m_pkt_notif_target_cnt - 1
     /\ UNCHANGED sendVars
  \/ /\ m_pkt_notif_target # 0
     /\ m_pkt_notif_target_cnt = 1
     /\ m_pkt_notif_target_cnt' = m_pkt_notif_target
     /\ Send([kind |-> "notif", value |-> m_num_of_firmware_bytes_rcvd])

DataPacket(bytes) ==
  /\ pc = "poll"
  /\ m_dfu_state = "ST_RX_DATA_PKT"
  /\ NotifyReceipt
  /\ packet' = bytes
  /\ next_byte' = 0
  /\ pc' = "data"
  /\ UNCHANGED <<m_dfu_state, m_image_size, m_pkt_notif_target,
                 m_num_of_firmware_bytes_rcvd, pageVars, valid_app,
                 tx_pipe_open, in_radio>>

(* Mutation: only the first byte of a packet can start a page.             *)
PageReadyPerPacket ==
  IF m_page_buff_index = 0 /\ next_byte = 0 THEN Erased(flash, m_page_address)
                                             ELSE flash

PageReady == IF m_page_buff_index = 0 THEN Erased(flash, m_page_address) ELSE flash

(* Mutation: the index is compared before it is incremented.               *)
PageFullLate == m_page_buff_index = PageSize

NextIndex == (m_page_buff_index + 1) % IndexWrap

PageFull == NextIndex = PageSize

(* One turn of the byte loop: a page is erased when its first byte arrives, *)
(* and written when its last one does.                                      *)
StoreByte ==
  LET buff == [m_page_buff EXCEPT ![m_page_buff_index] = packet[next_byte + 1]]
  IN /\ pc = "data"
     /\ next_byte < Len(packet)
     /\ m_page_buff' = buff
     /\ next_byte' = next_byte + 1
     /\ IF PageFull
          THEN /\ m_page_buff_index' = 0
               /\ flash' = PageWritten(PageReady, m_page_address, buff)
               /\ m_page_address' = m_page_address + PageSize
          ELSE /\ m_page_buff_index' = NextIndex
               /\ flash' = PageReady
               /\ UNCHANGED m_page_address
     /\ UNCHANGED <<dfuVars, packet, pc, valid_app, sendVars, tx_pipe_open,
                    in_radio>>

BytesReceived == m_num_of_firmware_bytes_rcvd + Len(packet)

(* Mutation: the last bytes are left in the buffer.                        *)
FinalPageForgotten == flash

FinalPageWritten == PageWritten(flash, m_page_address, m_page_buff)

(* After the loop: when the count reaches the image size, what the buffer   *)
(* holds is written as the final page, and success is reported.             *)
PacketDone ==
  /\ pc = "data"
  /\ next_byte = Len(packet)
  /\ m_num_of_firmware_bytes_rcvd' = BytesReceived
  /\ IF m_image_size = BytesReceived
       THEN /\ flash' = FinalPageWritten
            /\ m_page_address' = m_page_address + 1
            /\ Send(Cmd("receive_ok"))
       ELSE UNCHANGED <<flash, m_page_address, sendVars>>
  /\ packet' = << >>
  /\ next_byte' = 0
  /\ pc' = "poll"
  /\ UNCHANGED <<m_dfu_state, m_image_size, m_pkt_notif_target,
                 m_pkt_notif_target_cnt, m_page_buff, m_page_buff_index,
                 valid_app, tx_pipe_open, in_radio>>

ReceiveInit ==
  /\ pc = "poll"
  /\ m_dfu_state = "ST_RDY"
  /\ m_dfu_state' = "ST_RX_INIT_PKT"
  /\ UNCHANGED <<m_image_size, m_pkt_notif_target, m_pkt_notif_target_cnt,
                 m_num_of_firmware_bytes_rcvd, pageVars, handlerVars, pc,
                 valid_app, sendVars, tx_pipe_open, in_radio>>

(* The if guards jump_app_key_clear only: the state changes from any state. *)
ReceiveFw ==
  /\ pc = "poll"
  /\ valid_app' = IF m_dfu_state \in {"ST_RDY", "ST_RX_INIT_PKT"}
                    THEN FALSE ELSE valid_app
  /\ m_dfu_state' = "ST_RX_DATA_PKT"
  /\ UNCHANGED <<m_image_size, m_pkt_notif_target, m_pkt_notif_target_cnt,
                 m_num_of_firmware_bytes_rcvd, pageVars, handlerVars, pc,
                 sendVars, tx_pipe_open, in_radio>>

(* Mutation: the counts are not compared.                                  *)
CompleteAssumed == TRUE

Complete == m_num_of_firmware_bytes_rcvd = m_image_size

(* Success is reported when the counts agree; the state changes anyway.    *)
Validate ==
  /\ pc = "poll"
  /\ m_dfu_state = "ST_RX_DATA_PKT"
  /\ IF Complete
       THEN Send(Cmd("validate_ok"))
       ELSE UNCHANGED sendVars
  /\ m_dfu_state' = "ST_FW_VALID"
  /\ UNCHANGED <<m_image_size, m_pkt_notif_target, m_pkt_notif_target_cnt,
                 m_num_of_firmware_bytes_rcvd, pageVars, handlerVars, pc,
                 valid_app, tx_pipe_open, in_radio>>

(* lib_aci_disconnect forgets the pipes only if the command was queued.    *)
Activate ==
  /\ pc = "poll"
  /\ m_dfu_state = "ST_FW_VALID"
  /\ valid_app' = TRUE
  /\ tx_queue' \in AfterSend(tx_queue, Cmd("disconnect"))
  /\ tx_pipe_open' = (tx_pipe_open /\ ~Queued)
  /\ pc' = "activate"
  /\ UNCHANGED <<dfuVars, pageVars, handlerVars, data_credit_available,
                 in_radio>>

(* dfu_reset repeats lib_aci_radio_reset until it is queued; nothing drains *)
(* the queue meanwhile.  The counts and the page position are not reset.    *)
SysReset ==
  /\ pc = "poll"
  /\ tx_queue' \in AfterSend(tx_queue, Cmd("radio_reset"))
  /\ IF Queued
       THEN m_dfu_state' = "ST_IDLE" /\ UNCHANGED pc
       ELSE pc' = "radio_reset" /\ UNCHANGED m_dfu_state
  /\ UNCHANGED <<m_image_size, m_pkt_notif_target, m_pkt_notif_target_cnt,
                 m_num_of_firmware_bytes_rcvd, pageVars, handlerVars,
                 valid_app, data_credit_available, tx_pipe_open, in_radio>>

NotificationSet(target) ==
  /\ pc = "poll"
  /\ m_pkt_notif_target' = target
  /\ m_pkt_notif_target_cnt' = target
  /\ UNCHANGED <<m_dfu_state, m_image_size, m_num_of_firmware_bytes_rcvd,
                 pageVars, handlerVars, pc, valid_app, sendVars, tx_pipe_open,
                 in_radio>>

-----------------------------------------------------------------------------
(* The surroundings: lib_aci_event_get hands a queued command to the radio, *)
(* from the main loop and from the loop of dfu_image_activate.              *)
Transfer ==
  /\ pc \in {"poll", "activate"}
  /\ tx_queue # << >>
  /\ tx_queue' = Tail(tx_queue)
  /\ in_radio' = IF Head(tx_queue).kind \in DataKinds THEN in_radio + 1
                                                      ELSE in_radio
  /\ UNCHANGED <<dfuVars, pageVars, handlerVars, pc, valid_app,
                 data_credit_available, tx_pipe_open>>

(* The radio gives credit back, by DATA_CREDIT for packets it has sent or   *)
(* by PIPE_ERROR for one it refused; ble_update adds it up.                 *)
CreditReturned(n) ==
  /\ pc = "poll"
  /\ n <= in_radio
  /\ in_radio' = in_radio - n
  /\ data_credit_available' = (data_credit_available + n) % CreditWrap
  /\ UNCHANGED <<dfuVars, pageVars, handlerVars, pc, valid_app, tx_queue,
                 tx_pipe_open>>

Firmware(n) == [k \in 1..n |-> m_num_of_firmware_bytes_rcvd + k - 1]

AnyPacket ==
  \/ \E size \in ImageSizes : ImageSizeSet(size)
  \/ InitPacket
  \/ \E n \in PacketLens : /\ m_num_of_firmware_bytes_rcvd + n <= MaxBytes
                           /\ m_page_address <= MaxBytes
                           /\ DataPacket(Firmware(n))

AnyOpcode ==
  \/ ReceiveInit
  \/ ReceiveFw
  \/ Validate
  \/ Activate
  \/ SysReset
  \/ \E target \in NotifTargets : NotificationSet(target)

Next ==
  \/ AnyPacket
  \/ AnyOpcode
  \/ StoreByte
  \/ PacketDone
  \/ in_radio < MaxInRadio /\ Transfer
  \/ \E n \in 1..MaxInRadio : CreditReturned(n)

Spec == Init /\ [][Next]_vars

(* The same, but that no send overruns the queue.  AciLink.tla shows that   *)
(* the bootloader's own sends do not (RoomForCommands there).              *)
CarefulSpec == Init /\ [][Next /\ WithinSlots(tx_queue')]_vars

-----------------------------------------------------------------------------
(* The variables hold values of their C types.                             *)
TypeOK ==
  /\ m_dfu_state \in States
  /\ m_image_size \in Nat
  /\ m_pkt_notif_target \in Nat
  /\ m_pkt_notif_target_cnt \in Nat
  /\ m_pkt_notif_target # 0 => m_pkt_notif_target_cnt # 0
  /\ m_num_of_firmware_bytes_rcvd \in Nat
  /\ m_page_address \in Nat
  /\ m_page_buff \in [0..PageSize - 1 -> Nat \cup {Zero}]
  /\ m_page_buff_index \in 0..PageSize - 1
  /\ packet \in Seq(Nat)
  /\ next_byte \in 0..Len(packet)
  /\ pc \in PC
  /\ flash \in [0..FlashSize - 1 -> Cell]
  /\ valid_app \in BOOLEAN
  /\ tx_queue \in Seq(Command)
  /\ data_credit_available \in 0..CreditWrap - 1
  /\ tx_pipe_open \in BOOLEAN
  /\ in_radio \in Nat

(* The firmware bytes stored so far, those of the packet in hand included. *)
Handled == m_num_of_firmware_bytes_rcvd + next_byte

(* The final write moves m_page_address on by one: until the first one, the *)
(* position in flash and the count of bytes are the same number.            *)
InStep == m_page_address + m_page_buff_index = Handled

(* However the central splits the stream into packets, and whatever else it *)
(* sends in between, a reset of the session included, every byte of the     *)
(* stream is in its place: in flash below m_page_address, in the page       *)
(* buffer from there on (dfu_data_pkt_handle).                              *)
StreamFaithful ==
  InStep => /\ \A a \in 0..m_page_address - 1 : flash[a] = a
            /\ \A k \in 0..m_page_buff_index - 1 :
                 m_page_buff[k] = m_page_address + k

(* Until the final write, flash beyond the page being filled is as it was,  *)
(* and that page, once started, is erased and not programmed yet.           *)
NothingBeyond ==
  InStep => \A a \in m_page_address..FlashSize - 1 :
              flash[a] = IF m_page_buff_index # 0 /\ a < m_page_address + PageSize
                           THEN Blank ELSE Old

(* The inductive invariant behind the two above.  The packet in hand is the *)
(* next piece of the stream; the final write, which alone breaks the step   *)
(* of address and count, only ever puts the address ahead.                  *)
PacketIsStream ==
  /\ pc = "data" =>
       \A k \in 1..Len(packet) : packet[k] = m_num_of_firmware_bytes_rcvd + k - 1
  /\ pc # "data" => packet = << >> /\ next_byte = 0
  /\ BytesReceived <= MaxBytes

AddressAhead ==
  /\ m_page_address + m_page_buff_index >= Handled
  /\ InStep => m_page_address % PageSize = 0

StreamInv == PacketIsStream /\ AddressAhead /\ StreamFaithful /\ NothingBeyond

(* The first time the code reports that the image was received, every byte  *)
(* of it is in flash: the last page too, full or not.                       *)
ReportsReceived == tx_queue' = Append(tx_queue, Cmd("receive_ok"))

ReportIsTrue ==
  ReportsReceived /\ InStep => \A a \in 0..m_image_size - 1 : flash'[a] = a

SuccessMeansImage == [][ReportIsTrue]_vars

DataQueued == Cardinality({i \in 1..Len(tx_queue) : tx_queue[i].kind \in DataKinds})

(* No credit is lost or invented: those available, those of packets still   *)
(* queued and those the radio owes add up to the total, modulo the width of *)
(* the counter, through refused sends too (m_send, ble_update).  A send     *)
(* that overruns the queue may put a data packet in the place of another    *)
(* command, or the other way round: CarefulSpec leaves it out.             *)
CreditConservation ==
  (data_credit_available + DataQueued + in_radio) % CreditWrap = TotalCredit

-----------------------------------------------------------------------------
(* lib_aci.h: lib_aci_send_data "checks that enough credits are available": *)
(* there would never be fewer than none, which shows as a wrapped counter.  *)
CreditChecked == data_credit_available <= TotalCredit

(* dfu.c: "Write final page to flash".  What is written when the image is   *)
(* complete is a page of the image.                                         *)
FinalPageOfImage ==
  [][ReportsReceived /\ InStep =>
       \A a \in 0..FlashSize - 1 :
         flash'[a] # flash[a] => PageBase(a) < m_image_size]_vars

(* dfu.c: "we should disable jumping to application until we have verified  *)
(* the incoming firmware".  The flag is set again only when all the bytes   *)
(* that were announced have been received.                                  *)
FlagMeansVerified ==
  [][valid_app' /\ ~valid_app => m_num_of_firmware_bytes_rcvd = m_image_size]_vars
=============================================================================
