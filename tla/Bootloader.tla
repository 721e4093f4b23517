----------------------------- MODULE Bootloader -----------------------------
(***************************************************************************)
(* The device: jump_check, which decides after every reset whether the     *)
(* application or the bootloader runs (jump.c); main and ble_update, which *)
(* bring the bootloader up and dispatch the radio's events (optiboot.c);   *)
(* the DFU procedure (Dfu.tla); the watchdog, the power supply, and the    *)
(* application as far as it starts resets; and, external to the code, the  *)
(* nRF8001 radio and a BLE central that updates the firmware.              *)
(*                                                                         *)
(* The radio is not reset with the processor, so a connection, and what    *)
(* the radio holds, can outlive the bootloader's memory.                   *)
(*                                                                         *)
(* Byte p of version v of the firmware is the number v * Stride + p, so a  *)
(* flash cell tells which byte of which version it holds.  Credits are     *)
(* left to Dfu.tla: no behaviour depends on them.                          *)
(***************************************************************************)
EXTENDS Integers, Sequences, FiniteSets

CONSTANTS PageSize, FlashSize, QueueSize,
          Versions,      \* the versions of the firmware central may send
          ImageSize,     \* the size of each, in bytes
          OldSize,       \* the size of the application in flash at first
          ChunkLen,      \* the bytes of a firmware packet, the last may be shorter
          SizePacketLen, \* the bytes of the packet that announces the size
          WrongSize,     \* what is read as a size from a firmware packet
          RadioBuffer,   \* the events the radio holds for the processor
          MaxSessions,   \* bound: connections of the central
          None

(* What the radio reports, and what the central sends through it.          *)
Messages == {"device_started", "hw_error", "reset_done", "connected",
             "disconnected", "size", "data", "SYS_RESET", "RECEIVE_INIT",
             "RECEIVE_FW", "VALIDATE", "ACTIVATE"}

ASSUME BootloaderAssumption ==
  /\ PageSize \in Nat \ {0} /\ PageSize % 2 = 0 /\ PageSize < 256
  /\ FlashSize \in Nat \ {0} /\ FlashSize % PageSize = 0
  /\ QueueSize \in Nat \ {0}
  /\ Versions \subseteq Nat \ {0}
  /\ ImageSize \in 1..FlashSize - 1
  /\ OldSize \in 1..FlashSize
  /\ ChunkLen \in Nat \ {0}
  /\ SizePacketLen \in Nat \ {0}
  /\ WrongSize \in Nat
  /\ RadioBuffer \in Nat \ {0}
  /\ MaxSessions \in Nat
  /\ None \notin Int
  /\ None \notin [what : Messages, bytes : Seq(Nat)]

VARIABLES
  (* dfu.c, see Dfu.tla *)
  m_dfu_state, m_image_size, m_pkt_notif_target, m_pkt_notif_target_cnt,
  m_num_of_firmware_bytes_rcvd, m_page_address, m_page_buff,
  m_page_buff_index, packet, next_byte, pc, flash, valid_app, tx_queue,
  tx_pipe_open,
  (* the processor *)
  mode,       \* "reset", "starting", "boot" or "app"
  wdrf,       \* MCUSR.WDRF: the last reset but a power-on was the watchdog's
  boot_key,   \* boot_key = BOOTLOADER_KEY, in memory no reset clears
  wdt,        \* the period of the watchdog
  rx,         \* the event lib_aci_event_get returned, or None
  (* the radio *)
  link,       \* "off", "standby", "advertising" or "connected"
  to_mcu,     \* the events it holds for the processor
  (* the central *)
  c_state,    \* what it is doing
  version,    \* the version it is sending
  c_pos,      \* how much of it
  to_central, \* the responses on their way to it
  sessions,   \* how many connections it has made
  misled      \* history: it went on, in reply, while LagsBehind

(* dfu.c but the queue and the pipes, which the dispatcher changes too.     *)
dfuUntouched == <<m_dfu_state, m_image_size, m_pkt_notif_target,
                  m_pkt_notif_target_cnt, m_num_of_firmware_bytes_rcvd,
                  m_page_address, m_page_buff, m_page_buff_index, packet,
                  next_byte, pc, flash, valid_app>>
dfuVars == <<dfuUntouched, tx_queue, tx_pipe_open>>
cpuVars == <<mode, wdrf, boot_key, wdt>>
radioVars == <<link, to_mcu>>
centralVars == <<c_state, version, c_pos, sessions, misled>>
vars == <<dfuVars, cpuVars, rx, radioVars, centralVars, to_central>>

-----------------------------------------------------------------------------
Stride == ImageSize + 1
Junk(v) == v * Stride + ImageSize    \* a byte of no image

(* Credits are abstracted: a counter of width one, and nothing owed.       *)
Dfu == INSTANCE Dfu WITH CreditWrap <- 1, TotalCredit <- 0, MaxInRadio <- 0,
                         data_credit_available <- 0, in_radio <- 0,
                         ImageSizes <- {ImageSize, WrongSize},
                         PacketLens <- {ChunkLen, SizePacketLen},
                         NotifTargets <- {0},
                         MaxBytes <- FlashSize - 1

Min2(a, b) == IF a < b THEN a ELSE b

Chunk(v, from) ==
  [k \in 1..Min2(ChunkLen, ImageSize - from) |-> v * Stride + from + k - 1]

(* A message of the central: a packet, or a control opcode.  A packet is    *)
(* told apart only by the state the DFU procedure is in.                    *)
SizePacket(v) == [what |-> "size", bytes |-> [k \in 1..SizePacketLen |-> Junk(v)]]
InitMsg(v) == [what |-> "data", bytes |-> SizePacket(v).bytes]
DataMsg(v, from) == [what |-> "data", bytes |-> Chunk(v, from)]
Opcode(op) == [what |-> op, bytes |-> << >>]
Event(e) == [what |-> e, bytes |-> << >>]

(* The cells of the image of version v, and of the application at first.   *)
HoldsImage(v) == \A p \in 0..ImageSize - 1 : flash[p] = v * Stride + p
HoldsOld == \A p \in 0..OldSize - 1 : flash[p] = Dfu!Old

Broken == -1

ImageInFlash ==
  IF HoldsOld THEN 0
  ELSE IF \E v \in Versions : HoldsImage(v)
    THEN CHOOSE v \in Versions : HoldsImage(v)
    ELSE Broken

-----------------------------------------------------------------------------
(* Memory after the C start-up code: statics have their initial values, and *)
(* main empties the queue.  Nothing reads memory between a reset and that,  *)
(* so the model clears it at the reset.                                     *)
MemoryCleared ==
  /\ m_dfu_state' = "ST_IDLE"
  /\ m_image_size' = 0
  /\ m_pkt_notif_target' = 0
  /\ m_pkt_notif_target_cnt' = 0
  /\ m_num_of_firmware_bytes_rcvd' = 0
  /\ m_page_address' = 0
  /\ m_page_buff' = [k \in 0..PageSize - 1 |-> Dfu!Zero]
  /\ m_page_buff_index' = 0
  /\ packet' = << >>
  /\ next_byte' = 0
  /\ pc' = "poll"
  /\ tx_queue' = << >>
  /\ tx_pipe_open' = FALSE
  /\ rx' = None
  /\ UNCHANGED <<flash, valid_app>>

Init ==
  /\ Dfu!Init
  /\ valid_app = TRUE
  /\ mode = "reset"
  /\ wdrf = FALSE
  /\ boot_key \in BOOLEAN
  /\ wdt = "16ms"
  /\ rx = None
  /\ link = "off"
  /\ to_mcu = << >>
  /\ c_state = "away"
  /\ version \in Versions
  /\ c_pos = 0
  /\ to_central = << >>
  /\ sessions = 0
  /\ misled = FALSE

-----------------------------------------------------------------------------
(* Resets.                                                                 *)

(* Mutation: the application flag is not consulted.                        *)
MayJumpUnchecked == wdrf /\ boot_key

MayJump == wdrf /\ boot_key /\ valid_app

(* jump_check: the application runs after a watchdog reset, with the key in *)
(* place and the application flag set.  It starts with a link of its own.   *)
JumpToApp ==
  /\ mode = "reset"
  /\ MayJump
  /\ wdrf' = FALSE
  /\ boot_key' = FALSE
  /\ wdt' = "off"
  /\ mode' = "app"
  /\ link' = "standby"
  /\ to_mcu' = << >>
  /\ to_central' = << >>
  /\ c_state' = "away"
  /\ UNCHANGED <<dfuVars, rx, version, c_pos, sessions, misled>>

StayInBootloader ==
  /\ mode = "reset"
  /\ ~MayJump
  /\ mode' = "starting"
  /\ UNCHANGED <<dfuVars, wdrf, boot_key, wdt, rx, radioVars, centralVars,
                 to_central>>

(* Mutation: the key is not set.                                           *)
MainStartsWithoutKey ==
  /\ mode = "starting"
  /\ wdt' = "4s"
  /\ tx_queue' = IF to_mcu = << >> THEN <<Dfu!Cmd("radio_reset")>> ELSE << >>
  /\ mode' = "boot"
  /\ UNCHANGED <<dfuUntouched, tx_pipe_open, wdrf, boot_key, rx, radioVars,
                 centralVars, to_central>>

(* main up to its loop: watchdog, lib_aci_init, dfu_init and the key.  The  *)
(* radio is reset unless it has an event pending.                           *)
MainStarts ==
  /\ mode = "starting"
  /\ wdt' = "4s"
  /\ tx_queue' = IF to_mcu = << >> THEN <<Dfu!Cmd("radio_reset")>> ELSE << >>
  /\ boot_key' = TRUE
  /\ mode' = "boot"
  /\ UNCHANGED <<dfuUntouched, tx_pipe_open, wdrf, rx, radioVars,
                 centralVars, to_central>>

(* The watchdog can fire at any point of the loop: whether an event that    *)
(* kicks it comes in time is up to the central.  Start-up is far shorter    *)
(* than its shortest period.                                                *)
Watchdog ==
  /\ mode = "boot"
  /\ wdrf' = TRUE
  /\ wdt' = "16ms"
  /\ mode' = "reset"
  /\ MemoryCleared
  /\ UNCHANGED <<boot_key, radioVars, centralVars, to_central>>

(* Power is lost and comes back: memory holds anything, the radio restarts. *)
PowerCycle ==
  /\ wdrf' = FALSE
  /\ boot_key' \in BOOLEAN
  /\ wdt' = "16ms"
  /\ mode' = "reset"
  /\ link' = "off"
  /\ to_mcu' = << >>
  /\ to_central' = << >>
  /\ c_state' = "away"
  /\ MemoryCleared
  /\ UNCHANGED <<version, c_pos, sessions, misled>>

(* The radio, started, says so, or reports a hardware error (external).    *)
RadioStarts ==
  /\ link = "off"
  /\ link' = "standby"
  /\ \E e \in {"device_started", "hw_error"} : to_mcu' = Append(to_mcu, Event(e))
  /\ UNCHANGED <<dfuVars, cpuVars, rx, centralVars, to_central>>

(* The application resets through the watchdog: by itself, or as the README *)
(* says, having set the key, when a central starts an update.               *)
AppResets(key) ==
  /\ mode = "app"
  /\ boot_key' = key
  /\ wdrf' = TRUE
  /\ wdt' = "16ms"
  /\ mode' = "reset"
  /\ UNCHANGED <<dfuVars, rx, to_central>>

AppFails == /\ AppResets(FALSE)
            /\ UNCHANGED <<radioVars, centralVars>>

AppHandsOver ==
  /\ sessions < MaxSessions
  /\ \E key \in BOOLEAN : AppResets(key)
  /\ link' = "connected"
  /\ c_state' = "ready"
  /\ version' \in Versions
  /\ c_pos' = 0
  /\ sessions' = sessions + 1
  /\ UNCHANGED <<to_mcu, misled>>

(* The reset button: processor only, flags and memory as they were.        *)
ExternalReset ==
  /\ mode = "boot"
  /\ mode' = "reset"
  /\ MemoryCleared
  /\ UNCHANGED <<wdrf, boot_key, wdt, radioVars, centralVars, to_central>>

-----------------------------------------------------------------------------
(* The bootloader's loop.                                                  *)
InLoop == mode = "boot" /\ rx = None /\ pc \in {"poll", "activate"}
            /\ link # "off"

(* What the radio does with a command.                                     *)
RadioTakes(kind) ==
  CASE kind = "connect" ->
         /\ link' = IF link = "standby" THEN "advertising" ELSE link
         /\ UNCHANGED <<to_central, c_state>>
         /\ to_mcu' = IF to_mcu = << >> THEN << >> ELSE Tail(to_mcu)
    [] kind = "radio_reset" ->
         /\ link' = "standby"
         /\ to_mcu' = <<Event("reset_done")>>
         /\ to_central' = << >>
         /\ c_state' = "away"
    [] kind = "disconnect" ->
         /\ link' = "standby"
         /\ to_mcu' = (IF to_mcu = << >> THEN << >> ELSE Tail(to_mcu))
                        \o (IF link = "connected"
                              THEN <<Event("disconnected")>> ELSE << >>)
         /\ to_central' = << >>
         /\ c_state' = "away"
    [] OTHER ->
         /\ to_central' = IF link = "connected" THEN Append(to_central, kind)
                                                ELSE to_central
         /\ to_mcu' = IF to_mcu = << >> THEN << >> ELSE Tail(to_mcu)
         /\ UNCHANGED <<link, c_state>>

(* lib_aci_event_get: one exchange with the radio hands it the oldest       *)
(* command and fetches its oldest event; there may be only one of the two.  *)
(* A disconnection closes the pipes.  That a PIPE_STATUS event sets them    *)
(* anew and a TIMING event is noted is left out: tx_pipe_open is what       *)
(* dfu.c and a disconnection make of it, and nothing here consults it.     *)
Fetched ==
  /\ rx' = IF to_mcu = << >> THEN None ELSE Head(to_mcu)
  /\ tx_pipe_open' = (tx_pipe_open /\ rx' # Event("disconnected"))

Exchange ==
  /\ InLoop
  /\ tx_queue # << >>
  /\ tx_queue' = Tail(tx_queue)
  /\ RadioTakes(Head(tx_queue).kind)
  /\ Fetched
  /\ UNCHANGED <<dfuUntouched, cpuVars, version, c_pos, sessions, misled>>

FetchEvent ==
  /\ InLoop
  /\ tx_queue = << >>
  /\ to_mcu # << >>
  /\ Fetched
  /\ to_mcu' = Tail(to_mcu)
  /\ UNCHANGED <<dfuUntouched, tx_queue, cpuVars, link, centralVars, to_central>>

Received(what) == mode = "boot" /\ pc = "poll" /\ rx # None /\ rx.what = what

(* The events that make ble_update advertise again.                        *)
Restarts == {"device_started", "reset_done", "disconnected"}

Connect == [kind |-> "connect", value |-> 0]

Reconnect ==
  /\ \E event \in Restarts : Received(event)
  /\ tx_queue' \in Dfu!AfterSend(tx_queue, Connect)
  /\ UNCHANGED <<dfuUntouched, tx_pipe_open>>

(* dfu_update, on a packet or an opcode the DFU state has a use for.        *)
DfuPacket ==
  /\ Received("size") \/ Received("data")
  /\ \/ Dfu!ImageSizeSet(IF rx.what = "size" THEN ImageSize ELSE WrongSize)
     \/ Dfu!InitPacket
     \/ Dfu!DataPacket(rx.bytes)

DfuOpcode ==
  \/ Received("SYS_RESET") /\ Dfu!SysReset
  \/ Received("RECEIVE_INIT") /\ Dfu!ReceiveInit
  \/ Received("RECEIVE_FW") /\ Dfu!ReceiveFw
  \/ Received("VALIDATE") /\ Dfu!Validate
  \/ Received("ACTIVATE") /\ Dfu!Activate

(* What ble_update and dfu_update do nothing about.                        *)
Uses(what) ==
  CASE what \in {"size", "data"} ->
         m_dfu_state \in {"ST_IDLE", "ST_RX_INIT_PKT", "ST_RX_DATA_PKT"}
    [] what = "RECEIVE_INIT" -> m_dfu_state = "ST_RDY"
    [] what = "VALIDATE" -> m_dfu_state = "ST_RX_DATA_PKT"
    [] what = "ACTIVATE" -> m_dfu_state = "ST_FW_VALID"
    [] what \in {"connected", "hw_error"} -> FALSE
    [] OTHER -> TRUE

Ignored ==
  /\ mode = "boot" /\ pc = "poll" /\ rx # None
  /\ ~Uses(rx.what)
  /\ UNCHANGED dfuVars

(* dfu_image_activate waits for DISCONNECTED, but looks at the event that   *)
(* it was called for: every event goes by, and the watchdog is left alone.  *)
WaitDisconnected ==
  /\ mode = "boot" /\ pc = "activate" /\ rx # None
  /\ UNCHANGED <<dfuVars, wdt>>

HandleEvent ==
  /\ \/ /\ Reconnect \/ DfuPacket \/ DfuOpcode \/ Ignored
        /\ UNCHANGED wdt
     \/ WaitDisconnected
  /\ rx' = None
  /\ UNCHANGED <<mode, wdrf, boot_key, radioVars, centralVars, to_central>>

ByteLoop ==
  /\ mode = "boot"
  /\ Dfu!StoreByte \/ Dfu!PacketDone
  /\ UNCHANGED <<cpuVars, rx, radioVars, centralVars, to_central>>

-----------------------------------------------------------------------------
(* The central (external): it sends the next message of the procedure when  *)
(* the response to the last one has come, gives up on a response it did not *)
(* expect, may ask for a reset, and may go out of range at any time.        *)
Awaiting == [size_sent  |-> "start_ok", init_sent |-> "init_ok",
             sent_all   |-> "receive_ok",
             validating |-> "validate_ok"]

Answered == /\ c_state \in DOMAIN Awaiting
            /\ to_central # << >>
            /\ Head(to_central) = Awaiting[c_state]

(* An event of before the connection, one that makes the bootloader         *)
(* advertise again, still waits, or the command that answers it does: what  *)
(* the central is told meanwhile may answer a message of an earlier session.*)
LagsBehind ==
  \/ rx # None /\ rx.what \in Restarts
  \/ \E i \in DOMAIN to_mcu : to_mcu[i].what \in Restarts
  \/ \E i \in DOMAIN tx_queue : tx_queue[i] = Connect

CentralSends(message, next) ==
  /\ link = "connected"
  /\ Len(to_mcu) < RadioBuffer
  /\ to_mcu' = Append(to_mcu, message)
  /\ c_state' = next
  /\ UNCHANGED <<dfuVars, cpuVars, rx, link, version, sessions>>

Unprompted(message, next) ==
  /\ CentralSends(message, next)
  /\ UNCHANGED <<to_central, c_pos, misled>>

InReply(message, next) ==
  /\ Answered
  /\ CentralSends(message, next)
  /\ to_central' = Tail(to_central)
  /\ misled' = (misled \/ LagsBehind)
  /\ UNCHANGED c_pos

CConnect ==
  /\ link = "advertising"
  /\ sessions < MaxSessions
  /\ link' = "connected"
  /\ to_mcu' = Append(to_mcu, Event("connected"))
  /\ c_state' = "ready"
  /\ version' \in Versions
  /\ c_pos' = 0
  /\ sessions' = sessions + 1
  /\ UNCHANGED <<dfuVars, cpuVars, rx, to_central, misled>>

CResets == c_state \notin {"away", "activated", "reset_sent"}
             /\ Unprompted(Opcode("SYS_RESET"), "reset_sent")
CSendsSize == c_state = "ready" /\ Unprompted(SizePacket(version), "size_sent")
CReceiveInit == c_state = "size_sent" /\ InReply(Opcode("RECEIVE_INIT"), "init")
CSendsInit == c_state = "init" /\ Unprompted(InitMsg(version), "init_sent")
CReceiveFw == c_state \in {"size_sent", "init_sent"}
                /\ InReply(Opcode("RECEIVE_FW"), "streaming")
CSendsChunk ==
  /\ c_state = "streaming"
  /\ c_pos' = Min2(c_pos + ChunkLen, ImageSize)
  /\ CentralSends(DataMsg(version, c_pos),
                  IF c_pos' = ImageSize THEN "sent_all" ELSE "streaming")
  /\ UNCHANGED <<to_central, misled>>
CValidates == c_state = "sent_all" /\ InReply(Opcode("VALIDATE"), "validating")
CActivates == c_state = "validating" /\ InReply(Opcode("ACTIVATE"), "activated")

CGivesUp ==
  /\ c_state \in DOMAIN Awaiting
  /\ to_central # << >>
  /\ ~Answered
  /\ c_state' = "gave_up"
  /\ UNCHANGED <<dfuVars, cpuVars, rx, radioVars, version, c_pos, sessions,
                 misled, to_central>>

(* The link is lost, or nobody answers the advertising in time.            *)
LinkEnds ==
  /\ link \in {"advertising", "connected"}
  /\ link' = "standby"
  /\ to_mcu' = Append(to_mcu, Event("disconnected"))
  /\ to_central' = << >>
  /\ c_state' = "away"
  /\ UNCHANGED <<dfuVars, cpuVars, rx, version, c_pos, sessions, misled>>

Central ==
  \/ CConnect
  \/ CResets
  \/ CSendsSize
  \/ CReceiveInit
  \/ CSendsInit
  \/ CReceiveFw
  \/ CSendsChunk
  \/ CValidates
  \/ CActivates
  \/ CGivesUp

-----------------------------------------------------------------------------
Processor ==
  \/ JumpToApp
  \/ StayInBootloader
  \/ MainStarts
  \/ Exchange
  \/ FetchEvent
  \/ HandleEvent
  \/ ByteLoop

Next ==
  \/ Processor
  \/ Watchdog
  \/ PowerCycle
  \/ RadioStarts
  \/ AppFails
  \/ AppHandsOver
  \/ mode # "app" /\ Central
  \/ mode # "app" /\ LinkEnds

Spec == Init /\ [][Next]_vars

(* The processor runs, and the watchdog fires when nothing is about to kick *)
(* it: no event that does is waiting, or the loop the processor is in does  *)
(* not handle events.                                                       *)
Kicks(event) == event.what \notin {"device_started", "hw_error", "reset_done", "disconnected"}

Quiet == \/ pc \in {"activate", "radio_reset"}
         \/ /\ ~(rx # None /\ Kicks(rx))
            /\ \A i \in DOMAIN to_mcu : ~Kicks(to_mcu[i])

LiveSpec == Spec /\ WF_vars(Processor) /\ WF_vars(Quiet /\ Watchdog)

(* With the reset button as well.                                          *)
ButtonSpec == Init /\ [][Next \/ ExternalReset]_vars

-----------------------------------------------------------------------------
CentralStates == DOMAIN Awaiting \cup {"away", "ready", "init", "streaming",
                                        "activated", "gave_up", "reset_sent"}

(* The variables hold values of their types, whatever is reset when, and    *)
(* the command queue never holds more than it has slots for.                *)
TypeOK ==
  /\ m_dfu_state \in Dfu!States
  /\ {m_image_size, m_num_of_firmware_bytes_rcvd, m_page_address} \subseteq Nat
  /\ m_page_buff \in [0..PageSize - 1 -> Nat \cup {Dfu!Zero}]
  /\ m_page_buff_index \in 0..PageSize - 1
  /\ next_byte \in 0..Len(packet)
  /\ pc \in Dfu!PC
  /\ flash \in [0..FlashSize - 1 -> Dfu!Cell]
  /\ {valid_app, wdrf, boot_key, tx_pipe_open, misled} \subseteq BOOLEAN
  /\ Len(tx_queue) <= QueueSize
  /\ \A i \in DOMAIN tx_queue :
       tx_queue[i].kind \in Dfu!Kinds \cup {"connect"}
  /\ mode \in {"reset", "starting", "boot", "app"}
  /\ wdt \in {"off", "16ms", "4s"}
  /\ rx # None => rx.what \in Messages
  /\ link \in {"off", "standby", "advertising", "connected"}
  /\ \A i \in DOMAIN to_mcu : to_mcu[i].what \in Messages
  /\ c_state \in CentralStates
  /\ version \in Versions
  /\ c_pos \in 0..ImageSize
  /\ sessions \in 0..MaxSessions

(* The owner's view: through any sequence of resets, power losses, lost     *)
(* links and repeated updates, the flag declares a complete application,    *)
(* one version, every byte in place, or none, and what jump_check starts is *)
(* the application so declared.  A central that was misled may have         *)
(* declared anything.                                                       *)
Owner == INSTANCE Firmware WITH
           Image     <- Versions \cup {0},
           installed <- IF valid_app THEN ImageInFlash ELSE None,
           running   <- IF mode = "app" THEN ImageInFlash ELSE None

RunsWhatIsInstalled == Owner!Init /\ [][misled' \/ Owner!Next]_(Owner!vars)

(* A central that is told, in its session, that its image was validated:    *)
(* the version it sent is in flash.                                         *)
ToldIsInFlash ==
  c_state = "activated" \/ (c_state = "validating" /\ Answered) =>
    HoldsImage(version)

(* It can rely on that, whatever earlier sessions left in the counters, in  *)
(* the page buffer, in the queues and in flash, as long as no central ever  *)
(* went on, in reply, while the bootloader lagged behind                    *)
(* (dfu_image_validate, dfu_reset, ble_update).                             *)
ValidatedIsInFlash == ~misled => ToldIsInFlash

(* While the flag says there is an application, the bootloader does not     *)
(* keep the device: unless an update withdraws the flag, the application    *)
(* runs in the end (README.TXT, "it will wait for activity ... for a short  *)
(* time, after which it will load the application").                        *)
PowerIsStable == <>[][~PowerCycle]_vars
Runs == valid_app /\ mode # "app" ~> mode = "app" \/ ~valid_app
LoadsApplication == PowerIsStable => Runs

-----------------------------------------------------------------------------
(* dfu.c: "Set watchdog to shortest interval and spin until reset", once    *)
(* the disconnection that ends the update has been seen.                    *)
SeesDisconnected == /\ pc = "activate"
                    /\ rx = Event("disconnected")
                    /\ HandleEvent

FastResetOnDisconnect == [][SeesDisconnected => wdt' = "16ms"]_vars

(* dfu.c: "the currently loaded application will be trashed, and we should  *)
(* disable jumping to application until we have verified the incoming       *)
(* firmware": what runs is never a partly overwritten application.          *)
NeverRunsTrash == mode = "app" => ImageInFlash # Broken
=============================================================================
