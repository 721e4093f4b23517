------------------------------ MODULE AciLink ------------------------------
(***************************************************************************)
(* The bootloader and its radio over the transport (HalAciTl): start-up by *)
(* lib_aci_init, the dispatch of events by ble_update (optiboot.c), the    *)
(* restoring of a bond from EEPROM (BLE/bonding.c), the credit and bond    *)
(* bookkeeping of aci_state_t (BLE/lib_aci.c), and processor resets, which  *)
(* leave the radio running and start the application when jump_check finds  *)
(* it valid (jump.c).  What the DFU procedure does with a packet is in      *)
(* Dfu.tla; here it answers with any messages, begins to receive an image,  *)
(* or ends the link.                                                       *)
(***************************************************************************)
EXTENDS HalAciTl, Layouts, FiniteSets

CONSTANTS Chunks,      \* the Write Dynamic Data messages of the bond in EEPROM
          BondCounts,  \* what the status byte may say of their number
          NoBond,      \* the status byte of an erased EEPROM
          CountWrap,   \* 256: write_dyn_num_msgs is a uint8_t
          CreditWrap,  \* 256: so is data_credit_available
          Credit,      \* data_credit_total
          MaxSessions, \* bound: connections
          MaxData      \* bound: packets from the central

VARIABLES
  pc,        \* where the program is, see PC
  valid_app, \* the application's flag in EEPROM
  completed, \* the packet that completes an image came, and no RECEIVE_FW since
  data_credit_available,
  bonded,    \* aci_state.bonded is ACI_BOND_STATUS_SUCCESS
  eeprom_status,       \* the bond status byte, as ble_update read it
  write_dyn_num_msgs,
  chunk,     \* the next message of the bond, at eeprom_read_addr
  foreign,   \* history: an answer that was not its own reached the restore
  link,      \* the radio: "off", "standby", "advertising" or "connected"
  owed,      \* packets in the radio, each of which will return a credit
  restored,  \* messages of the bond the radio has stored
  sessions, packets    \* how often each of the bounded steps was taken

bondVars == <<bonded, eeprom_status, write_dyn_num_msgs, chunk, foreign>>
radioVars == <<link, owed, restored>>
boundVars == <<sessions, packets>>
dfuVars == <<valid_app, completed>>
vars == <<halVars, pc, dfuVars, data_credit_available, bondVars, radioVars,
          boundVars>>

(* "dfu" and "answered" are inside dfu_update, "bond" and "waiting" inside  *)
(* bond_data_restore, "activate" and "stuck" in the loops of                *)
(* dfu_image_activate and dfu_reset.  At "app" the application runs.        *)
PC == {"init", "poll", "dfu", "answered", "bond", "waiting", "activate", "stuck",
       "app"}

-----------------------------------------------------------------------------
(* Messages, and their lengths (aci_cmds.h, aci_evts.h).                   *)
Msg(what, n) == [what |-> what, n |-> n]

RadioReset == Msg("radio_reset", 0)
Connect    == Msg("connect", 0)
Disconnect == Msg("disconnect", 0)
SendData   == Msg("send_data", 0)
WriteDynamic(k) == Msg("write_dynamic_data", k)

(* Behind the bond, EEPROM holds anything: message Chunks + 1.             *)
LinkCommand == {RadioReset, Connect, Disconnect, SendData}
                 \cup {WriteDynamic(k) : k \in 1..Chunks + 1}

Started(hw_error) == Msg("device_started", hw_error)
CmdRsp(status) == Msg("cmd_rsp", status)  \* and, for a reset, the opcode
CmdRsps == {"reset_done", "continue", "complete", "error", "done"}
Connected == Msg("connected", 0)
Disconnected == Msg("disconnected", 0)
Received == Msg("data_received", 0)
DataCredit(n) == Msg("data_credit", n)
PipeError(peer_att) == Msg("pipe_error", peer_att)

ResponseLen == 3   \* a response of dfu.c: opcode, request, status
BondDataLen == 29  \* the most a Write Dynamic Data message in EEPROM can hold

LinkEvent == {Started(0), Started(1), Connected, Disconnected, Received,
              PipeError(0), PipeError(1)}
               \cup {CmdRsp(s) : s \in CmdRsps}
               \cup {DataCredit(n) : n \in 1..2}

(* No event of aci_evts.h is as long as a message may be, and the status    *)
(* byte has seven bits for the number of messages (bonding.c).             *)
ASSUME AciLinkAssumption ==
  /\ QueueSize >= 2
  /\ LinkCommand \subseteq Fits
  /\ LinkEvent \subseteq Event
  /\ \A e \in Event : Length[e] < MaxLen
  /\ Chunks \in Nat \ {0} /\ Chunks <= CountWrap
  /\ CountWrap \in Nat \ {0} /\ CreditWrap \in Nat \ {0}
  /\ BondCounts \subseteq 0..CountWrap - 1
  /\ NoBond \notin BondCounts
  /\ Credit \in 0..CreditWrap - 1
  /\ MaxSessions \in Nat /\ MaxData \in Nat

KindLength ==
  [radio_reset        |-> MSG_BASEBAND_RESET_LEN,
   connect            |-> MSG_LEN.connect,
   disconnect         |-> MSG_LEN.disconnect,
   send_data          |-> SendDataLen(ResponseLen),
   write_dynamic_data |-> MSG_BASE_LEN.write_dynamic_data + BondDataLen,
   cmd_rsp            |-> EVT_CMD_RESPONSE_MIN_LENGTH,
   device_started     |-> MsgLen(LinkEventParams.device_started),
   connected          |-> MsgLen(LinkEventParams.connected),
   disconnected       |-> MsgLen(LinkEventParams.disconnected),
   data_credit        |-> MsgLen(LinkEventParams.data_credit),
   data_received      |-> MsgLen(DataEventParams.data_received),
   pipe_error         |-> MsgLen(DataEventParams.pipe_error)]

LinkLength == [m \in LinkCommand \cup LinkEvent |-> KindLength[m.what]]

-----------------------------------------------------------------------------
(* The locals of ble_update and bond_data_restore, and the history, while   *)
(* there is no restore.                                                     *)
NoRestore == /\ eeprom_status' = NoBond
             /\ write_dyn_num_msgs' = 0
             /\ chunk' = 1
             /\ foreign' = FALSE

(* jump_check, before main: after a watchdog reset a valid application is   *)
(* started, if boot_key is set.  main sets the key behind lib_aci_init; up   *)
(* to there it is what the last start left, or anything.                    *)
JumpCheck ==
  \/ valid_app /\ pc' = "app"
  \/ (~valid_app \/ pc = "init") /\ pc' = "init"

(* main reads the credit from EEPROM, then lib_aci_init calls               *)
(* hal_aci_tl_init.  RAM is lost.                                          *)
CpuStarts ==
  /\ JumpCheck
  /\ completed' = FALSE
  /\ data_credit_available' = Credit
  /\ bonded' = FALSE
  /\ NoRestore

Init ==
  /\ HalInit
  /\ pc = "init"
  /\ valid_app \in BOOLEAN
  /\ completed = FALSE
  /\ data_credit_available = Credit
  /\ bonded = FALSE
  /\ eeprom_status = NoBond
  /\ write_dyn_num_msgs = 0
  /\ chunk = 1
  /\ foreign = FALSE
  /\ link = "off"
  /\ owed = 0
  /\ restored = 0
  /\ sessions = 0 /\ packets = 0

(* What a step that only queues a command leaves alone.                    *)
QueueOnly == UNCHANGED <<rx_q, event, rdyn, inbox, outbox, bondVars,
                         radioVars>>

(* A handler uses the event up and may queue commands.                     *)
Handled == EventUsed /\ UNCHANGED <<rx_q, rdyn, inbox, outbox, radioVars>>
NothingSent == UNCHANGED <<tx_q, reqn>>

-----------------------------------------------------------------------------
(* Mutation: the radio is left in the state it is in.                      *)
LibAciInitNoReset ==
  /\ pc = "init"
  /\ NothingSent
  /\ pc' = "poll"
  /\ QueueOnly
  /\ UNCHANGED <<data_credit_available, dfuVars, boundVars>>

(* lib_aci_init: the radio is reset unless RDYN says it has an event.  RDYN *)
(* also goes low in answer to REQN, which hal_aci_tl_init has just left low.*)
LibAciInit ==
  /\ pc = "init"
  /\ IF rdyn THEN NothingSent ELSE HalSend(RadioReset)
  /\ pc' = "poll"
  /\ QueueOnly
  /\ UNCHANGED <<data_credit_available, dfuVars, boundVars>>

(* lib_aci_event_get, in the main loop and in the loops of bonding.c and    *)
(* dfu_image_activate: a disconnection restores the credit.                 *)
EventGet ==
  /\ pc \in {"poll", "waiting", "activate"}
  /\ event = None
  /\ HalEventGet
  /\ data_credit_available' =
       IF event' = Disconnected THEN Credit ELSE data_credit_available
  /\ UNCHANGED <<pc, dfuVars, bondVars, radioVars, boundVars>>

(* ble_update, one action per case.                                        *)
Dispatched(e) == pc = "poll" /\ event = e

(* bond_data_restore, up to its loop.  EEPROM may say anything; it is read   *)
(* once, as the radio starts once.                                          *)
RestoreBegins ==
  /\ Dispatched(Started(0))
  /\ eeprom_status' \in BondCounts
  /\ pc' = "bond"
  /\ write_dyn_num_msgs' = eeprom_status'
  /\ chunk' = 1
  /\ foreign' = FALSE
  /\ Handled
  /\ NothingSent
  /\ UNCHANGED <<data_credit_available, bonded, dfuVars, boundVars>>

(* The events that make the device advertise.                              *)
Advertise ==
  /\ \/ Dispatched(Started(0))  \* and the status byte is NoBond
     \/ Dispatched(CmdRsp("reset_done"))
     \/ Dispatched(Disconnected)
  /\ HalSend(Connect)
  /\ Handled
  /\ UNCHANGED <<pc, data_credit_available, bondVars, dfuVars, boundVars>>

Plus(n) == (data_credit_available + n) % CreditWrap

(* Mutation: only credit events return credit.                             *)
CreditAfterNoErrors ==
  CASE event.what = "connected"   -> Credit
    [] event.what = "data_credit" -> Plus(event.n)
    [] event.what = "pipe_error"  -> data_credit_available

(* A failed packet returns its credit, unless the peer refused it.  The     *)
(* total that a connection starts with is Credit throughout: the number     *)
(* that DEVICE_STARTED reports is the one the application left in EEPROM.   *)
CreditAfter ==
  CASE event.what = "connected"   -> Credit
    [] event.what = "data_credit" -> Plus(event.n)
    [] event.what = "pipe_error"  -> IF event.n = 1 THEN data_credit_available
                                                    ELSE Plus(1)

CreditEvent ==
  /\ pc = "poll"
  /\ event # None
  /\ event.what \in {"connected", "data_credit", "pipe_error"}
  /\ data_credit_available' = CreditAfter
  /\ Handled
  /\ NothingSent
  /\ UNCHANGED <<pc, bondVars, dfuVars, boundVars>>

(* A hardware error, and the answers to other commands, are let pass.      *)
Ignored ==
  /\ \/ Dispatched(Started(1))
     \/ \E s \in CmdRsps \ {"reset_done"} : Dispatched(CmdRsp(s))
  /\ Handled
  /\ NothingSent
  /\ UNCHANGED <<pc, data_credit_available, bondVars, dfuVars, boundVars>>

(* DATA_RECEIVED: dfu_update answers, or not, or does one of the three       *)
(* things below.                                                           *)
Answers ==
  /\ Dispatched(Received)
  /\ pc' = "dfu"
  /\ Handled
  /\ NothingSent
  /\ UNCHANGED <<data_credit_available, bondVars, dfuVars, boundVars>>

(* m_send.  The packet that completes an image has two answers, a receipt   *)
(* and the report that all is there; every other has one at most.  Packets  *)
(* of the image are not empty, so the next image is complete only once it   *)
(* was announced by another RECEIVE_FW.                                    *)
Reply ==
  /\ pc = "dfu" \/ (pc = "answered" /\ ~completed)
  /\ HalSend(SendData)
  /\ data_credit_available' = IF Sent THEN Plus(-1) ELSE data_credit_available
  /\ pc' = IF pc = "dfu" THEN "answered" ELSE "poll"
  /\ completed' = (completed \/ pc = "answered")
  /\ QueueOnly
  /\ UNCHANGED <<valid_app, boundVars>>

NoReply ==
  /\ pc \in {"dfu", "answered"}
  /\ pc' = "poll"
  /\ NothingSent
  /\ QueueOnly
  /\ UNCHANGED <<data_credit_available, dfuVars, boundVars>>

(* RECEIVE_FW for a new image: from here on the application is not valid.   *)
ReceiveFw ==
  /\ Dispatched(Received)
  /\ valid_app' = FALSE
  /\ completed' = FALSE
  /\ Handled
  /\ NothingSent
  /\ UNCHANGED <<pc, data_credit_available, bondVars, boundVars>>

Activate ==
  /\ Dispatched(Received)
  /\ valid_app' = TRUE
  /\ HalSend(Disconnect)
  /\ pc' = "activate"
  /\ Handled
  /\ UNCHANGED <<data_credit_available, bondVars, completed, boundVars>>

(* dfu_reset tries until the queue takes the command; nothing empties it.   *)
SysReset ==
  /\ Dispatched(Received)
  /\ HalSend(RadioReset)
  /\ pc' = IF Sent THEN "poll" ELSE "stuck"
  /\ Handled
  /\ UNCHANGED <<data_credit_available, bondVars, dfuVars, boundVars>>

(* The loop of dfu_image_activate drops every event; that of                *)
(* bond_data_restore every one that is not a command response.              *)
DropsEvent == \/ pc = "activate"
              \/ pc = "waiting" /\ event.what # "cmd_rsp"

Dropped ==
  /\ event # None
  /\ DropsEvent
  /\ Handled
  /\ NothingSent
  /\ UNCHANGED <<pc, data_credit_available, bondVars, dfuVars, boundVars>>

-----------------------------------------------------------------------------
(* bond_data_restore.  When it returns, ble_update advertises.             *)

(* Mutation: the next message is sent without waiting for the answer.      *)
RestoreSendAll ==
  /\ pc = "bond"
  /\ HalSend(WriteDynamic(chunk))
  /\ pc' = "bond"
  /\ chunk' = IF chunk <= Chunks THEN chunk + 1 ELSE chunk
  /\ UNCHANGED <<rx_q, event, rdyn, inbox, outbox, bonded, eeprom_status,
                 write_dyn_num_msgs, foreign, radioVars,
                 data_credit_available, dfuVars, boundVars>>

(* One message of the bond is read from EEPROM and sent.  EEPROM holds       *)
(* messages that fit, behind the bond as well: their length byte is not     *)
(* looked at before they are copied.  A refused one ends the restore with   *)
(* ACI_STATUS_ERROR_INTERNAL.                                              *)
RestoreSend ==
  /\ pc = "bond"
  /\ HalSend(WriteDynamic(chunk))
  /\ pc' = IF Sent THEN "waiting" ELSE "poll"
  /\ chunk' = IF chunk <= Chunks THEN chunk + 1 ELSE chunk
  /\ UNCHANGED <<rx_q, event, rdyn, inbox, outbox, bonded, eeprom_status,
                 write_dyn_num_msgs, foreign, radioVars,
                 data_credit_available, dfuVars, boundVars>>

Waiting(e) == pc = "waiting" /\ event = e

(* Mutation: the counter is taken to be wide and signed.                   *)
MsgsLeftSigned == write_dyn_num_msgs - 1

MsgsLeft == (write_dyn_num_msgs - 1) % CountWrap

(* Mutation: an answer that is no error is taken for the last one.         *)
IsCompleteAny(status) == status # "continue"

IsComplete(status) == status = "complete"

(* The first command response that says the transaction is complete.       *)
RestoreCompletes ==
  /\ \E s \in CmdRsps : Waiting(CmdRsp(s)) /\ IsComplete(s)
  /\ bonded' = TRUE
  /\ HalSend(Connect)
  /\ pc' = "poll"
  /\ NoRestore
  /\ Handled
  /\ UNCHANGED <<data_credit_available, dfuVars, boundVars>>

(* Mutation: the count is compared before the last answer is allowed for.  *)
CountUsedUpEarly == MsgsLeft <= 1

CountUsedUp == MsgsLeft = 0

(* Any other command response, whichever command it is for, counts.        *)
RestoreGivesUp ==
  /\ \E s \in CmdRsps : Waiting(CmdRsp(s)) /\ ~IsComplete(s)
  /\ CountUsedUp
  /\ HalSend(Connect)
  /\ pc' = "poll"
  /\ NoRestore
  /\ Handled
  /\ UNCHANGED <<data_credit_available, bonded, dfuVars, boundVars>>

RestoreGoesOn ==
  /\ \E s \in CmdRsps :
       /\ Waiting(CmdRsp(s))
       /\ ~IsComplete(s)
       /\ pc' = IF s = "continue" THEN "bond" ELSE "waiting"
       /\ foreign' = (foreign \/ s # "continue")
  /\ ~CountUsedUp
  /\ write_dyn_num_msgs' = MsgsLeft
  /\ NothingSent
  /\ Handled
  /\ UNCHANGED <<data_credit_available, bonded, eeprom_status, chunk,
                 dfuVars, boundVars>>

Processor ==
  \/ LibAciInit \/ EventGet
  \/ RestoreBegins \/ Advertise \/ CreditEvent \/ Ignored
  \/ Answers \/ Reply \/ NoReply \/ ReceiveFw \/ Activate \/ SysReset \/ Dropped
  \/ RestoreSend \/ RestoreCompletes \/ RestoreGivesUp \/ RestoreGoesOn

-----------------------------------------------------------------------------
(* The watchdog, at any time until jump_check turns it off: the processor   *)
(* starts again and the radio runs on.  While its pins are inputs REQN is   *)
(* high, so that RDYN stays low only for an event.                          *)
Watchdog ==
  /\ pc # "app"
  /\ HalInitialised
  /\ rdyn' = (rdyn /\ outbox # << >>)
  /\ CpuStarts
  /\ UNCHANGED <<valid_app, inbox, outbox, radioVars, boundVars>>

(* Nothing but the watchdog will make the processor act.                   *)
Stalled ==
  \/ pc \in {"activate", "stuck"}
  \/ /\ pc \in {"poll", "waiting"} /\ event = None
     /\ tx_q = << >> /\ inbox = << >> /\ outbox = << >>
     /\ link \in {"standby", "advertising"}

-----------------------------------------------------------------------------
(* The radio (external), as long as the bootloader runs: what it does for   *)
(* the application is not modelled.                                        *)
cpuVars == <<pc, dfuVars, data_credit_available, bondVars>>

RadioGrants ==
  /\ pc # "app"
  /\ link # "off"
  /\ RadioReady
  /\ UNCHANGED <<cpuVars, radioVars, boundVars>>

RadioStarts ==
  /\ pc # "app"
  /\ link = "off"
  /\ link' = "standby"
  /\ \E hw_error \in 0..1 : RadioRaises(<<Started(hw_error)>>)
  /\ UNCHANGED <<inbox, cpuVars, owed, restored, boundVars>>

(* The radio acts on its oldest command.                                   *)
RadioResets ==
  /\ Head(inbox) = RadioReset
  /\ link' = "standby"
  /\ owed' = 0
  /\ RadioRaises(<<CmdRsp("reset_done")>>)
  /\ UNCHANGED restored

RadioAdvertises ==
  /\ Head(inbox) = Connect
  /\ link' = IF link = "standby" THEN "advertising" ELSE link
  /\ RadioRaises(<<CmdRsp("done")>>)
  /\ UNCHANGED <<owed, restored>>

RadioDisconnects ==
  /\ Head(inbox) = Disconnect
  /\ IF link = "connected"
       THEN link' = "standby" /\ owed' = 0
              /\ RadioRaises(<<CmdRsp("done"), Disconnected>>)
       ELSE UNCHANGED <<link, owed>> /\ RadioRaises(<<CmdRsp("error")>>)
  /\ UNCHANGED restored

RadioSends ==
  /\ Head(inbox) = SendData
  /\ IF link = "connected"
       THEN owed' = owed + 1 /\ RadioRaises(<< >>)
       ELSE UNCHANGED owed /\ RadioRaises(<<PipeError(0)>>)
  /\ UNCHANGED <<link, restored>>

RadioStores ==
  /\ Head(inbox).what = "write_dynamic_data"
  /\ IF link = "standby" /\ restored < Chunks /\ Head(inbox).n = restored + 1
       THEN /\ restored' = restored + 1
            /\ RadioRaises(<<CmdRsp(IF restored' = Chunks THEN "complete"
                                                          ELSE "continue")>>)
       ELSE UNCHANGED restored /\ RadioRaises(<<CmdRsp("error")>>)
  /\ UNCHANGED <<link, owed>>

RadioActs ==
  /\ pc # "app"
  /\ inbox # << >>
  /\ link # "off"
  /\ inbox' = Tail(inbox)
  /\ RadioResets \/ RadioAdvertises \/ RadioDisconnects \/ RadioSends \/ RadioStores
  /\ UNCHANGED <<cpuVars, boundVars>>

CentralConnects ==
  /\ pc # "app"
  /\ link = "advertising"
  /\ sessions < MaxSessions
  /\ sessions' = sessions + 1
  /\ link' = "connected"
  /\ RadioRaises(<<Connected>>)
  /\ UNCHANGED <<inbox, cpuVars, owed, restored, packets>>

CentralWrites ==
  /\ pc # "app"
  /\ link = "connected"
  /\ packets < MaxData
  /\ packets' = packets + 1
  /\ RadioRaises(<<Received>>)
  /\ UNCHANGED <<inbox, cpuVars, radioVars, sessions>>

(* Packets are acknowledged, or one fails; the peer may refuse one, which   *)
(* is reported beside its credit.                                           *)
CreditReturns ==
  /\ pc # "app"
  /\ \/ \E n \in 1..2 : owed >= n /\ owed' = owed - n /\ RadioRaises(<<DataCredit(n)>>)
     \/ /\ owed > 0
        /\ owed' = owed - 1
        /\ \/ RadioRaises(<<PipeError(0)>>)
           \/ RadioRaises(<<PipeError(1), DataCredit(1)>>)
  /\ UNCHANGED <<inbox, cpuVars, link, restored, boundVars>>

LinkEnds ==
  /\ pc # "app"
  /\ link = "connected"
  /\ link' = "standby"
  /\ owed' = 0
  /\ RadioRaises(<<Disconnected>>)
  /\ UNCHANGED <<inbox, cpuVars, restored, boundVars>>

Next == \/ Processor \/ Watchdog
        \/ RadioGrants \/ RadioStarts \/ RadioActs
        \/ CentralConnects \/ CentralWrites \/ CreditReturns \/ LinkEnds
        \/ pc = "app" /\ UNCHANGED vars

Spec == Init /\ [][Next]_vars

(* Both processors run; the watchdog fires when nothing can kick it.       *)
Fairness == /\ WF_vars(Processor)
            /\ WF_vars(Stalled /\ Watchdog)
            /\ WF_vars(RadioGrants)
            /\ WF_vars(RadioStarts)
            /\ WF_vars(RadioActs)

FairSpec == Spec /\ Fairness

-----------------------------------------------------------------------------
(* Variables hold values of their types.                                   *)
TypeOK ==
  /\ HalTypeOK
  /\ pc \in PC
  /\ valid_app \in BOOLEAN /\ completed \in BOOLEAN
  /\ data_credit_available \in 0..CreditWrap - 1
  /\ bonded \in BOOLEAN /\ foreign \in BOOLEAN
  /\ eeprom_status \in BondCounts \cup {NoBond}
  /\ write_dyn_num_msgs \in 0..CountWrap - 1
  /\ chunk \in 1..Chunks + 1
  /\ link \in {"off", "standby", "advertising", "connected"}
  /\ owed \in 0..2 * MaxData
  /\ restored \in 0..Chunks

(* The next transfer, whichever command and event are the oldest by then,   *)
(* reads no byte behind the command's buffer: two bytes go out before the   *)
(* loop, and the buffer has one more than MaxLen (m_aci_spi_transfer).      *)
ReadsWithinBuffer ==
  MaxBytes(LengthOf(First(tx_q)), LengthOf(First(outbox))) + 2 <= MaxLen + 1

(* Whenever the program may send a command the queue has room for it, the   *)
(* two answers to the packet that completes an image included: every event  *)
(* comes in a transfer that takes a command along.  So the queue, which     *)
(* does not always see that it is full, loses nothing (aci_queue.c), and    *)
(* dfu_reset, which would try for ever, tries once (dfu.c).                 *)
RoomForCommands ==
  (\/ event # None
   \/ pc \in {"init", "dfu", "bond"}
   \/ pc = "answered" /\ ~completed) => Len(tx_q) < QueueSize

Pending == outbox \o (IF event = None THEN << >> ELSE <<event>>)

(* How many of a sequence's messages are among some.                       *)
Occurs(seq, some) == Cardinality({i \in DOMAIN seq : seq[i] \in some})

OneCredit == {DataCredit(1), PipeError(0)}
TwoCredits == {DataCredit(2)}
LinkChange == {Connected, Disconnected}

(* The credit that exists while a connection the program knows of lasts:    *)
(* what it has, what its packets have taken along, what is on its way back. *)
CreditsInSystem ==
  data_credit_available + Occurs(tx_q \o inbox, {SendData}) + owed
    + Occurs(Pending, OneCredit) + 2 * Occurs(Pending, TwoCredits)

(* No credit is lost: whatever happens to connections, packets, answers and *)
(* the processor, once the CONNECTED event of a connection was handled the  *)
(* program has, or has on the way, all the credit the radio grants for it.  *)
(* It may have more (optiboot.c ble_update, lib_aci_event_get): a PIPE_ERROR*)
(* for a packet of the connection before, or a packet of it that still      *)
(* takes room in the radio.  The loop of dfu_image_activate drops credits,   *)
(* but nothing is sent any more.                                            *)
NoCreditLost ==
  (/\ link = "connected"
   /\ pc \notin {"init", "activate", "app"}
   /\ Occurs(Pending, LinkChange) = 0)
    => (CreditsInSystem - Credit) % CreditWrap <= 2 * MaxData

(* The program believes the device is bonded only when the radio has stored *)
(* every message of the bond, in order, whatever answers to other commands  *)
(* and other events came in between (bond_data_restore).                    *)
BondedMeansRestored == bonded => restored = Chunks

(* A restore whose count is right, or zero, and that meets no answer but    *)
(* those to its own messages, does not give up before the radio has the     *)
(* whole bond (bond_data_restore).                                          *)
RestoreNotCutShort ==
  [][pc = "waiting" /\ pc' = "poll"
       /\ ~foreign /\ event.n \in {"continue", "complete"}
       /\ (eeprom_status = 0 \/ eeprom_status >= Chunks)
       => bonded']_vars

(* The watchdog's four seconds are long against a handshake, and the radio  *)
(* is not so quick to answer the REQN that m_spi_init leaves low that       *)
(* lib_aci_init takes the answer for an event.                              *)
WatchdogPatient == <>[][Watchdog => Stalled]_vars
RdynTells == <>[][RadioGrants => (pc # "init" \/ outbox # << >>)]_vars

(* The device does not stay silent: a radio in standby comes to advertise,  *)
(* after hardware errors, lost links, a restore that failed or a reset in   *)
(* any of them, unless the watchdog, which may be what helps, finds a valid *)
(* application to start (optiboot.c ble_update, lib_aci_init, jump_check).  *)
AdvertisesAgain ==
  WatchdogPatient /\ RdynTells
    => (link = "standby" ~> link = "advertising" \/ pc = "app")

(* A command that waits is asked a transfer for, and every one before it is *)
(* gone in the end: REQN is never left high over a queue that holds one     *)
(* (hal_aci_tl.c).                                                          *)
CommandsReach ==
  WatchdogPatient => (tx_q # << >> ~> tx_q = << >>)
=============================================================================
