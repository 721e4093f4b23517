------------------------------ MODULE Layouts ------------------------------
(***************************************************************************)
(* The layouts two parties have to agree on: the messages of the ACI       *)
(* protocol (BLE/aci.h, aci_cmds.h, aci_evts.h), the offsets and lengths   *)
(* the library writes them with (aci_protocol_defines.h, acilib.h), and    *)
(* the record in EEPROM that the application leaves for the bootloader     *)
(* (optiboot.c).                                                           *)
(*                                                                         *)
(* A structure is packed: it is the sequence of its fields.  The offsets   *)
(* header has an offset for each byte of a number, one for an array.       *)
(***************************************************************************)
EXTENDS Integers, SequencesExt

Number(n) == [bytes |-> n, offsets |-> n]
Array(n) == [bytes |-> n, offsets |-> 1]

SizeOf(struct) == FoldLeft(LAMBDA size, field : size + field.bytes, 0, struct)

(* The offsets the fields have in the structure, byte by byte.             *)
OffsetsIn(struct) ==
  FlattenSeq([f \in DOMAIN struct |->
    [byte \in 1..struct[f].offsets |-> SizeOf(SubSeq(struct, 1, f - 1)) + byte - 1]])

Bytes(n) == [f \in 1..n |-> Number(1)]
Words(n) == [f \in 1..n |-> Number(2)]

-----------------------------------------------------------------------------
(* Limits and shared structures.                                           *)
BTLE_DEVICE_ADDRESS_SIZE == 6
ACI_ECHO_DATA_MAX_LEN == 32 - 3
ACI_PIPE_TX_DATA_MAX_LEN == 20
ACI_PIPE_RX_DATA_MAX_LEN == 22
HAL_ACI_MAX_LENGTH == 31

aci_ll_conn_params == Words(4)
aci_tx_data == <<Number(1), Array(ACI_PIPE_TX_DATA_MAX_LEN)>>
aci_rx_data == <<Number(1), Array(ACI_PIPE_RX_DATA_MAX_LEN)>>

Nested(struct) == Array(SizeOf(struct))

-----------------------------------------------------------------------------
(* The commands, in the order of their opcodes, from 1 on.                 *)
aci_cmd_opcode ==
  <<"test", "echo", "dtm_cmd", "sleep", "wakeup", "setup", "read_dynamic_data",
    "write_dynamic_data", "get_device_version", "get_device_address",
    "get_battery_level", "get_temperature", "set_local_data", "radio_reset",
    "connect", "bond", "disconnect", "set_tx_power", "change_timing",
    "open_remote_pipe", "send_data", "send_data_ack", "request_data",
    "send_data_nack", "set_app_latency", "set_key", "open_adv_pipe", "broadcast",
    "bond_security_request", "connect_direct", "close_remote_pipe">>

(* Their parameters.  The passkey and the key of set_key are a union, as    *)
(* long as the longer.                                                     *)
RadioParams ==
  [test               |-> Bytes(1),
   echo               |-> <<Array(ACI_ECHO_DATA_MAX_LEN)>>,
   dtm_cmd            |-> Bytes(2),
   setup              |-> <<Array(1)>>,
   write_dynamic_data |-> <<Number(1), Array(1)>>,
   connect            |-> Words(2),
   bond               |-> Words(2),
   disconnect         |-> Bytes(1),
   set_tx_power       |-> Bytes(1),
   change_timing      |-> <<Nested(aci_ll_conn_params)>>]

PipeParams ==
  [set_local_data     |-> <<Nested(aci_tx_data)>>,
   open_remote_pipe   |-> Bytes(1),
   send_data          |-> <<Nested(aci_tx_data)>>,
   send_data_ack      |-> Bytes(1),
   request_data       |-> Bytes(1),
   send_data_nack     |-> Bytes(2),
   set_app_latency    |-> <<Number(1), Number(2)>>,
   set_key            |-> <<Number(1), Array(16)>>,
   open_adv_pipe      |-> <<Array(8)>>,
   broadcast          |-> Words(2),
   close_remote_pipe  |-> Bytes(1)]

(* The length byte of a message counts its opcode and its parameters.      *)
MsgLen(params) == 1 + SizeOf(params)

(* The events, in the order of their opcodes, from 0x81 on.                *)
aci_evt_opcode ==
  <<"device_started", "echo", "hw_error", "cmd_rsp", "connected", "disconnected",
    "bond_status", "pipe_status", "timing", "data_credit", "data_ack",
    "data_received", "pipe_error", "display_passkey", "key_request">>

LinkEventParams ==
  [device_started |-> Bytes(3),
   hw_error       |-> <<Number(2), Array(20)>>,
   connected      |-> <<Number(1), Array(BTLE_DEVICE_ADDRESS_SIZE)>>
                        \o Words(3) \o Bytes(1),
   disconnected   |-> Bytes(2),
   bond_status    |-> Bytes(6),
   pipe_status    |-> <<Array(8), Array(8)>>,
   timing         |-> Words(3),
   data_credit    |-> Bytes(1)]

DataEventParams ==
  [data_ack        |-> Bytes(1),
   data_received   |-> <<Nested(aci_rx_data)>>,
   pipe_error      |-> Bytes(2) \o <<Array(1)>>,
   display_passkey |-> <<Array(6)>>,
   key_request     |-> Bytes(1)]

(* A command response: opcode, status, and what the command asks for; the   *)
(* bootloader's commands ask for nothing.                                  *)
CmdRspParams ==
  [dtm_cmd            |-> Bytes(2),
   read_dynamic_data  |-> <<Number(1), Array(1)>>,
   get_device_version |-> <<Number(2), Number(1), Number(1), Number(4), Number(1)>>,
   get_device_address |-> <<Array(BTLE_DEVICE_ADDRESS_SIZE), Number(1)>>,
   get_battery_level  |-> Words(1),
   get_temperature    |-> Words(1)]

CmdRspPadding == 29
cmd_rsp == Bytes(2) \o <<Array(CmdRspPadding)>>

-----------------------------------------------------------------------------
(* The offsets header, structure by structure.                             *)
OFFSET_ACI_CMD_PARAMS ==
  [test |-> <<0>>, echo |-> <<0>>, dtm_cmd |-> <<0, 1>>, setup |-> <<0>>,
   write_dynamic_data |-> <<0, 1>>, set_local_data |-> <<0>>,
   connect |-> <<0, 1, 2, 3>>, bond |-> <<0, 1, 2, 3>>, disconnect |-> <<0>>,
   set_tx_power |-> <<0>>, change_timing |-> <<0>>, open_remote_pipe |-> <<0>>,
   send_data |-> <<0>>, send_data_ack |-> <<0>>, request_data |-> <<0>>,
   send_data_nack |-> <<0, 1>>, set_app_latency |-> <<0, 1, 2>>,
   set_key |-> <<0, 1>>, open_adv_pipe |-> <<0>>, broadcast |-> <<0, 1, 2, 3>>,
   close_remote_pipe |-> <<0>>]

OFFSET_ACI_EVT_PARAMS ==
  [device_started |-> <<0, 1, 2>>, hw_error |-> <<0, 1, 2>>,
   connected |-> <<0, 1, 7, 8, 9, 10, 11, 12, 13>>, disconnected |-> <<0, 1>>,
   bond_status |-> <<0, 1, 2, 3, 4, 5>>, pipe_status |-> <<0, 8>>,
   timing |-> <<0, 1, 2, 3, 4, 5>>, data_credit |-> <<0>>, data_ack |-> <<0>>,
   data_received |-> <<0>>, pipe_error |-> <<0, 1, 2>>,
   display_passkey |-> <<0>>, key_request |-> <<0>>]

OFFSET_ACI_EVT_CMD_RSP ==
  [dtm_cmd |-> <<0, 1>>, read_dynamic_data |-> <<0, 1>>,
   get_device_version |-> <<0, 1, 2, 3, 4, 5, 6, 7, 8>>,
   get_device_address |-> <<0, 6>>, get_battery_level |-> <<0, 1>>,
   get_temperature |-> <<0, 1>>]

OFFSET_ACI_LL_CONN_PARAMS == <<0, 1, 2, 3, 4, 5, 6, 7>>
OFFSET_ACI_DATA == <<0, 1>>     \* of aci_tx_data and of aci_rx_data
OFFSET_ACI_CMD == <<0, 1, 2>>   \* of len, cmd_opcode and any parameters

(* The lengths header: messages of one length, and messages with data of    *)
(* any length behind those bytes.                                          *)
MSG_LEN ==
  [connect |-> 5, bond |-> 5, disconnect |-> 2, set_tx_power |-> 2,
   request_data |-> 2, open_remote_pipe |-> 2, close_remote_pipe |-> 2,
   dtm_cmd |-> 3, change_timing |-> 9, set_app_latency |-> 4, set_key |-> 18,
   send_data_ack |-> 2, send_data_nack |-> 3, broadcast |-> 5, open_adv_pipe |-> 9]

MSG_BASE_LEN ==
  [set_local_data |-> 2, send_data |-> 2, write_dynamic_data |-> 2, setup |-> 1,
   echo |-> 1]

MSG_BASEBAND_RESET_LEN == 1
EVT_CMD_RESPONSE_MIN_LENGTH == 3

(* lib_aci_send_data.                                                      *)
SendDataLen(size) == MSG_BASE_LEN.send_data + size

-----------------------------------------------------------------------------
(* The buffers: hal_aci_data_t, and hal_aci_evt_t, the view of it as an     *)
(* event, whose parameters are those of a padded command response.         *)
hal_aci_data == <<Number(1), Array(HAL_ACI_MAX_LENGTH + 1)>>
hal_aci_evt == <<Number(1), Number(1), Number(1), Nested(cmd_rsp)>>

(* The record in EEPROM: what the application writes (README.TXT), and the  *)
(* offsets main reads it at.                                               *)
aci_pins == Bytes(12)
EepromRecord ==
  <<Number(1), Number(1), Nested(aci_pins), Number(1), Array(3), Array(2), Array(2),
    Array(2)>>

(* valid_app, valid_ble, pins, credit, pipes, conn_timeout, conn_interval.  *)
EepromAddr == <<0, 1, 2, 14, 15, 18, 20>>
BOOTLOADER_EEPROM_SIZE == 32

(* The pins: the port of one, whose three registers pin_to_mode,            *)
(* pin_to_output and pin_to_input name, and its bit.                       *)
NOT_A_PIN == "none"
Port(pin) == IF pin < 8 THEN "D" ELSE IF pin < 14 THEN "B"
                        ELSE IF pin <= 19 THEN "C" ELSE NOT_A_PIN
Bit(pin) == IF pin < 8 THEN pin ELSE IF pin < 14 THEN pin - 8 ELSE pin - 14

-----------------------------------------------------------------------------
Agree(Offset, Params) ==
  \A m \in DOMAIN Params : Offset[m] = OffsetsIn(Params[m])

(* Every structure belongs to a message that has an opcode, one of its own. *)
ASSUME OpcodesAssumption ==
  /\ IsInjective(aci_cmd_opcode) /\ IsInjective(aci_evt_opcode)
  /\ DOMAIN RadioParams \cup DOMAIN PipeParams \cup DOMAIN CmdRspParams
       \subseteq ToSet(aci_cmd_opcode)
  /\ DOMAIN LinkEventParams \cup DOMAIN DataEventParams
       \subseteq ToSet(aci_evt_opcode)

(* What is written at an offset of the header is read in the field of the   *)
(* structure, and the other way round.                                     *)
ASSUME OffsetsAssumption ==
  /\ Agree(OFFSET_ACI_CMD_PARAMS, RadioParams)
  /\ Agree(OFFSET_ACI_CMD_PARAMS, PipeParams)
  /\ Agree(OFFSET_ACI_EVT_PARAMS, LinkEventParams)
  /\ Agree(OFFSET_ACI_EVT_PARAMS, DataEventParams)
  /\ Agree(OFFSET_ACI_EVT_CMD_RSP, CmdRspParams)
  /\ OFFSET_ACI_LL_CONN_PARAMS = OffsetsIn(aci_ll_conn_params)
  /\ OFFSET_ACI_DATA = OffsetsIn(aci_tx_data)
  /\ OFFSET_ACI_DATA = OffsetsIn(aci_rx_data)
  /\ OFFSET_ACI_CMD = OffsetsIn(<<Number(1), Number(1), Array(1)>>)

(* The length byte the library sends is that of the structure; data of any  *)
(* length begins where the counted bytes end.                              *)
ASSUME LengthsAssumption ==
  /\ \A m \in DOMAIN MSG_LEN :
       MSG_LEN[m] = MsgLen(IF m \in DOMAIN RadioParams THEN RadioParams[m] ELSE PipeParams[m])
  /\ MSG_BASEBAND_RESET_LEN = MsgLen(<< >>)
  /\ \A m \in {"write_dynamic_data", "setup", "echo"} :
       MSG_BASE_LEN[m] = 1 + Last(OffsetsIn(RadioParams[m]))
  /\ \A m \in {"set_local_data", "send_data"} :
       MSG_BASE_LEN[m] = 1 + Last(OFFSET_ACI_CMD_PARAMS[m]) + Last(OffsetsIn(aci_tx_data))

(* Every message fits the buffers; what a command response carries fits its *)
(* padding, and that makes the view of a buffer no smaller than the buffer. *)
(* The record lies within its part of EEPROM, where main looks for it.     *)
ASSUME BuffersAssumption ==
  /\ \A m \in DOMAIN RadioParams : MsgLen(RadioParams[m]) <= HAL_ACI_MAX_LENGTH
  /\ \A m \in DOMAIN PipeParams : MsgLen(PipeParams[m]) <= HAL_ACI_MAX_LENGTH
  /\ \A m \in DOMAIN LinkEventParams :
       MsgLen(LinkEventParams[m]) <= HAL_ACI_MAX_LENGTH
  /\ \A m \in DOMAIN DataEventParams :
       MsgLen(DataEventParams[m]) <= HAL_ACI_MAX_LENGTH
  /\ \A m \in DOMAIN CmdRspParams : SizeOf(CmdRspParams[m]) <= CmdRspPadding
  /\ SizeOf(hal_aci_data) <= SizeOf(hal_aci_evt)
  /\ EepromAddr = SubSeq(OffsetsIn([f \in DOMAIN EepromRecord |->
                                      Array(EepromRecord[f].bytes)]), 1, 7)
  /\ SizeOf(EepromRecord) <= BOOTLOADER_EEPROM_SIZE

(* Different pins of the record are different lines.                       *)
ASSUME PinsAssumption ==
  \A p, q \in 0..19 : p # q => <<Port(p), Bit(p)>> # <<Port(q), Bit(q)>>
=============================================================================
