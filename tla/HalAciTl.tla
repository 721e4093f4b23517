------------------------------ MODULE HalAciTl ------------------------------
(***************************************************************************)
(* The transport layer between the processor and the nRF8001 radio         *)
(* (BLE/hal_aci_tl.c): a queue of commands, a queue of events, and two     *)
(* lines.  The processor asks for a transfer by pulling REQN low, the      *)
(* radio grants one, or asks for one, by pulling RDYN low; one SPI         *)
(* transfer then carries a command and an event at the same time.          *)
(*                                                                         *)
(* The queues are those of AciQueue: what a send into a full one leaves is  *)
(* in QueueSend.  A message is a value and has a length; one of which not   *)
(* all bytes were clocked arrives as Cut.                                  *)
(***************************************************************************)
EXTENDS QueueSend

CONSTANTS MaxLen,      \* HAL_ACI_MAX_LENGTH
          Command, Event,
          Length,      \* the length byte of each message
          None,        \* no message
          Cut,         \* a message that did not arrive whole
          MaxOutbox    \* bound: the events the radio holds

(* A command may be of any length; no event of the radio is too long.      *)
ASSUME HalAssumption ==
  /\ QueueSize \in Nat \ {0}
  /\ MaxLen \in Nat
  /\ Length \in [Command \cup Event -> Nat \ {0}]
  /\ \A e \in Event : Length[e] <= MaxLen
  /\ None \notin Command \cup Event
  /\ MaxOutbox \in Nat

VARIABLES
  tx_q,      \* aci_tx_q, the commands
  rx_q,      \* aci_rx_q, the events
  reqn,      \* REQN is low: the processor asks for a transfer
  event,     \* the event hal_aci_tl_event_get returned, until it is used
  rdyn,      \* RDYN is low: the radio is ready for a transfer
  inbox,     \* the command the radio is acting on
  outbox     \* the events the radio holds for the processor

halVars == <<tx_q, rx_q, reqn, event, rdyn, inbox, outbox>>

-----------------------------------------------------------------------------
(* The commands that hal_aci_tl_send does not refuse for their length.     *)
Fits == {c \in Command : Length[c] <= MaxLen}

LengthOf(m) == IF m = None THEN 0 ELSE Length[m]

First(q) == IF q = << >> THEN None ELSE Head(q)
Rest(q) == IF q = << >> THEN << >> ELSE Tail(q)

(* Mutation: the received length alone decides.                            *)
LongerReceived(sent, received) == received

(* Mutation: the command byte that is already sent is counted again.       *)
LongerOffByOne(sent, received) == IF received <= sent THEN sent ELSE received

(* One byte of the command goes out with the status byte and one with the   *)
(* event's length, so sent - 1 are left; the length byte is one of them.    *)
Longer(sent, received) ==
  IF sent # 0 /\ received <= sent - 1 THEN sent - 1 ELSE received

(* max_bytes: how often the byte loop of m_aci_spi_transfer turns.         *)
MaxBytes(sent, received) ==
  IF Longer(sent, received) > MaxLen THEN MaxLen ELSE Longer(sent, received)

(* What arrives of a message when only so many of its bytes are clocked.   *)
Arrives(m, bytes) == IF LengthOf(m) <= bytes THEN m ELSE Cut

(* What a fetched event, if there was one, leaves of a queue that is not    *)
(* full.                                                                   *)
Fetched(q, m) == IF m = None THEN q ELSE Append(q, m)

-----------------------------------------------------------------------------
(* hal_aci_tl_init.  m_spi_init makes REQN an output without setting its    *)
(* level, which is low after a reset: a transfer is asked for.              *)
HalInitialised ==
  /\ tx_q' = << >>
  /\ rx_q' = << >>
  /\ reqn' = TRUE
  /\ event' = None

HalInit ==
  /\ tx_q = << >>
  /\ rx_q = << >>
  /\ reqn = TRUE
  /\ event = None
  /\ rdyn = FALSE
  /\ inbox = << >>
  /\ outbox = << >>

(* What hal_aci_tl_send returned.                                          *)
Sent == tx_q' # tx_q

(* hal_aci_tl_send refuses a command that is too long; the queue refuses    *)
(* one when it is full, most of the time.  REQN is lowered for one it took. *)
HalSend(c) ==
  /\ IF c \in Fits THEN tx_q' \in AfterSend(tx_q, c) ELSE UNCHANGED tx_q
  /\ reqn' = (reqn \/ (Sent /\ Len(rx_q) < QueueSize))

(* Mutation: nobody asks for the transfer of a command that waits.         *)
NeverRequested(q) == FALSE

(* REQN is lowered when there is a command to send.                        *)
Requested(q) == q # << >>

(* The end of hal_aci_tl_event_get: the oldest event is handed out.        *)
HandsOut(events) ==
  /\ event' = First(events)
  /\ rx_q' = Rest(events)

(* hal_aci_tl_event_get while RDYN is high: nothing to do but ask.         *)
EventGetIdle ==
  /\ ~rdyn
  /\ reqn' = (reqn \/ Requested(tx_q))
  /\ HandsOut(rx_q)
  /\ UNCHANGED <<tx_q, rdyn, inbox, outbox>>

(* hal_aci_tl_event_get while RDYN is low: m_aci_event_check transfers the  *)
(* oldest command, or nothing, and fetches an event, or nothing.  REQN is   *)
(* raised, and lowered again if there is more to send.                      *)
EventGetTransfer ==
  LET cmd   == First(tx_q)
      evt   == First(outbox)
      bytes == MaxBytes(LengthOf(cmd), LengthOf(evt))
  IN /\ rdyn
     /\ Len(rx_q) < QueueSize
     /\ tx_q' = Rest(tx_q)
     /\ inbox' = IF cmd = None THEN inbox ELSE Append(inbox, Arrives(cmd, bytes + 1))
     /\ outbox' = Rest(outbox)
     /\ HandsOut(Fetched(rx_q, Arrives(evt, bytes)))
     /\ reqn' = Requested(tx_q')
     /\ rdyn' = FALSE

(* The third case, a full receive queue, does not arise: every event is     *)
(* handed out by the call that fetched it.                                  *)
HalEventGet == EventGetIdle \/ EventGetTransfer

(* The event is used up.                                                   *)
EventUsed == event' = None

-----------------------------------------------------------------------------
(* The radio (external): it asks for a transfer when it has an event, and   *)
(* grants one when it is asked and not busy with a command.                 *)
RadioReady ==
  /\ ~rdyn
  /\ outbox # << >> \/ (reqn /\ inbox = << >>)
  /\ rdyn' = TRUE
  /\ UNCHANGED <<tx_q, rx_q, reqn, event, inbox, outbox>>

RadioRaises(events) ==
  /\ Len(outbox) + Len(events) <= MaxOutbox
  /\ outbox' = outbox \o events
  /\ UNCHANGED <<tx_q, rx_q, reqn, event, rdyn>>

-----------------------------------------------------------------------------
(* Any processor and any radio.  A processor that starts again may do so    *)
(* with the event still in hand; while its pins are inputs REQN is high.   *)
HalNext ==
  \/ /\ \E c \in Command : HalSend(c)
     /\ EventUsed \/ UNCHANGED event
     /\ UNCHANGED <<rx_q, rdyn, inbox, outbox>>
  \/ HalEventGet
  \/ EventUsed /\ UNCHANGED <<tx_q, rx_q, reqn, rdyn, inbox, outbox>>
  \/ HalInitialised /\ rdyn' \in {FALSE, rdyn} /\ UNCHANGED <<inbox, outbox>>
  \/ RadioReady
  \/ /\ \E events \in Seq(Event) : RadioRaises(events)
     /\ UNCHANGED inbox \/ (inbox # << >> /\ inbox' = Tail(inbox))

HalSpec == HalInit /\ [][HalNext]_halVars

(* The processor sends no more than there is room for, or is refused.      *)
HalCarefulSpec == HalInit /\ [][HalNext /\ WithinSlots(tx_q')]_halVars

-----------------------------------------------------------------------------
(* The variables hold values of their types; the queues never hold more     *)
(* than they have slots for; no event is left behind in the receive queue.  *)
HalTypeOK ==
  /\ tx_q \in Seq(Fits)
  /\ WithinSlots(tx_q)
  /\ rx_q = << >>
  /\ reqn \in BOOLEAN
  /\ event \in Event \cup {None}
  /\ rdyn \in BOOLEAN
  /\ inbox \in Seq(Fits)
  /\ outbox \in Seq(Event)

Channel == INSTANCE AciChannel WITH Size     <- QueueSize,
                                    Command  <- Fits,
                                    commands <- tx_q,
                                    events   <- rx_q \o outbox

(* The two queues, the lines and the transfer loop together are a pair of   *)
(* first-in first-out channels: no command and no event is lost, cut short, *)
(* repeated or overtaken, whichever side asked for the transfer and however *)
(* the lengths of the two messages in it compare (hal_aci_tl.c), as long as *)
(* no command is taken into a full queue over the oldest (HalCarefulSpec).  *)
IsChannel == Channel!Spec
=============================================================================
