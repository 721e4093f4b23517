--------------------------- MODULE HalAciTlProofs ---------------------------
(***************************************************************************)
(* The transport layer is a pair of first-in first-out channels, for every *)
(* queue size, every set of messages and every assignment of lengths, under *)
(* a processor that loses nothing in a full queue.                         *)
(***************************************************************************)
EXTENDS HalAciTl, TLAPS

(* A command that fits is a command.                                       *)
LEMMA FitsAre ==
  /\ Fits \subseteq Command
  /\ \A c \in Fits : Length[c] \in 1..MaxLen /\ c # None
  /\ \A e \in Event : Length[e] \in 1..MaxLen /\ e # None
BY HalAssumption DEF Fits

(* The transfer clocks enough bytes for both messages, whichever of them is *)
(* the longer and whether there is one or not (m_aci_spi_transfer).        *)
LEMMA ArrivesWhole ==
  ASSUME NEW cmd \in Fits \cup {None}, NEW evt \in Event \cup {None}
  PROVE  LET bytes == MaxBytes(LengthOf(cmd), LengthOf(evt))
         IN  Arrives(cmd, bytes + 1) = cmd /\ Arrives(evt, bytes) = evt
<1> DEFINE sent == LengthOf(cmd)
           received == LengthOf(evt)
           bytes == MaxBytes(sent, received)
<1>1. /\ MaxLen \in Nat
      /\ sent \in 0..MaxLen /\ received \in 0..MaxLen
  BY HalAssumption, FitsAre DEF LengthOf
<1>2. Longer(sent, received) \in Nat
  BY <1>1 DEF Longer
<1>3. sent <= bytes + 1 /\ received <= bytes
  <2> HIDE DEF sent, received
  <2> QED BY <1>1, <1>2 DEF MaxBytes, Longer
<1> QED BY <1>3 DEF Arrives

(* What becomes of an event that is fetched into an empty queue             *)
(* (hal_aci_tl_event_get).                                                 *)
LEMMA PassedOn ==
  ASSUME NEW m \in Event \cup {None}
  PROVE  First(Fetched(<< >>, m)) = m /\ Rest(Fetched(<< >>, m)) = << >>
<1>1. CASE m = None
  BY <1>1 DEF Fetched, First, Rest
<1>2. CASE m # None
  <2>1. Fetched(<< >>, m) = Append(<< >>, m)
    BY <1>2 DEF Fetched
  <2>2. Append(<< >>, m) # << >> /\ Head(Append(<< >>, m)) = m /\ Tail(Append(<< >>, m)) = << >>
    OBVIOUS
  <2> QED BY <2>1, <2>2 DEF First, Rest
<1> QED BY <1>1, <1>2

(* The oldest message of a queue, and the rest.                            *)
LEMMA OldestOfQueue ==
  ASSUME NEW S, NEW q \in Seq(S)
  PROVE  /\ Rest(q) \in Seq(S) /\ Len(Rest(q)) <= Len(q)
         /\ First(q) \in S \cup {None}
         /\ q # << >> => First(q) = Head(q) /\ Head(q) \in S /\ Rest(q) = Tail(q)
         /\ q = << >> => First(q) = None /\ Rest(q) = << >>
BY DEF First, Rest

(* A message that was taken over the oldest leaves more than there are      *)
(* slots for; every other send appends the command or changes nothing.     *)
LEMMA SendAppends ==
  ASSUME NEW q \in Seq(Fits), WithinSlots(q), NEW c \in Fits,
         NEW new \in AfterSend(q, c), WithinSlots(new)
  PROVE  /\ new \in Seq(Fits) /\ new \in {q, Append(q, c)}
         /\ Len(q) < QueueSize => new = Append(q, c)
         /\ new = q => Len(q) = QueueSize
         /\ new = Append(q, c) => Len(q) < QueueSize
<1>1. QueueSize \in Nat /\ Len(q) \in Nat /\ Len(q) <= QueueSize
  BY HalAssumption DEF WithinSlots
<1>2. Append(q, c) \in Seq(Fits) /\ Len(Append(q, c)) = Len(q) + 1 /\ Append(q, c) # q
  OBVIOUS
<1>3. CASE Len(q) < QueueSize
  BY <1>1, <1>2, <1>3 DEF AfterSend
<1>4. CASE Len(q) = QueueSize
  <2>1. Len(Overrun(q, c)) = Len(q) + 1
    <3> DEFINE n == Len(q) + 1
               long == Overrun(q, c)
               S == {long[i] : i \in 1..n}
    <3>1. n \in Nat /\ DOMAIN long = 1..n
      BY <1>1 DEF Overrun
    <3>2. long = [i \in 1..n |-> long[i]]
      BY DEF Overrun
    <3>3. long \in [1..n -> S]
      BY <3>2
    <3> HIDE DEF n, long, S
    <3>4. long \in Seq(S) /\ Len(long) = n
      BY <3>1, <3>3
    <3> QED BY <3>4 DEF n, long
  <2>2. ~WithinSlots(Overrun(q, c))
    BY <1>1, <1>4, <2>1 DEF WithinSlots
  <2>3. new = q
    BY <1>4, <2>2 DEF AfterSend
  <2> QED BY <1>1, <1>2, <1>4, <2>3
<1> QED BY <1>1, <1>3, <1>4

(* A send of a careful processor, from the queue's side.                   *)
LEMMA CarefulSend ==
  ASSUME HalTypeOK, WithinSlots(tx_q'), NEW c \in Command, HalSend(c)
  PROVE  /\ tx_q' \in Seq(Fits) /\ tx_q' \in {tx_q, Append(tx_q, c)}
         /\ tx_q' # tx_q => Len(tx_q) < QueueSize /\ tx_q' = Append(tx_q, c) /\ c \in Fits
         /\ c \in Fits /\ Len(tx_q) < QueueSize => tx_q' = Append(tx_q, c) /\ tx_q' # tx_q
         /\ reqn' \in BOOLEAN
<1>1. tx_q \in Seq(Fits) /\ WithinSlots(tx_q) /\ reqn \in BOOLEAN
  BY DEF HalTypeOK
<1>2. reqn' = (reqn \/ (Sent /\ Len(rx_q) < QueueSize))
      /\ IF c \in Fits THEN tx_q' \in AfterSend(tx_q, c) ELSE tx_q' = tx_q
  BY DEF HalSend
<1>3. reqn' \in BOOLEAN
  BY <1>1, <1>2
<1>4. CASE c \in Fits
  <2>1. tx_q' \in AfterSend(tx_q, c)
    BY <1>2, <1>4
  <2>2. /\ tx_q' \in Seq(Fits) /\ tx_q' \in {tx_q, Append(tx_q, c)}
        /\ Len(tx_q) < QueueSize => tx_q' = Append(tx_q, c)
        /\ tx_q' = tx_q => Len(tx_q) = QueueSize
        /\ tx_q' = Append(tx_q, c) => Len(tx_q) < QueueSize
    BY <1>1, <1>4, <2>1, SendAppends
  <2>3. Append(tx_q, c) # tx_q
    <3>1. Len(Append(tx_q, c)) = Len(tx_q) + 1 /\ Len(tx_q) \in Nat
      BY <1>1, <1>4
    <3> QED BY <3>1
  <2> QED BY <1>3, <1>4, <2>2, <2>3
<1>5. CASE c \notin Fits
  BY <1>1, <1>2, <1>3, <1>5
<1> QED BY <1>4, <1>5

(* What a transfer does to the queues, once its lengths are out of the way  *)
(* (m_aci_event_check).                                                    *)
LEMMA TransferMoves ==
  ASSUME HalTypeOK, EventGetTransfer
  PROVE  /\ tx_q' = Rest(tx_q) /\ outbox' = Rest(outbox)
         /\ inbox' = IF tx_q = << >> THEN inbox ELSE Append(inbox, First(tx_q))
         /\ event' = First(outbox) /\ rx_q' = << >>
         /\ reqn' \in BOOLEAN /\ rdyn' = FALSE
<1> DEFINE cmd == First(tx_q)
           evt == First(outbox)
           bytes == MaxBytes(LengthOf(cmd), LengthOf(evt))
<1>1. tx_q \in Seq(Fits) /\ outbox \in Seq(Event) /\ rx_q = << >>
  BY DEF HalTypeOK
<1>2. /\ cmd \in Fits \cup {None} /\ evt \in Event \cup {None}
      /\ cmd = None <=> tx_q = << >>
  <2>1. cmd \in Fits \cup {None} /\ (tx_q = << >> => cmd = None)
    BY <1>1, OldestOfQueue
  <2>2. tx_q # << >> => cmd \in Fits
    BY <1>1, OldestOfQueue
  <2>3. evt \in Event \cup {None}
    BY <1>1, OldestOfQueue
  <2> QED BY <2>1, <2>2, <2>3, FitsAre
<1>3. Arrives(cmd, bytes + 1) = cmd /\ Arrives(evt, bytes) = evt
  BY <1>2, ArrivesWhole
<1>4. /\ tx_q' = Rest(tx_q) /\ outbox' = Rest(outbox)
      /\ inbox' = IF cmd = None THEN inbox ELSE Append(inbox, Arrives(cmd, bytes + 1))
      /\ event' = First(Fetched(rx_q, Arrives(evt, bytes)))
      /\ rx_q' = Rest(Fetched(rx_q, Arrives(evt, bytes)))
      /\ reqn' = Requested(tx_q') /\ rdyn' = FALSE
  BY DEF EventGetTransfer, HandsOut
<1>5. First(Fetched(<< >>, evt)) = evt /\ Rest(Fetched(<< >>, evt)) = << >>
  BY <1>2, PassedOn
<1> HIDE DEF cmd, evt, bytes
<1>6. event' = evt /\ rx_q' = << >>
  BY <1>1, <1>3, <1>4, <1>5
<1>7. inbox' = IF tx_q = << >> THEN inbox ELSE Append(inbox, cmd)
  BY <1>2, <1>3, <1>4
<1>8. reqn' \in BOOLEAN
  BY <1>4 DEF Requested
<1> QED BY <1>4, <1>6, <1>7, <1>8 DEF cmd, evt

-----------------------------------------------------------------------------
(* Every step of a careful processor keeps the types.                      *)
LEMMA HalTypeStep ==
  ASSUME HalTypeOK, [HalNext /\ WithinSlots(tx_q')]_halVars
  PROVE  HalTypeOK'
<1>1. /\ tx_q \in Seq(Fits) /\ WithinSlots(tx_q) /\ rx_q = << >>
      /\ reqn \in BOOLEAN /\ event \in Event \cup {None} /\ rdyn \in BOOLEAN
      /\ inbox \in Seq(Fits) /\ outbox \in Seq(Event) /\ QueueSize \in Nat
  BY HalAssumption DEF HalTypeOK
<1>0. WithinSlots(tx_q')
  BY <1>1 DEF halVars, WithinSlots
<1>2. ASSUME NEW c \in Command, HalSend(c), EventUsed \/ UNCHANGED event,
             UNCHANGED <<rx_q, rdyn, inbox, outbox>>
      PROVE  HalTypeOK'
  <2>1. tx_q' \in Seq(Fits) /\ reqn' \in BOOLEAN
    BY <1>2, <1>0, CarefulSend
  <2> QED BY <1>1, <1>2, <1>0, <2>1 DEF EventUsed, HalTypeOK
<1>3. CASE EventGetIdle
  BY <1>1, <1>3 DEF EventGetIdle, HandsOut, First, Rest, Requested, HalTypeOK, WithinSlots
<1>4. CASE EventGetTransfer
  <2>1. /\ tx_q' = Rest(tx_q) /\ outbox' = Rest(outbox)
        /\ inbox' = IF tx_q = << >> THEN inbox ELSE Append(inbox, First(tx_q))
        /\ event' = First(outbox) /\ rx_q' = << >>
        /\ reqn' \in BOOLEAN /\ rdyn' = FALSE
    BY <1>4, TransferMoves
  <2>2. /\ Rest(tx_q) \in Seq(Fits)
        /\ tx_q # << >> => First(tx_q) \in Fits
    BY <1>1, OldestOfQueue
  <2>3. Rest(outbox) \in Seq(Event) /\ First(outbox) \in Event \cup {None}
    BY <1>1, OldestOfQueue
  <2>5. inbox' \in Seq(Fits)
    BY <1>1, <2>1, <2>2
  <2> HIDE DEF Rest, First
  <2> QED BY <1>0, <2>1, <2>2, <2>3, <2>5 DEF HalTypeOK
<1>5. CASE EventUsed /\ UNCHANGED <<tx_q, rx_q, reqn, rdyn, inbox, outbox>>
  BY <1>1, <1>5 DEF EventUsed, HalTypeOK
<1>6. CASE HalInitialised /\ rdyn' \in {FALSE, rdyn} /\ UNCHANGED <<inbox, outbox>>
  <2>1. /\ tx_q' = << >> /\ rx_q' = << >> /\ reqn' = TRUE /\ event' = None
        /\ rdyn' \in BOOLEAN /\ UNCHANGED <<inbox, outbox>>
    BY <1>1, <1>6 DEF HalInitialised
  <2>2. << >> \in Seq(Fits)
    OBVIOUS
  <2> QED BY <1>1, <1>0, <2>1, <2>2 DEF HalTypeOK
<1>7. CASE RadioReady
  <2>1. rdyn' = TRUE /\ UNCHANGED <<tx_q, rx_q, reqn, event, inbox, outbox>>
    BY <1>7 DEF RadioReady
  <2> QED BY <1>1, <1>0, <2>1 DEF HalTypeOK
<1>8. ASSUME NEW events \in Seq(Event), RadioRaises(events),
             UNCHANGED inbox \/ (inbox # << >> /\ inbox' = Tail(inbox))
      PROVE  HalTypeOK'
  <2>1. outbox \o events \in Seq(Event)
    BY <1>1
  <2>2. inbox # << >> => Tail(inbox) \in Seq(Fits)
    BY <1>1
  <2>3. outbox' \in Seq(Event) /\ inbox' \in Seq(Fits)
    BY <1>1, <1>8, <2>1, <2>2 DEF RadioRaises
  <2> QED BY <1>1, <1>8, <1>0, <2>3 DEF RadioRaises, HalTypeOK
<1>9. CASE UNCHANGED halVars
  BY <1>1, <1>9, <1>0 DEF halVars, HalTypeOK
<1> QED
  BY <1>2, <1>3, <1>4, <1>5, <1>6, <1>7, <1>8, <1>9 DEF HalNext, HalEventGet

(* It starts with values of their types.                                   *)
LEMMA HalStartsTyped ==
  ASSUME HalInit PROVE HalTypeOK
<1>1. /\ tx_q = << >> /\ rx_q = << >> /\ reqn = TRUE /\ event = None
      /\ rdyn = FALSE /\ inbox = << >> /\ outbox = << >>
  BY DEF HalInit
<1>2. WithinSlots(tx_q)
  BY <1>1, HalAssumption DEF WithinSlots
<1>3. tx_q \in Seq(Fits) /\ inbox \in Seq(Fits) /\ outbox \in Seq(Event)
  BY <1>1
<1> QED BY <1>1, <1>2, <1>3 DEF HalTypeOK

(* The transport layer's variables hold values of their types, and no event *)
(* is ever left in the receive queue: the full receive queue that           *)
(* hal_aci_tl_event_get and hal_aci_tl_send guard against does not happen.  *)
THEOREM HalTypeCorrect == HalCarefulSpec => []HalTypeOK
<1>1. HalInit => HalTypeOK
  BY HalStartsTyped
<1>2. HalTypeOK /\ [HalNext /\ WithinSlots(tx_q')]_halVars => HalTypeOK'
  BY HalTypeStep
<1> QED BY <1>1, <1>2, PTL DEF HalCarefulSpec

-----------------------------------------------------------------------------
(* Every step is one of the channels, or none.                             *)
LEMMA ChannelStep ==
  ASSUME HalTypeOK, HalTypeOK', [HalNext]_halVars
  PROVE  [Channel!Next]_(Channel!vars)
<1>1. /\ tx_q \in Seq(Fits) /\ WithinSlots(tx_q')
      /\ inbox \in Seq(Fits) /\ outbox \in Seq(Event) /\ QueueSize \in Nat
  BY HalAssumption DEF HalTypeOK
<1>2. rx_q \o outbox = outbox /\ rx_q' \o outbox' = outbox'
  BY DEF HalTypeOK
<1>3. ASSUME NEW c \in Command, HalSend(c), EventUsed \/ UNCHANGED event,
             UNCHANGED <<rx_q, rdyn, inbox, outbox>>
      PROVE  [Channel!Next]_(Channel!vars)
  <2>1. /\ tx_q' # tx_q => Len(tx_q) < QueueSize /\ tx_q' = Append(tx_q, c) /\ c \in Fits
    BY <1>1, <1>3, CarefulSend
  <2>2. CASE tx_q' = tx_q
    BY <1>2, <1>3, <2>2 DEF Channel!Next, Channel!Use, Channel!vars, EventUsed
  <2>3. CASE tx_q' # tx_q
    <3>1. Channel!Accept(c) /\ c \in Fits
      BY <1>2, <1>3, <2>1, <2>3 DEF Channel!Accept
    <3> QED BY <1>3, <3>1 DEF Channel!Next, Channel!Send, Channel!Use, EventUsed
  <2> QED BY <2>2, <2>3
<1>4. CASE EventGetIdle
  <2>1. event' = None /\ UNCHANGED <<tx_q, inbox, outbox>>
    BY <1>4 DEF EventGetIdle, HandsOut, First, HalTypeOK
  <2> QED BY <1>2, <2>1 DEF Channel!Next, Channel!Use
<1>5. CASE EventGetTransfer
  <2>1. /\ tx_q' = Rest(tx_q) /\ outbox' = Rest(outbox)
        /\ inbox' = IF tx_q = << >> THEN inbox ELSE Append(inbox, First(tx_q))
        /\ event' = First(outbox)
    BY <1>5, TransferMoves
  <2>2. tx_q # << >> => Channel!Take
    BY <1>1, <2>1, OldestOfQueue DEF Channel!Take
  <2>3. outbox # << >> => Channel!Deliver
    BY <1>1, <1>2, <2>1, OldestOfQueue DEF Channel!Deliver
  <2>4. tx_q = << >> => UNCHANGED <<tx_q, inbox>>
    BY <2>1 DEF Rest
  <2>5. outbox = << >> => event' = None /\ UNCHANGED outbox
    BY <2>1 DEF First, Rest
  <2>6. CASE tx_q = << >> /\ outbox = << >>
    BY <1>2, <2>4, <2>5, <2>6 DEF Channel!Next, Channel!Use
  <2>7. CASE tx_q # << >> \/ outbox # << >>
    BY <1>2, <2>2, <2>3, <2>4, <2>5, <2>7 DEF Channel!Next, Channel!Exchange
  <2> QED BY <2>6, <2>7
<1>6. CASE EventUsed /\ UNCHANGED <<tx_q, rx_q, reqn, rdyn, inbox, outbox>>
  BY <1>2, <1>6 DEF EventUsed, Channel!Next, Channel!Use
<1>7. CASE HalInitialised /\ rdyn' \in {FALSE, rdyn} /\ UNCHANGED <<inbox, outbox>>
  BY <1>2, <1>7 DEF HalInitialised, Channel!Next, Channel!Restart
<1>8. CASE RadioReady
  BY <1>2, <1>8 DEF RadioReady, Channel!vars
<1>9. ASSUME NEW events \in Seq(Event), RadioRaises(events),
             UNCHANGED inbox \/ (inbox # << >> /\ inbox' = Tail(inbox))
      PROVE  Channel!Next
  <2>1. outbox' = outbox \o events /\ UNCHANGED <<tx_q, event>>
    BY <1>9 DEF RadioRaises
  <2>2. /\ Len(outbox) <= Len(outbox')
        /\ SubSeq(outbox', 1, Len(outbox)) = outbox
    <3> DEFINE both == outbox \o events
    <3>1. /\ both \in Seq(Event) /\ Len(both) = Len(outbox) + Len(events)
          /\ Len(outbox) \in Nat /\ Len(events) \in Nat
          /\ \A i \in 1..Len(outbox) : both[i] = outbox[i]
      BY <1>1, <1>9
    <3> HIDE DEF both
    <3>2. SubSeq(both, 1, Len(outbox)) = [i \in 1..Len(outbox) |-> both[i]]
      BY <3>1
    <3>3. outbox = [i \in 1..Len(outbox) |-> outbox[i]]
      BY <1>1
    <3>4. SubSeq(both, 1, Len(outbox)) = outbox
      BY <3>1, <3>2, <3>3
    <3> QED BY <2>1, <3>1, <3>4 DEF both
  <2>3. Channel!Extends(rx_q \o outbox, rx_q' \o outbox')
    BY <1>2, <2>2 DEF Channel!Extends
  <2>4. Channel!Radio
    BY <1>9, <2>1, <2>3 DEF Channel!Radio
  <2> QED BY <2>4 DEF Channel!Next
<1>10. CASE UNCHANGED halVars
  BY <1>10 DEF halVars, Channel!vars
<1> QED
  BY <1>3, <1>4, <1>5, <1>6, <1>7, <1>8, <1>9, <1>10 DEF HalNext, HalEventGet

(* The two queues, the two lines and the transfer loop implement a pair of  *)
(* first-in first-out channels: no message is lost, cut, repeated or        *)
(* overtaken, whatever the two sides do (hal_aci_tl.c), unless the queue    *)
(* takes a command when it is full.                                        *)
THEOREM TransportIsChannel == HalCarefulSpec => IsChannel
<1>1. HalInit => Channel!Init
  BY DEF HalInit, Channel!Init
<1>2. HalTypeOK /\ HalTypeOK' /\ [HalNext]_halVars => [Channel!Next]_(Channel!vars)
  BY ChannelStep
<1>3. [HalNext /\ WithinSlots(tx_q')]_halVars => [HalNext]_halVars
  OBVIOUS
<1> QED
  BY <1>1, <1>2, <1>3, HalTypeCorrect, PTL DEF HalCarefulSpec, IsChannel, Channel!Spec
=============================================================================
