---------------------------- MODULE AciLinkProofs ----------------------------
(***************************************************************************)
(* The bootloader on its radio link always has room in the queue for what  *)
(* it sends, so that the transport's theorems hold of it; what it believes *)
(* of the bond is true; it loses no credit; and it does not cut short the  *)
(* restore of a bond.                                                      *)
(***************************************************************************)
EXTENDS AciLink, HalAciTlProofs, FiniteSetTheorems, SequenceTheorems

(* The commands and events of the link are messages of the transport.      *)
LEMMA LinkMessages ==
  /\ RadioReset \in Fits /\ Connect \in Fits
  /\ Disconnect \in Fits /\ SendData \in Fits
  /\ \A k \in 1..Chunks + 1 : WriteDynamic(k) \in Fits
  /\ Connected \in Event /\ Disconnected \in Event /\ Received \in Event
  /\ \A n \in 0..1 : Started(n) \in Event /\ PipeError(n) \in Event
  /\ \A s \in CmdRsps : CmdRsp(s) \in Event
  /\ \A n \in 1..2 : DataCredit(n) \in Event
<1>1. LinkCommand \subseteq Fits /\ LinkEvent \subseteq Event
  BY AciLinkAssumption
<1>2. /\ {RadioReset, Connect, Disconnect, SendData} \subseteq LinkCommand
      /\ \A k \in 1..Chunks + 1 : WriteDynamic(k) \in LinkCommand
  BY DEF LinkCommand
<1>3. /\ {Started(0), Started(1), Connected, Disconnected, Received,
          PipeError(0), PipeError(1)} \subseteq LinkEvent
      /\ \A s \in CmdRsps : CmdRsp(s) \in LinkEvent
      /\ \A n \in 1..2 : DataCredit(n) \in LinkEvent
  BY DEF LinkEvent
<1>4. \A n \in 0..1 : n = 0 \/ n = 1
  OBVIOUS
<1> HIDE DEF LinkCommand, LinkEvent
<1> QED BY <1>1, <1>2, <1>3, <1>4

(* The processor's four ways to touch the transport.                       *)
LEMMA SendsOnly ==
  ASSUME NEW c \in Fits, HalSend(c), UNCHANGED <<rx_q, event, rdyn, inbox, outbox>>
  PROVE  HalNext
<1>1. UNCHANGED event /\ UNCHANGED <<rx_q, rdyn, inbox, outbox>>
  OBVIOUS
<1> QED BY <1>1, FitsAre DEF HalNext

(* A handler that queues a command.                                        *)
LEMMA HandlerSends ==
  ASSUME NEW c \in Fits, HalSend(c), Handled
  PROVE  HalNext
<1>1. EventUsed /\ UNCHANGED <<rx_q, rdyn, inbox, outbox>>
  BY DEF Handled
<1> QED BY <1>1, FitsAre DEF HalNext

(* A handler that queues none.                                             *)
LEMMA HandlerSilent ==
  ASSUME NothingSent, Handled
  PROVE  HalNext
<1>1. EventUsed /\ UNCHANGED <<tx_q, rx_q, reqn, rdyn, inbox, outbox>>
  BY DEF Handled, NothingSent
<1> QED BY <1>1 DEF HalNext

(* A step between two calls of the transport.                              *)
LEMMA HalUntouched ==
  ASSUME NothingSent, QueueOnly
  PROVE  UNCHANGED halVars
BY DEF NothingSent, QueueOnly, halVars

(* The radio raises events, with or without having acted on a command.     *)
LEMMA RadioRaisesSome ==
  ASSUME NEW events \in Seq(Event), RadioRaises(events),
         UNCHANGED inbox \/ (inbox # << >> /\ inbox' = Tail(inbox))
  PROVE  HalNext
BY DEF HalNext

(* Events the radio raises, alone or in pairs.                             *)
LEMMA EventSeqs ==
  /\ << >> \in Seq(Event)
  /\ \A e \in Event : <<e>> \in Seq(Event)
  /\ \A e, f \in Event : <<e, f>> \in Seq(Event)
OBVIOUS

-----------------------------------------------------------------------------
(* Every step of the processor is one the transport provides for.          *)
LEMMA ProcessorStep ==
  ASSUME chunk \in 1..Chunks + 1, Processor
  PROVE  HalNext \/ UNCHANGED halVars
<1>1. CASE LibAciInit
  <2>1. CASE rdyn
    BY <1>1, <2>1, HalUntouched DEF LibAciInit
  <2>2. CASE ~rdyn
    <3>1. HalSend(RadioReset) /\ UNCHANGED <<rx_q, event, rdyn, inbox, outbox>>
      BY <1>1, <2>2 DEF LibAciInit, QueueOnly
    <3> QED BY <3>1, LinkMessages, SendsOnly
  <2> QED BY <2>1, <2>2
<1>2. CASE EventGet
  BY <1>2 DEF EventGet, HalNext
<1>3. CASE \/ RestoreBegins \/ CreditEvent \/ Ignored \/ Answers \/ ReceiveFw
           \/ Dropped \/ RestoreGoesOn
  <2>1. NothingSent /\ Handled
    BY <1>3 DEF RestoreBegins, CreditEvent, Ignored, Answers, ReceiveFw, Dropped,
       RestoreGoesOn
  <2> QED BY <2>1, HandlerSilent
<1>4. CASE Advertise \/ RestoreCompletes \/ RestoreGivesUp
  <2>1. HalSend(Connect) /\ Handled
    BY <1>4 DEF Advertise, RestoreCompletes, RestoreGivesUp
  <2> QED BY <2>1, LinkMessages, HandlerSends
<1>5. CASE Activate
  <2>1. HalSend(Disconnect) /\ Handled
    BY <1>5 DEF Activate
  <2> QED BY <2>1, LinkMessages, HandlerSends
<1>6. CASE SysReset
  <2>1. HalSend(RadioReset) /\ Handled
    BY <1>6 DEF SysReset
  <2> QED BY <2>1, LinkMessages, HandlerSends
<1>7. CASE Reply
  <2>1. HalSend(SendData) /\ UNCHANGED <<rx_q, event, rdyn, inbox, outbox>>
    BY <1>7 DEF Reply, QueueOnly
  <2> QED BY <2>1, LinkMessages, SendsOnly
<1>8. CASE NoReply
  BY <1>8, HalUntouched DEF NoReply
<1>9. CASE RestoreSend
  <2>1. /\ HalSend(WriteDynamic(chunk))
        /\ UNCHANGED <<rx_q, event, rdyn, inbox, outbox>>
    BY <1>9 DEF RestoreSend
  <2>2. WriteDynamic(chunk) \in Fits
    BY LinkMessages
  <2> QED BY <2>1, <2>2, SendsOnly
<1> QED
  BY <1>1, <1>2, <1>3, <1>4, <1>5, <1>6, <1>7, <1>8, <1>9 DEF Processor

(* Every step of the radio and the central is one of any radio.            *)
LEMMA RadioActsStep ==
  ASSUME RadioActs
  PROVE  HalNext
<1>1. inbox # << >> /\ inbox' = Tail(inbox)
  BY DEF RadioActs
<1>2. CASE RadioResets
  <2>1. RadioRaises(<<CmdRsp("reset_done")>>) /\ "reset_done" \in CmdRsps
    BY <1>2 DEF RadioResets, CmdRsps
  <2>2. <<CmdRsp("reset_done")>> \in Seq(Event)
    BY <2>1, LinkMessages, EventSeqs
  <2> QED BY <1>1, <2>1, <2>2, RadioRaisesSome
<1>3. CASE RadioAdvertises
  <2>1. RadioRaises(<<CmdRsp("done")>>) /\ "done" \in CmdRsps
    BY <1>3 DEF RadioAdvertises, CmdRsps
  <2>2. <<CmdRsp("done")>> \in Seq(Event)
    BY <2>1, LinkMessages, EventSeqs
  <2> QED BY <1>1, <2>1, <2>2, RadioRaisesSome
<1>4. CASE RadioDisconnects
  <2>1. /\ \/ RadioRaises(<<CmdRsp("done"), Disconnected>>)
           \/ RadioRaises(<<CmdRsp("error")>>)
        /\ "done" \in CmdRsps /\ "error" \in CmdRsps
    BY <1>4 DEF RadioDisconnects, CmdRsps
  <2>2. /\ <<CmdRsp("done"), Disconnected>> \in Seq(Event)
        /\ <<CmdRsp("error")>> \in Seq(Event)
    BY <2>1, LinkMessages, EventSeqs
  <2> QED BY <1>1, <2>1, <2>2, RadioRaisesSome
<1>5. CASE RadioSends
  <2>1. RadioRaises(<< >>) \/ RadioRaises(<<PipeError(0)>>)
    BY <1>5 DEF RadioSends
  <2>2. << >> \in Seq(Event) /\ <<PipeError(0)>> \in Seq(Event)
    BY LinkMessages, EventSeqs
  <2> QED BY <1>1, <2>1, <2>2, RadioRaisesSome
<1>6. CASE RadioStores
  <2>1. PICK s \in CmdRsps : RadioRaises(<<CmdRsp(s)>>)
    BY <1>6 DEF RadioStores, CmdRsps
  <2>2. <<CmdRsp(s)>> \in Seq(Event)
    BY LinkMessages, EventSeqs
  <2> QED BY <1>1, <2>1, <2>2, RadioRaisesSome
<1> QED BY <1>2, <1>3, <1>4, <1>5, <1>6 DEF RadioActs

(* Events the radio raises by itself.                                      *)
LEMMA RadioStep ==
  ASSUME RadioStarts \/ CentralConnects \/ CentralWrites \/ CreditReturns \/ LinkEnds
  PROVE  HalNext
<1>1. PICK events \in Seq(Event) : RadioRaises(events) /\ UNCHANGED inbox
  <2>1. CASE RadioStarts
    <3>1. PICK n \in 0..1 : RadioRaises(<<Started(n)>>) /\ UNCHANGED inbox
      BY <2>1 DEF RadioStarts
    <3>2. <<Started(n)>> \in Seq(Event)
      BY LinkMessages, EventSeqs
    <3> QED BY <3>1, <3>2
  <2>2. CASE CentralConnects
    <3>1. RadioRaises(<<Connected>>) /\ UNCHANGED inbox
      BY <2>2 DEF CentralConnects
    <3> QED BY <3>1, LinkMessages, EventSeqs
  <2>3. CASE CentralWrites
    <3>1. RadioRaises(<<Received>>) /\ UNCHANGED inbox
      BY <2>3 DEF CentralWrites
    <3> QED BY <3>1, LinkMessages, EventSeqs
  <2>4. CASE LinkEnds
    <3>1. RadioRaises(<<Disconnected>>) /\ UNCHANGED inbox
      BY <2>4 DEF LinkEnds
    <3> QED BY <3>1, LinkMessages, EventSeqs
  <2>5. CASE CreditReturns
    <3>1. /\ UNCHANGED inbox
          /\ \/ \E n \in 1..2 : RadioRaises(<<DataCredit(n)>>)
             \/ RadioRaises(<<PipeError(0)>>)
             \/ RadioRaises(<<PipeError(1), DataCredit(1)>>)
      BY <2>5 DEF CreditReturns
    <3>2. \A n \in 1..2 : <<DataCredit(n)>> \in Seq(Event)
      BY LinkMessages, EventSeqs
    <3>3. /\ <<PipeError(0)>> \in Seq(Event)
          /\ <<PipeError(1), DataCredit(1)>> \in Seq(Event)
      BY LinkMessages, EventSeqs
    <3> QED BY <3>1, <3>2, <3>3
  <2> QED BY <2>1, <2>2, <2>3, <2>4, <2>5
<1> QED BY <1>1, RadioRaisesSome

(* The next message of the bond is one of those in EEPROM, or behind them.  *)
LEMMA ChunkStep ==
  ASSUME chunk \in 1..Chunks + 1, [Next]_vars
  PROVE  chunk' \in 1..Chunks + 1
<1>1. Chunks \in Nat \ {0}
  BY AciLinkAssumption
<1>2. CASE UNCHANGED chunk
  BY <1>2
<1>3. CASE chunk' = 1
  BY <1>1, <1>3
<1>4. CASE RestoreSend
  BY <1>1, <1>4 DEF RestoreSend
<1>5. UNCHANGED chunk \/ chunk' = 1 \/ RestoreSend
  <2>1. CASE Processor
    BY <2>1 DEF Processor, LibAciInit, EventGet, RestoreBegins, Advertise, CreditEvent,
       Ignored, Answers, Reply, NoReply, ReceiveFw, Activate, SysReset, Dropped, RestoreCompletes,
       RestoreGivesUp, RestoreGoesOn, QueueOnly, NoRestore, bondVars
  <2>2. CASE Watchdog
    BY <2>2 DEF Watchdog, CpuStarts, JumpCheck, NoRestore
  <2>3. CASE \/ RadioGrants \/ RadioStarts \/ RadioActs \/ CentralConnects
             \/ CentralWrites \/ CreditReturns \/ LinkEnds
    BY <2>3 DEF RadioGrants, RadioStarts, RadioActs, CentralConnects, CentralWrites,
       CreditReturns, LinkEnds, cpuVars, bondVars
  <2>4. CASE UNCHANGED vars
    BY <2>4 DEF vars, bondVars
  <2> QED BY <2>1, <2>2, <2>3, <2>4 DEF Next
<1> QED BY <1>2, <1>3, <1>4, <1>5

-----------------------------------------------------------------------------
(* How many commands are left behind by the transfer that brings an event:  *)
(* one, after the packet that completes an image, and else none.           *)
Left == IF completed THEN 1 ELSE 0

(* Why there is room: a transfer takes a command along, and every event but *)
(* that packet has one command at most in answer.                          *)
RoomInv ==
  /\ completed \in BOOLEAN
  /\ pc \in {"init", "dfu", "answered", "bond"} => event = None
  /\ pc = "init" => tx_q = << >>
  /\ event # None \/ pc \in {"dfu", "bond"} => Len(tx_q) <= Left
  /\ Len(tx_q) <= 1 + Left

(* What the refinement needs to know of a state.                           *)
LinkInv == HalTypeOK /\ chunk \in 1..Chunks + 1 /\ RoomInv

(* There is room for what the program may send.                            *)
LEMMA RoomThen ==
  ASSUME HalTypeOK, RoomInv
  PROVE  RoomForCommands /\ WithinSlots(tx_q)
<1>1. Len(tx_q) \in Nat /\ QueueSize \in Nat /\ QueueSize >= 2
  BY HalAssumption, AciLinkAssumption DEF HalTypeOK
<1>2. Left \in {0, 1} /\ Len(tx_q) <= 1 + Left
  BY DEF RoomInv, Left
<1>3. Len(tx_q) <= QueueSize
  BY <1>1, <1>2
<1>4. CASE event # None \/ pc \in {"dfu", "bond"}
  <2>1. Len(tx_q) <= Left
    BY <1>4 DEF RoomInv
  <2> QED BY <1>1, <1>2, <1>3, <2>1 DEF RoomForCommands, WithinSlots
<1>5. CASE pc = "init"
  <2>1. Len(tx_q) = 0
    BY <1>5 DEF RoomInv
  <2> QED BY <1>1, <1>3, <2>1 DEF RoomForCommands, WithinSlots
<1>6. CASE pc = "answered" /\ ~completed
  <2>1. Len(tx_q) <= 1
    BY <1>1, <1>2, <1>6 DEF Left
  <2> QED BY <1>1, <1>3, <2>1 DEF RoomForCommands, WithinSlots
<1>7. CASE ~(event # None \/ pc \in {"init", "dfu", "bond"} \/ (pc = "answered" /\ ~completed))
  BY <1>3, <1>7 DEF RoomForCommands, WithinSlots
<1> QED BY <1>4, <1>5, <1>6, <1>7

(* With room, a command is queued.                                         *)
LEMMA RoomySend ==
  ASSUME HalTypeOK, NEW c \in Fits, HalSend(c), Len(tx_q) < QueueSize
  PROVE  Sent /\ Len(tx_q') = Len(tx_q) + 1 /\ Len(tx_q) \in Nat
<1>1. tx_q \in Seq(Fits)
  BY DEF HalTypeOK
<1>2. tx_q' = Append(tx_q, c)
  BY DEF HalSend, AfterSend
<1>3. Len(Append(tx_q, c)) = Len(tx_q) + 1 /\ Len(tx_q) \in Nat
  BY <1>1
<1>4. Append(tx_q, c) # tx_q
  BY <1>3
<1> QED BY <1>2, <1>3, <1>4 DEF Sent

(* The handlers of events, by what they do to the queue.                   *)
Sends == Advertise \/ Activate \/ SysReset \/ RestoreCompletes \/ RestoreGivesUp
Keeps == \/ RestoreBegins \/ CreditEvent \/ Ignored \/ Answers \/ ReceiveFw
         \/ Dropped \/ RestoreGoesOn

(* A handler that sends is done with the event.                            *)
LEMMA SendsOne ==
  ASSUME HalTypeOK, Sends
  PROVE  /\ event # None /\ event' = None
         /\ \E c \in Fits : HalSend(c)
         /\ pc' \in {"poll", "activate", "stuck"} /\ UNCHANGED completed
<1>1. /\ None # Received /\ None # Disconnected /\ None # Started(0)
      /\ \A s \in CmdRsps : CmdRsp(s) # None
  BY LinkMessages, HalAssumption
<1>2. "reset_done" \in CmdRsps
  BY DEF CmdRsps
<1>3. Connect \in Fits /\ Disconnect \in Fits /\ RadioReset \in Fits
  BY LinkMessages
<1>4. CASE Advertise
  BY <1>1, <1>2, <1>3, <1>4 DEF Advertise, Dispatched, Handled, EventUsed, dfuVars
<1>5. CASE Activate
  BY <1>1, <1>3, <1>5 DEF Activate, Dispatched, Handled, EventUsed
<1>6. CASE SysReset
  BY <1>1, <1>3, <1>6 DEF SysReset, Dispatched, Handled, EventUsed, dfuVars
<1>7. CASE RestoreCompletes
  BY <1>1, <1>3, <1>7 DEF RestoreCompletes, Waiting, Handled, EventUsed, dfuVars
<1>8. CASE RestoreGivesUp
  BY <1>1, <1>3, <1>8 DEF RestoreGivesUp, Waiting, Handled, EventUsed, dfuVars
<1> QED BY <1>4, <1>5, <1>6, <1>7, <1>8 DEF Sends

(* So is one that does not; it may have the program go on to send.         *)
LEMMA KeepsQueue ==
  ASSUME HalTypeOK, Keeps, completed \in BOOLEAN
  PROVE  /\ event # None /\ event' = None /\ UNCHANGED tx_q
         /\ pc' \notin {"init", "answered"}
         /\ completed' \in BOOLEAN
         /\ pc' \in {"dfu", "bond"} => UNCHANGED completed
<1>1. None # Received /\ None # Started(0) /\ None # Started(1)
      /\ \A s \in CmdRsps : CmdRsp(s) # None
  BY LinkMessages, HalAssumption
<1>2. CASE RestoreBegins
  BY <1>1, <1>2 DEF RestoreBegins, Dispatched, Handled, NothingSent, EventUsed, dfuVars
<1>3. CASE CreditEvent
  BY <1>3 DEF CreditEvent, Handled, NothingSent, EventUsed, dfuVars
<1>4. CASE Ignored
  BY <1>1, <1>4 DEF Ignored, Dispatched, Handled, NothingSent, EventUsed, dfuVars
<1>5. CASE Answers
  BY <1>1, <1>5 DEF Answers, Dispatched, Handled, NothingSent, EventUsed, dfuVars
<1>6. CASE ReceiveFw
  BY <1>1, <1>6 DEF ReceiveFw, Dispatched, Handled, NothingSent, EventUsed
<1>7. CASE Dropped
  BY <1>7 DEF Dropped, DropsEvent, Handled, NothingSent, EventUsed, dfuVars
<1>8. CASE RestoreGoesOn
  BY <1>1, <1>8 DEF RestoreGoesOn, Waiting, Handled, NothingSent, EventUsed, dfuVars
<1> QED BY <1>2, <1>3, <1>4, <1>5, <1>6, <1>7, <1>8 DEF Keeps

(* Every step of the program leaves room.                                  *)
LEMMA RoomProcessor ==
  ASSUME HalTypeOK, chunk \in 1..Chunks + 1, RoomInv, Processor
  PROVE  RoomInv'
<1>1. /\ Len(tx_q) \in Nat /\ QueueSize \in Nat /\ QueueSize >= 2
      /\ completed \in BOOLEAN /\ Len(tx_q) <= 1 + Left /\ Left \in {0, 1}
      /\ tx_q \in Seq(Fits) /\ outbox \in Seq(Event)
  BY HalAssumption, AciLinkAssumption DEF HalTypeOK, RoomInv, Left
<1>2. RoomForCommands
  BY RoomThen
<1> DEFINE left == Left'
           n == Len(tx_q')
<1>3. CASE Sends
  <2>1. /\ event # None /\ event' = None
        /\ pc' \in {"poll", "activate", "stuck"} /\ UNCHANGED completed
    BY <1>3, SendsOne
  <2>2. PICK c \in Fits : HalSend(c)
    BY <1>3, SendsOne
  <2>3. Len(tx_q) <= Left /\ Len(tx_q) < QueueSize
    BY <1>2, <2>1 DEF RoomInv, RoomForCommands
  <2>4. n = Len(tx_q) + 1 /\ left = Left
    BY <2>1, <2>2, <2>3, RoomySend DEF Left
  <2> HIDE DEF n, left
  <2>5. n <= 1 + left
    BY <1>1, <2>3, <2>4
  <2> QED BY <1>1, <2>1, <2>5 DEF RoomInv, n, left
<1>4. CASE Keeps
  <2>1. /\ event # None /\ event' = None /\ UNCHANGED tx_q
        /\ pc' \notin {"init", "answered"} /\ completed' \in BOOLEAN
        /\ pc' \in {"dfu", "bond"} => UNCHANGED completed
    BY <1>1, <1>4, KeepsQueue
  <2>2. Len(tx_q) <= Left
    BY <2>1 DEF RoomInv
  <2>3. /\ n = Len(tx_q) /\ left \in {0, 1}
        /\ pc' \in {"dfu", "bond"} => left = Left
    BY <2>1 DEF Left
  <2> HIDE DEF n, left
  <2>4. n <= 1 + left /\ (pc' \in {"dfu", "bond"} => n <= left)
    BY <1>1, <2>2, <2>3
  <2> QED BY <2>1, <2>4 DEF RoomInv, n, left
<1>5. CASE LibAciInit
  <2>1. /\ pc' = "poll" /\ UNCHANGED <<event, completed>> /\ event = None /\ Len(tx_q) = 0
    BY <1>5 DEF LibAciInit, QueueOnly, dfuVars, RoomInv
  <2>2. n <= 1
    <3>1. CASE rdyn
      BY <1>5, <2>1, <3>1 DEF LibAciInit, NothingSent
    <3>2. CASE ~rdyn
      <4>1. HalSend(RadioReset) /\ RadioReset \in Fits
        BY <1>5, <3>2, LinkMessages DEF LibAciInit
      <4>2. Sent /\ Len(tx_q') = Len(tx_q) + 1
        BY <1>1, <2>1, <4>1, RoomySend
      <4> QED BY <2>1, <4>2
    <3> QED BY <3>1, <3>2
  <2>3. left = Left /\ n \in Nat
    <3>1. CASE rdyn
      BY <1>1, <1>5, <2>1, <3>1 DEF LibAciInit, NothingSent, Left
    <3>2. CASE ~rdyn
      <4>1. HalSend(RadioReset) /\ RadioReset \in Fits
        BY <1>5, <3>2, LinkMessages DEF LibAciInit
      <4> QED BY <1>1, <2>1, <4>1, RoomySend DEF Left
    <3> QED BY <3>1, <3>2
  <2> HIDE DEF n, left
  <2>4. n <= 1 + left
    BY <1>1, <2>2, <2>3
  <2> QED BY <1>1, <2>1, <2>4 DEF RoomInv, n, left
<1>6. CASE Reply
  <2>1. /\ pc = "dfu" \/ (pc = "answered" /\ ~completed)
        /\ event' = None /\ HalSend(SendData) /\ SendData \in Fits
        /\ pc' = IF pc = "dfu" THEN "answered" ELSE "poll"
        /\ completed' = (completed \/ pc = "answered")
    BY <1>6, LinkMessages DEF Reply, QueueOnly, RoomInv
  <2>2. Len(tx_q) < QueueSize
    BY <1>2, <2>1 DEF RoomForCommands
  <2>3. n = Len(tx_q) + 1
    BY <2>1, <2>2, RoomySend
  <2>4. CASE pc = "dfu"
    <3>1. Len(tx_q) <= Left /\ left = Left /\ completed' = completed /\ pc' = "answered"
      BY <1>1, <2>1, <2>4 DEF RoomInv, Left
    <3> HIDE DEF n, left
    <3>2. n <= 1 + left
      BY <1>1, <2>3, <3>1
    <3> QED BY <1>1, <2>1, <3>1, <3>2 DEF RoomInv, n, left
  <2>5. CASE pc = "answered" /\ ~completed
    <3>1. Left = 0 /\ left = 1 /\ completed' = TRUE /\ pc' = "poll"
      BY <2>1, <2>5 DEF Left
    <3> HIDE DEF n, left
    <3>2. n <= 1 + left
      BY <1>1, <2>3, <3>1
    <3> QED BY <2>1, <3>1, <3>2 DEF RoomInv, n, left
  <2> QED BY <2>1, <2>4, <2>5
<1>7. CASE NoReply
  <2>1. pc' = "poll" /\ event' = None /\ UNCHANGED <<tx_q, completed>>
    BY <1>7 DEF NoReply, NothingSent, QueueOnly, dfuVars, RoomInv
  <2> QED BY <1>1, <2>1 DEF RoomInv, Left
<1>8. CASE RestoreSend
  <2>1. /\ HalSend(WriteDynamic(chunk)) /\ WriteDynamic(chunk) \in Fits
        /\ pc = "bond" /\ pc' \in {"waiting", "poll"} /\ event' = None /\ UNCHANGED completed
    BY <1>8, LinkMessages DEF RestoreSend, dfuVars, RoomInv
  <2>2. Len(tx_q) <= Left /\ Len(tx_q) < QueueSize
    BY <1>2, <2>1 DEF RoomInv, RoomForCommands
  <2>3. n = Len(tx_q) + 1 /\ left = Left
    BY <2>1, <2>2, RoomySend DEF Left
  <2> HIDE DEF n, left
  <2>4. n <= 1 + left
    BY <1>1, <2>2, <2>3
  <2> QED BY <1>1, <2>1, <2>4 DEF RoomInv, n, left
<1>9. CASE EventGet
  <2>1. /\ pc \in {"poll", "waiting", "activate"} /\ event = None
        /\ HalEventGet /\ UNCHANGED <<pc, completed>> /\ left = Left
    BY <1>9 DEF EventGet, dfuVars, Left
  <2>2. CASE EventGetIdle
    <3>1. UNCHANGED tx_q /\ event' = None
      BY <2>2 DEF EventGetIdle, HandsOut, First, HalTypeOK
    <3> QED BY <1>1, <2>1, <3>1 DEF RoomInv
  <2>3. CASE EventGetTransfer
    <3>1. tx_q' = Rest(tx_q)
      BY <2>3, TransferMoves
    <3>2. n = IF tx_q = << >> THEN 0 ELSE Len(tx_q) - 1
      BY <1>1, <3>1 DEF Rest
    <3>3. tx_q # << >> => Len(tx_q) # 0
      BY <1>1
    <3> HIDE DEF n, left
    <3>4. n <= left /\ n <= 1 + left
      BY <1>1, <2>1, <3>2, <3>3
    <3> QED BY <1>1, <2>1, <3>4 DEF RoomInv, n, left
  <2> QED BY <2>1, <2>2, <2>3 DEF HalEventGet
<1> QED
  BY <1>3, <1>4, <1>5, <1>6, <1>7, <1>8, <1>9 DEF Processor, Sends, Keeps

(* So does every other.                                                    *)
LEMMA RoomStep ==
  ASSUME HalTypeOK, chunk \in 1..Chunks + 1, RoomInv, [Next]_vars
  PROVE  RoomInv'
<1>1. CASE Processor
  BY <1>1, RoomProcessor
<1>2. CASE Watchdog
  <2>1. /\ tx_q' = << >> /\ event' = None /\ pc' \in {"app", "init"} /\ completed' = FALSE
    BY <1>2 DEF Watchdog, HalInitialised, CpuStarts, JumpCheck
  <2>2. Len(tx_q') = 0 /\ Left' = 0
    BY <2>1 DEF Left
  <2>3. Len(tx_q') <= Left' /\ Len(tx_q') <= 1 + Left'
    BY <2>2
  <2> QED BY <2>1, <2>3 DEF RoomInv
<1>3. CASE \/ RadioGrants \/ RadioStarts \/ RadioActs \/ CentralConnects
           \/ CentralWrites \/ CreditReturns \/ LinkEnds
  <2>1. UNCHANGED <<pc, completed>>
    BY <1>3 DEF RadioGrants, RadioStarts, RadioActs, CentralConnects, CentralWrites,
       CreditReturns, LinkEnds, cpuVars, dfuVars
  <2>2. UNCHANGED <<tx_q, event>>
    BY <1>3 DEF RadioGrants, RadioReady, RadioStarts, RadioActs, RadioResets,
       RadioAdvertises, RadioDisconnects, RadioSends, RadioStores, CentralConnects,
       CentralWrites, CreditReturns, LinkEnds, RadioRaises
  <2> QED BY <2>1, <2>2 DEF RoomInv, Left
<1>4. CASE UNCHANGED vars
  BY <1>4 DEF vars, halVars, dfuVars, RoomInv, Left
<1> QED BY <1>1, <1>2, <1>3, <1>4 DEF Next

(* A step of the link is a step of the transport with a careful processor,  *)
(* or none.                                                                *)
LEMMA LinkStep ==
  ASSUME LinkInv, [Next]_vars
  PROVE  [HalNext /\ WithinSlots(tx_q')]_halVars
<1>0. HalTypeOK /\ chunk \in 1..Chunks + 1 /\ RoomInv
  BY DEF LinkInv
<1>7. [HalNext]_halVars
  <2>1. CASE Processor
    BY <1>0, <2>1, ProcessorStep
  <2>2. CASE Watchdog
    <3>1. HalInitialised /\ UNCHANGED <<inbox, outbox>>
      BY <2>2 DEF Watchdog
    <3>2. rdyn' \in {FALSE, rdyn}
      BY <1>0, <2>2 DEF Watchdog, HalTypeOK
    <3> QED BY <3>1, <3>2 DEF HalNext
  <2>3. CASE RadioGrants
    BY <2>3 DEF RadioGrants, HalNext
  <2>4. CASE RadioActs
    BY <2>4, RadioActsStep
  <2>5. CASE RadioStarts \/ CentralConnects \/ CentralWrites \/ CreditReturns \/ LinkEnds
    BY <2>5, RadioStep
  <2>6. CASE UNCHANGED vars
    BY <2>6 DEF vars, halVars
  <2> QED BY <2>1, <2>2, <2>3, <2>4, <2>5, <2>6 DEF Next
<1>8. WithinSlots(tx_q')
  <2>1. RoomInv'
    BY <1>0, RoomStep
  <2>2. Left' \in {0, 1} /\ Len(tx_q') <= 1 + Left'
    BY <2>1 DEF RoomInv, Left
  <2>3. QueueSize \in Nat /\ QueueSize >= 2
    BY HalAssumption, AciLinkAssumption
  <2>4. Len(tx_q') \in Int
    OBVIOUS
  <2> DEFINE n == Len(tx_q')
             left == Left'
  <2>5. left \in {0, 1} /\ n <= 1 + left /\ n \in Int
    BY <2>2, <2>4
  <2> HIDE DEF n, left
  <2>6. n <= QueueSize
    BY <2>3, <2>5
  <2> QED BY <2>6 DEF WithinSlots, n
<1> QED BY <1>7, <1>8

(* It holds throughout.                                                    *)
LEMMA LinkInvariant == Spec => []LinkInv
<1>1. Init => LinkInv
  <2> SUFFICES ASSUME Init PROVE LinkInv
    OBVIOUS
  <2>1. HalTypeOK
    BY HalStartsTyped DEF Init
  <2>2. Chunks \in Nat \ {0}
    BY AciLinkAssumption
  <2>3. RoomInv
    <3>1. tx_q = << >> /\ event = None /\ pc = "init" /\ completed = FALSE
      BY DEF Init, HalInit
    <3>2. Len(tx_q) = 0 /\ Left = 0
      BY <3>1 DEF Left
    <3>3. Len(tx_q) <= Left /\ Len(tx_q) <= 1 + Left
      BY <3>2
    <3> QED BY <3>1, <3>3 DEF RoomInv
  <2> QED BY <2>1, <2>2, <2>3 DEF Init, LinkInv
<1>2. LinkInv /\ [Next]_vars => LinkInv'
  <2> SUFFICES ASSUME LinkInv, [Next]_vars PROVE LinkInv'
    OBVIOUS
  <2>1. [HalNext /\ WithinSlots(tx_q')]_halVars
    BY LinkStep
  <2>2. HalTypeOK'
    BY <2>1, HalTypeStep DEF LinkInv
  <2>3. chunk' \in 1..Chunks + 1
    BY ChunkStep DEF LinkInv
  <2>4. RoomInv'
    BY RoomStep DEF LinkInv
  <2> QED BY <2>2, <2>3, <2>4 DEF LinkInv
<1> QED BY <1>1, <1>2, PTL DEF Spec

(* There is room in the queue whenever the program may send: however it is  *)
(* interleaved with the radio, the central and the watchdog, nothing is     *)
(* sent into a full queue (dfu.c m_send, dfu_reset; bonding.c;              *)
(* aci_queue_is_full).                                                     *)
THEOREM LinkHasRoom == Spec => []RoomForCommands
<1>1. LinkInv => RoomForCommands
  BY RoomThen DEF LinkInv
<1> QED BY <1>1, LinkInvariant, PTL

(* The bootloader and its radio use the transport as it wants to be used:   *)
(* through resets by the watchdog and the DFU procedure, connections that   *)
(* come and go and the restoring of a bond (optiboot.c, bonding.c).        *)
THEOREM LinkUsesTransport == Spec => HalCarefulSpec
<1>1. Init => HalInit
  BY DEF Init
<1>2. LinkInv /\ [Next]_vars => [HalNext /\ WithinSlots(tx_q')]_halVars
  BY LinkStep
<1> QED BY <1>1, <1>2, LinkInvariant, PTL DEF Spec, HalCarefulSpec

(* So messages between the bootloader and its radio are not lost, cut,      *)
(* repeated or overtaken (hal_aci_tl.c).                                   *)
THEOREM LinkIsChannel == Spec => IsChannel
BY LinkUsesTransport, TransportIsChannel

(* No transfer of the link reads behind a command's buffer                  *)
(* (m_aci_spi_transfer).                                                   *)
THEOREM LinkReadsWithinBuffer == Spec => []ReadsWithinBuffer
<1>1. LinkInv => ReadsWithinBuffer
  <2> SUFFICES ASSUME LinkInv PROVE ReadsWithinBuffer
    OBVIOUS
  <2> DEFINE sent == LengthOf(First(tx_q))
             received == LengthOf(First(outbox))
  <2>1. First(tx_q) \in Fits \cup {None} /\ First(outbox) \in Event \cup {None}
    BY OldestOfQueue DEF LinkInv, HalTypeOK
  <2>2. MaxLen \in Nat /\ sent \in 0..MaxLen
    BY <2>1, HalAssumption, FitsAre DEF LengthOf
  <2>3. received \in 0..MaxLen /\ (received < MaxLen \/ MaxLen = 0)
    BY <2>1, HalAssumption, AciLinkAssumption DEF LengthOf
  <2>4. MaxLen # 0
    <3>1. Connected \in Event /\ Length[Connected] \in 1..MaxLen
      BY LinkMessages, HalAssumption
    <3> QED BY <3>1, <2>2
  <2> HIDE DEF sent, received
  <2>5. Longer(sent, received) \in Nat /\ Longer(sent, received) < MaxLen
    BY <2>2, <2>3, <2>4 DEF Longer
  <2>6. MaxBytes(sent, received) + 2 <= MaxLen + 1
    BY <2>2, <2>5 DEF MaxBytes
  <2> QED BY <2>6 DEF ReadsWithinBuffer, sent, received
<1> QED BY <1>1, LinkInvariant, PTL

-----------------------------------------------------------------------------
(* The answer that says the bond is complete.                              *)
Complete == CmdRsp("complete")

(* Why the program's belief is true: the answer that makes it believe is    *)
(* only under way, or in hand, when the radio has the whole bond, and the    *)
(* radio never forgets it.                                                 *)
BondInv ==
  /\ LinkInv
  /\ restored \in 0..Chunks
  /\ \A i \in 1..Len(outbox) : outbox[i] = Complete => restored = Chunks
  /\ event = Complete => restored = Chunks
  /\ bonded => restored = Chunks

(* Only the radio changes what it has stored, and it stores no more than    *)
(* the bond.                                                               *)
LEMMA RestoredStep ==
  ASSUME restored \in 0..Chunks, [Next]_vars
  PROVE  restored' \in 0..Chunks /\ (restored = Chunks => restored' = Chunks)
<1>1. Chunks \in Nat
  BY AciLinkAssumption
<1>2. CASE UNCHANGED restored
  BY <1>2
<1>3. CASE RadioStores
  BY <1>1, <1>3 DEF RadioStores
<1>4. UNCHANGED restored \/ RadioStores
  <2>1. CASE Processor
    BY <2>1 DEF Processor, LibAciInit, EventGet, RestoreBegins, Advertise, CreditEvent,
       Ignored, Answers, Reply, NoReply, ReceiveFw, Activate, SysReset, Dropped, RestoreSend,
       RestoreCompletes, RestoreGivesUp, RestoreGoesOn, QueueOnly, Handled, radioVars
  <2>2. CASE RadioActs
    BY <2>2 DEF RadioActs, RadioResets, RadioAdvertises, RadioDisconnects, RadioSends
  <2>3. CASE \/ Watchdog \/ RadioGrants \/ RadioStarts \/ CentralConnects
             \/ CentralWrites \/ CreditReturns \/ LinkEnds
    BY <2>3 DEF Watchdog, RadioGrants, RadioStarts, CentralConnects, CentralWrites,
       CreditReturns, LinkEnds, radioVars
  <2>4. CASE UNCHANGED vars
    BY <2>4 DEF vars, radioVars
  <2> QED BY <2>1, <2>2, <2>3, <2>4 DEF Next
<1> QED BY <1>2, <1>3, <1>4

(* The belief comes from the answer in hand (bond_data_restore).           *)
LEMMA BondedStep ==
  ASSUME [Next]_vars, bonded'
  PROVE  bonded \/ event = Complete
<1>1. CASE Processor
  <2>1. CASE RestoreCompletes
    BY <2>1 DEF RestoreCompletes, IsComplete, Waiting, Complete
  <2>2. CASE ~RestoreCompletes
    BY <1>1, <2>2 DEF Processor, LibAciInit, EventGet, RestoreBegins, Advertise,
       CreditEvent, Ignored, Answers, Reply, NoReply, ReceiveFw, Activate, SysReset, Dropped,
       RestoreSend, RestoreGivesUp, RestoreGoesOn, QueueOnly, bondVars
  <2> QED BY <2>1, <2>2
<1>2. CASE Watchdog
  BY <1>2 DEF Watchdog, CpuStarts, JumpCheck
<1>3. CASE \/ RadioGrants \/ RadioStarts \/ RadioActs \/ CentralConnects
           \/ CentralWrites \/ CreditReturns \/ LinkEnds
  BY <1>3 DEF RadioGrants, RadioStarts, RadioActs, CentralConnects, CentralWrites,
     CreditReturns, LinkEnds, cpuVars, bondVars
<1>4. CASE UNCHANGED vars
  BY <1>4 DEF vars, bondVars
<1> QED BY <1>1, <1>2, <1>3, <1>4 DEF Next

(* How a step of the link changes the events under way: they stay, the      *)
(* oldest leaves, or some join; that of a complete bond only when it is.    *)
Raised(events) ==
  /\ outbox' = outbox \o events
  /\ UNCHANGED event
  /\ \A i \in 1..Len(events) : events[i] = Complete => restored' = Chunks

(* The messages the radio raises in its answer to a command.               *)
LEMMA ActsRaises ==
  ASSUME RadioActs
  PROVE  \E events \in Seq(Event) : Raised(events)
<1>1. Disconnected # Complete /\ PipeError(0) # Complete
  BY DEF Disconnected, PipeError, Complete, CmdRsp, Msg
<1>2. \A s \in CmdRsps \ {"complete"} : CmdRsp(s) # Complete
  BY DEF Complete, CmdRsp, Msg
<1>3. \A e \in Event :
        e # Complete => \A i \in 1..Len(<<e>>) : <<e>>[i] # Complete
  OBVIOUS
<1>4. /\ {"reset_done", "done", "error", "continue"} \subseteq CmdRsps \ {"complete"}
      /\ "complete" \in CmdRsps
  BY DEF CmdRsps
<1>5. CASE RadioResets \/ RadioAdvertises
  <2>1. PICK s \in CmdRsps \ {"complete"} : RadioRaises(<<CmdRsp(s)>>)
    BY <1>4, <1>5 DEF RadioResets, RadioAdvertises
  <2>2. CmdRsp(s) \in Event /\ CmdRsp(s) # Complete
    BY <1>2, LinkMessages
  <2>3. <<CmdRsp(s)>> \in Seq(Event) /\ Raised(<<CmdRsp(s)>>)
    BY <1>3, <2>1, <2>2, EventSeqs DEF RadioRaises, Raised
  <2> QED BY <2>3
<1>6. CASE RadioDisconnects
  <2>1. CASE RadioRaises(<<CmdRsp("error")>>)
    <3>1. CmdRsp("error") \in Event /\ CmdRsp("error") # Complete
      BY <1>2, <1>4, LinkMessages
    <3>2. <<CmdRsp("error")>> \in Seq(Event) /\ Raised(<<CmdRsp("error")>>)
      BY <1>3, <2>1, <3>1, EventSeqs DEF RadioRaises, Raised
    <3> QED BY <3>2
  <2>2. CASE RadioRaises(<<CmdRsp("done"), Disconnected>>)
    <3> DEFINE d == CmdRsp("done")
               both == <<d, Disconnected>>
    <3>1. d \in Event /\ d # Complete /\ Disconnected \in Event
      BY <1>2, <1>4, LinkMessages
    <3>2. both \in Seq(Event) /\ RadioRaises(both)
      BY <2>2, <3>1, EventSeqs
    <3> HIDE DEF d
    <3>3. \A i \in 1..Len(both) : both[i] # Complete
      BY <1>1, <3>1
    <3> HIDE DEF both
    <3>4. Raised(both)
      BY <3>2, <3>3 DEF RadioRaises, Raised
    <3> QED BY <3>2, <3>4
  <2> QED BY <1>6, <2>1, <2>2 DEF RadioDisconnects
<1>7. CASE RadioSends
  <2>1. CASE RadioRaises(<< >>)
    <3>1. 1..Len(<< >>) = {} /\ << >> \in Seq(Event)
      BY EventSeqs
    <3>2. Raised(<< >>)
      BY <2>1, <3>1 DEF RadioRaises, Raised
    <3> QED BY <3>1, <3>2
  <2>2. CASE RadioRaises(<<PipeError(0)>>)
    <3>1. <<PipeError(0)>> \in Seq(Event) /\ Raised(<<PipeError(0)>>)
      BY <1>1, <1>3, <2>2, LinkMessages, EventSeqs DEF RadioRaises, Raised
    <3> QED BY <3>1
  <2> QED BY <1>7, <2>1, <2>2 DEF RadioSends
<1>8. CASE RadioStores
  <2>1. PICK s \in CmdRsps : /\ RadioRaises(<<CmdRsp(s)>>)
                             /\ s = "complete" => restored' = Chunks
    BY <1>4, <1>8 DEF RadioStores
  <2>2. CmdRsp(s) \in Event /\ (CmdRsp(s) = Complete => restored' = Chunks)
    BY <1>2, <2>1, LinkMessages
  <2>3. <<CmdRsp(s)>> \in Seq(Event) /\ Raised(<<CmdRsp(s)>>)
    BY <1>3, <2>1, <2>2, EventSeqs DEF RadioRaises, Raised
  <2> QED BY <2>3
<1> QED BY <1>5, <1>6, <1>7, <1>8 DEF RadioActs

(* The events the radio raises by itself are no answers.                   *)
LEMMA SelfRaises ==
  ASSUME RadioStarts \/ CentralConnects \/ CentralWrites \/ CreditReturns \/ LinkEnds
  PROVE  \E events \in Seq(Event) : Raised(events)
<1> DEFINE Other == {e \in Event : e # Complete}
<1>1. /\ \A n \in 0..1 : Started(n) \in Other /\ PipeError(n) \in Other
      /\ \A n \in 1..2 : DataCredit(n) \in Other
      /\ Connected \in Other /\ Disconnected \in Other /\ Received \in Other
  BY LinkMessages DEF Started, PipeError, DataCredit, Connected, Disconnected, Received,
     Complete, CmdRsp, Msg
<1> HIDE DEF Other
<1>2. ASSUME NEW e \in Other, RadioRaises(<<e>>)
      PROVE  \E events \in Seq(Event) : Raised(events)
  <2>1. e \in Event /\ e # Complete
    BY DEF Other
  <2>2. \A i \in 1..Len(<<e>>) : <<e>>[i] # Complete
    BY <2>1
  <2>3. <<e>> \in Seq(Event) /\ Raised(<<e>>)
    BY <1>2, <2>1, <2>2, EventSeqs DEF RadioRaises, Raised
  <2> QED BY <2>3
<1>3. ASSUME NEW e \in Other, NEW f \in Other, RadioRaises(<<e, f>>)
      PROVE  \E events \in Seq(Event) : Raised(events)
  <2>1. e \in Event /\ e # Complete /\ f \in Event /\ f # Complete
    BY DEF Other
  <2> DEFINE both == <<e, f>>
  <2>2. both \in Seq(Event) /\ RadioRaises(both)
    BY <1>3, <2>1, EventSeqs
  <2>3. Len(both) = 2 /\ both[1] = e /\ both[2] = f
    OBVIOUS
  <2> HIDE DEF both
  <2>4. \A i \in 1..Len(both) : both[i] # Complete
    <3>1. \A i \in 1..2 : i = 1 \/ i = 2
      OBVIOUS
    <3> QED BY <2>1, <2>3, <3>1
  <2>5. Raised(both)
    BY <2>2, <2>4 DEF RadioRaises, Raised
  <2> QED BY <2>2, <2>5
<1>4. \/ \E e \in Other : RadioRaises(<<e>>)
      \/ \E e, f \in Other : RadioRaises(<<e, f>>)
  <2>1. CASE RadioStarts
    BY <1>1, <2>1 DEF RadioStarts
  <2>2. CASE CentralConnects
    BY <1>1, <2>2 DEF CentralConnects
  <2>3. CASE CentralWrites
    BY <1>1, <2>3 DEF CentralWrites
  <2>4. CASE CreditReturns
    <3>1. \/ \E n \in 1..2 : RadioRaises(<<DataCredit(n)>>)
          \/ RadioRaises(<<PipeError(0)>>)
          \/ RadioRaises(<<PipeError(1), DataCredit(1)>>)
      BY <2>4 DEF CreditReturns
    <3>2. \A n \in 1..2 : RadioRaises(<<DataCredit(n)>>) => \E e \in Other : RadioRaises(<<e>>)
      BY <1>1
    <3>3. PipeError(0) \in Other /\ PipeError(1) \in Other /\ DataCredit(1) \in Other
      BY <1>1
    <3> QED BY <3>1, <3>2, <3>3
  <2>5. CASE LinkEnds
    BY <1>1, <2>5 DEF LinkEnds
  <2> QED BY <2>1, <2>2, <2>3, <2>4, <2>5
<1> QED BY <1>2, <1>3, <1>4

(* What a step of the link does to the events under way and in hand.       *)
LEMMA EventsStep ==
  ASSUME LinkInv, [Next]_vars
  PROVE  \/ UNCHANGED outbox /\ event' \in {event, None}
         \/ outbox' = Rest(outbox) /\ event' = First(outbox)
         \/ \E events \in Seq(Event) : Raised(events)
<1>1. CASE EventGet
  <2>1. CASE EventGetTransfer
    BY <2>1, TransferMoves DEF LinkInv
  <2>2. CASE EventGetIdle
    BY <2>2 DEF EventGetIdle, HandsOut, First, LinkInv, HalTypeOK
  <2> QED BY <1>1, <2>1, <2>2 DEF EventGet, HalEventGet
<1>2. CASE Processor /\ ~EventGet
  BY <1>2 DEF Processor, LibAciInit, RestoreBegins, Advertise, CreditEvent,
     Ignored, Answers, Reply, NoReply, ReceiveFw, Activate, SysReset, Dropped, RestoreSend,
     RestoreCompletes, RestoreGivesUp, RestoreGoesOn, QueueOnly, Handled, EventUsed
<1>3. CASE Watchdog
  BY <1>3 DEF Watchdog, HalInitialised
<1>4. CASE RadioGrants
  BY <1>4 DEF RadioGrants, RadioReady
<1>5. CASE RadioActs
  BY <1>5, ActsRaises
<1>6. CASE RadioStarts \/ CentralConnects \/ CentralWrites \/ CreditReturns \/ LinkEnds
  BY <1>6, SelfRaises
<1>7. CASE UNCHANGED vars
  BY <1>7 DEF vars, halVars
<1> QED BY <1>1, <1>2, <1>3, <1>4, <1>5, <1>6, <1>7 DEF Next

(* A step keeps the bond's invariant.                                      *)
LEMMA BondStep ==
  ASSUME BondInv, LinkInv', [Next]_vars
  PROVE  BondInv'
<1>1. restored' \in 0..Chunks /\ (restored = Chunks => restored' = Chunks)
  BY RestoredStep DEF BondInv
<1>2. bonded' => restored' = Chunks
  BY <1>1, BondedStep DEF BondInv
<1>3. outbox \in Seq(Event) /\ None # Complete
  <2>1. Complete \in Event
    BY LinkMessages DEF Complete, CmdRsps
  <2> QED BY <2>1, HalAssumption DEF BondInv, LinkInv, HalTypeOK
<1>4. ASSUME UNCHANGED outbox, event' \in {event, None}
      PROVE  BondInv'
  BY <1>1, <1>2, <1>3, <1>4 DEF BondInv
<1>5. ASSUME outbox' = Rest(outbox), event' = First(outbox)
      PROVE  BondInv'
  <2>1. CASE outbox = << >>
    BY <1>1, <1>2, <1>3, <1>5, <2>1 DEF BondInv, First, Rest
  <2>2. CASE outbox # << >>
    <3>1. event' = outbox[1] /\ outbox' = Tail(outbox)
      BY <1>5, <2>2 DEF First, Rest
    <3>2. /\ 1 \in 1..Len(outbox)
          /\ \A i \in 1..Len(Tail(outbox)) : i + 1 \in 1..Len(outbox)
                                          /\ Tail(outbox)[i] = outbox[i + 1]
      BY <1>3, <2>2
    <3>3. event' = Complete => restored' = Chunks
      BY <1>1, <3>1, <3>2 DEF BondInv
    <3>4. \A i \in 1..Len(outbox') : outbox'[i] = Complete => restored' = Chunks
      BY <1>1, <3>1, <3>2 DEF BondInv
    <3> QED BY <1>1, <1>2, <3>3, <3>4 DEF BondInv
  <2> QED BY <2>1, <2>2
<1>6. ASSUME NEW events \in Seq(Event), Raised(events)
      PROVE  BondInv'
  <2>1. /\ Len(outbox \o events) = Len(outbox) + Len(events)
        /\ Len(outbox) \in Nat /\ Len(events) \in Nat
        /\ \A i \in 1..Len(outbox \o events) :
             \/ i \in 1..Len(outbox) /\ (outbox \o events)[i] = outbox[i]
             \/ /\ i - Len(outbox) \in 1..Len(events)
                /\ (outbox \o events)[i] = events[i - Len(outbox)]
    BY <1>3
  <2>2. outbox' = outbox \o events /\ event' = event
    BY <1>6 DEF Raised
  <2>3. \A i \in 1..Len(outbox') : outbox'[i] = Complete => restored' = Chunks
    BY <1>1, <1>6, <2>1, <2>2 DEF BondInv, Raised
  <2>4. event' = Complete => restored' = Chunks
    BY <1>1, <2>2 DEF BondInv
  <2> QED BY <1>1, <1>2, <2>3, <2>4 DEF BondInv
<1> QED BY <1>4, <1>5, <1>6, EventsStep DEF BondInv

(* The program believes the device bonded only when the radio holds every   *)
(* message of the bond, for any number of messages, whatever the counter in *)
(* EEPROM says and whichever other answers and resets come in between       *)
(* (bond_data_restore).                                                    *)
THEOREM BeliefIsTrue == Spec => []BondedMeansRestored
<1>1. Init => BondInv \/ ~LinkInv
  <2> SUFFICES ASSUME Init, LinkInv PROVE BondInv
    OBVIOUS
  <2>1. Chunks \in Nat \ {0} /\ None # Complete
    <3>1. Complete \in Event
      BY LinkMessages DEF Complete, CmdRsps
    <3> QED BY <3>1, AciLinkAssumption, HalAssumption
  <2>2. /\ outbox = << >> /\ event = None /\ bonded = FALSE /\ restored = 0
    BY DEF Init, HalInit
  <2>3. 1..Len(outbox) = {} /\ restored \in 0..Chunks
    BY <2>1, <2>2
  <2> QED BY <2>1, <2>2, <2>3 DEF BondInv
<1>2. BondInv /\ LinkInv' /\ [Next]_vars => BondInv'
  BY BondStep
<1>3. BondInv => BondedMeansRestored
  BY DEF BondInv, BondedMeansRestored
<1> QED BY <1>1, <1>2, <1>3, LinkInvariant, PTL DEF Spec

-----------------------------------------------------------------------------
(***************************************************************************)
(* Counting messages.                                                      *)
(***************************************************************************)
(* Where in a sequence the messages are that Occurs counts.                *)
Places(seq, some) == {i \in 1..Len(seq) : seq[i] \in some}

(* They can be counted.                                                    *)
LEMMA OccursType ==
  ASSUME NEW T, NEW q \in Seq(T), NEW S
  PROVE  /\ IsFiniteSet(Places(q, S))
         /\ Occurs(q, S) = Cardinality(Places(q, S))
         /\ Occurs(q, S) \in Nat
<1>1. DOMAIN q = 1..Len(q) /\ Len(q) \in Nat
  OBVIOUS
<1>2. IsFiniteSet(1..Len(q))
  BY <1>1, FS_Interval
<1>3. IsFiniteSet(Places(q, S))
  BY <1>2, FS_Subset DEF Places
<1>4. Occurs(q, S) = Cardinality(Places(q, S))
  BY <1>1 DEF Occurs, Places
<1> QED BY <1>3, <1>4, FS_CardinalityType

(* There are none exactly if there is no such message.                     *)
LEMMA OccursNone ==
  ASSUME NEW T, NEW q \in Seq(T), NEW S
  PROVE  Occurs(q, S) = 0 <=> \A i \in 1..Len(q) : q[i] \notin S
<1>1. IsFiniteSet(Places(q, S)) /\ Occurs(q, S) = Cardinality(Places(q, S))
  BY OccursType
<1>2. Occurs(q, S) = 0 <=> Places(q, S) = {}
  BY <1>1, FS_EmptySet
<1> QED BY <1>2 DEF Places

(* In two sequences together there are those of the one and of the other.  *)
LEMMA OccursConcat ==
  ASSUME NEW T, NEW q \in Seq(T), NEW r \in Seq(T), NEW S
  PROVE  Occurs(q \o r, S) = Occurs(q, S) + Occurs(r, S)
<1> DEFINE n == Len(q)
           A == Places(q, S)
           R == Places(r, S)
           B == Places(q \o r, S) \ A
           f == [i \in R |-> i + n]
<1>1. /\ q \o r \in Seq(T) /\ Len(q \o r) = n + Len(r)
      /\ n \in Nat /\ Len(r) \in Nat
      /\ \A i \in 1..n : (q \o r)[i] = q[i]
      /\ \A i \in 1..Len(r) : (q \o r)[n + i] = r[i]
  BY ConcatProperties
<1>2. A \subseteq Places(q \o r, S)
  BY <1>1 DEF Places
<1>3. \A i \in R : i + n \in B
  BY <1>1 DEF Places
<1>4. \A j \in B : j - n \in R /\ (j - n) + n = j
  <2> SUFFICES ASSUME NEW j \in B PROVE j - n \in R /\ (j - n) + n = j
    OBVIOUS
  <2>1. j \in 1..n + Len(r) /\ (q \o r)[j] \in S /\ j \notin A
    BY <1>1 DEF Places
  <2>2. j \notin 1..n
    BY <1>1, <2>1 DEF Places
  <2>3. j - n \in 1..Len(r) /\ n + (j - n) = j
    BY <1>1, <2>1, <2>2
  <2> QED BY <1>1, <2>1, <2>3 DEF Places
<1>5. R \subseteq Int
  BY DEF Places
<1>6. f \in Bijection(R, B)
  <2>1. f \in [R -> B]
    BY <1>3
  <2>2. \A a, b \in R : f[a] = f[b] => a = b
    BY <1>1, <1>5
  <2>3. \A j \in B : \E i \in R : f[i] = j
    BY <1>4
  <2> QED BY <2>1, <2>2, <2>3 DEF Bijection, Injection, Surjection, IsInjective
<1>7. IsFiniteSet(R) /\ IsFiniteSet(A) /\ IsFiniteSet(Places(q \o r, S))
  BY <1>1, OccursType
<1>8. IsFiniteSet(B) /\ Cardinality(B) = Cardinality(R)
  BY <1>6, <1>7, FS_Bijection DEF ExistsBijection
<1>9. A \cup B = Places(q \o r, S) /\ A \cap B = {}
  BY <1>2
<1>10. /\ Cardinality(A \cup B)
             = Cardinality(A) + Cardinality(B) - Cardinality(A \cap B)
       /\ Cardinality({}) = 0
  BY <1>7, <1>8, FS_Union, FS_EmptySet
<1>11. /\ Occurs(q \o r, S) = Cardinality(Places(q \o r, S))
       /\ Occurs(q, S) = Cardinality(A) /\ Occurs(r, S) = Cardinality(R)
       /\ Cardinality(A) \in Nat /\ Cardinality(R) \in Nat
  BY <1>1, OccursType
<1>12. Cardinality(B) \in Nat
  BY <1>8, <1>11
<1> HIDE DEF A, B, R
<1>13. Cardinality(A \cap B) = 0
  BY <1>9, <1>10
<1>14. Cardinality(Places(q \o r, S))
         = Cardinality(A) + Cardinality(B) - Cardinality(A \cap B)
  BY <1>9, <1>10
<1>15. Cardinality(Places(q \o r, S)) = Cardinality(A) + Cardinality(B)
  BY <1>11, <1>12, <1>13, <1>14
<1> QED BY <1>8, <1>11, <1>15

(* A single message counts, or does not.                                   *)
One(m, S) == IF m \in S THEN 1 ELSE 0

(* A single message, and none.                                             *)
LEMMA OccursFew ==
  ASSUME NEW S
  PROVE  /\ Occurs(<< >>, S) = 0
         /\ \A m : Occurs(<<m>>, S) = One(m, S)
<1>1. Occurs(<< >>, S) = 0
  <2>1. << >> \in Seq({}) /\ Len(<< >>) = 0
    OBVIOUS
  <2>2. \A i \in 1..Len(<< >>) : << >>[i] \notin S
    BY <2>1
  <2>3. Occurs(<< >>, S) = 0 <=> \A i \in 1..Len(<< >>) : << >>[i] \notin S
    BY <2>1, OccursNone
  <2> QED BY <2>2, <2>3
<1>2. ASSUME NEW m PROVE Occurs(<<m>>, S) = One(m, S)
  <2>1. <<m>> \in Seq({m}) /\ Len(<<m>>) = 1 /\ <<m>>[1] = m
    OBVIOUS
  <2>2. Places(<<m>>, S) = IF m \in S THEN {1} ELSE {}
    BY <2>1 DEF Places
  <2>3. Occurs(<<m>>, S) = Cardinality(Places(<<m>>, S))
    BY <2>1, OccursType
  <2>4. Cardinality({1}) = 1 /\ Cardinality({}) = 0
    BY FS_Singleton, FS_EmptySet
  <2> QED BY <2>2, <2>3, <2>4 DEF One
<1> QED BY <1>1, <1>2

(* One joins.                                                              *)
LEMMA OccursAppend ==
  ASSUME NEW T, NEW q \in Seq(T), NEW m \in T, NEW S
  PROVE  Occurs(Append(q, m), S) = Occurs(q, S) + One(m, S)
<1>1. <<m>> \in Seq(T) /\ Append(q, m) = q \o <<m>>
  OBVIOUS
<1>2. Occurs(q \o <<m>>, S) = Occurs(q, S) + Occurs(<<m>>, S)
  BY <1>1, OccursConcat, Zenon
<1> QED BY <1>1, <1>2, OccursFew

(* A sequence is its oldest message and the rest.                          *)
LEMMA OldestAndRest ==
  ASSUME NEW T, NEW q \in Seq(T), q # << >>
  PROVE  <<Head(q)>> \o Tail(q) = q
<1>1. /\ Head(q) \in T /\ Tail(q) \in Seq(T) /\ Len(q) \in Nat \ {0}
      /\ Len(Tail(q)) = Len(q) - 1
      /\ \A i \in 1..Len(Tail(q)) : Tail(q)[i] = q[i + 1]
  BY HeadTailProperties, EmptySeq
<1>2. Head(q) = q[1]
  OBVIOUS
<1>3. <<Head(q)>> \in Seq(T) /\ Len(<<Head(q)>>) = 1 /\ <<Head(q)>>[1] = q[1]
  BY <1>1
<1>4. \A h, r \in Seq(T) :
        /\ h \o r \in Seq(T)
        /\ Len(h \o r) = Len(h) + Len(r)
        /\ \A i \in 1..Len(h) + Len(r) :
             (h \o r)[i] = IF i <= Len(h) THEN h[i] ELSE r[i - Len(h)]
  BY ConcatProperties, Zenon
<1> DEFINE whole == <<Head(q)>> \o Tail(q)
<1>5. /\ whole \in Seq(T)
      /\ Len(whole) = Len(q)
      /\ \A i \in 1..Len(q) : whole[i] = IF i <= 1 THEN q[1] ELSE Tail(q)[i - 1]
  BY <1>1, <1>3, <1>4
<1> QED BY <1>1, <1>5, SeqEqual

(* The oldest leaves.                                                      *)
LEMMA OccursTail ==
  ASSUME NEW T, NEW q \in Seq(T), q # << >>, NEW S
  PROVE  Occurs(q, S) = One(Head(q), S) + Occurs(Tail(q), S)
<1>1. Head(q) \in T /\ Tail(q) \in Seq(T)
  BY HeadTailProperties
<1>2. <<Head(q)>> \in Seq(T)
  BY <1>1
<1>3. Occurs(<<Head(q)>> \o Tail(q), S) = Occurs(<<Head(q)>>, S) + Occurs(Tail(q), S)
  BY <1>1, <1>2, OccursConcat, Zenon
<1>4. Occurs(<<Head(q)>>, S) = One(Head(q), S)
  BY OccursFew
<1>5. <<Head(q)>> \o Tail(q) = q
  BY OldestAndRest, Zenon
<1> QED BY <1>3, <1>4, <1>5, Zenon

(* The messages under way, from the program and to it.                     *)
Queued(S) == Occurs(tx_q, S) + Occurs(inbox, S)
Waits(S) == Occurs(outbox, S) + One(event, S)

(* They are numbers.                                                       *)
LEMMA UnderWayType ==
  ASSUME LinkInv, NEW S
  PROVE  Queued(S) \in Nat /\ Waits(S) \in Nat /\ One(event, S) \in Nat
<1>1. tx_q \in Seq(Fits) /\ inbox \in Seq(Fits) /\ outbox \in Seq(Event)
  BY DEF LinkInv, HalTypeOK
<1>2. /\ Occurs(tx_q, S) \in Nat /\ Occurs(inbox, S) \in Nat
      /\ Occurs(outbox, S) \in Nat
  BY <1>1, OccursType
<1>3. One(event, S) \in Nat
  BY DEF One
<1> QED BY <1>2, <1>3 DEF Queued, Waits

(* So are they after a step.                                               *)
LEMMA UnderWayNext ==
  ASSUME LinkInv', NEW S
  PROVE  Queued(S)' \in Nat /\ Waits(S)' \in Nat
<1>1. tx_q' \in Seq(Fits) /\ inbox' \in Seq(Fits) /\ outbox' \in Seq(Event)
  BY DEF LinkInv, HalTypeOK
<1>2. /\ Occurs(tx_q', S) \in Nat /\ Occurs(inbox', S) \in Nat
      /\ Occurs(outbox', S) \in Nat
  BY <1>1, OccursType
<1>3. One(event', S) \in Nat
  BY DEF One
<1> QED BY <1>2, <1>3 DEF Queued, Waits

(* A command joins the queue, or is refused.                               *)
LEMMA SendCounts ==
  ASSUME LinkInv, LinkInv', NEW c \in Fits, HalSend(c), UNCHANGED inbox, NEW S
  PROVE  Queued(S)' = Queued(S) + (IF Sent THEN One(c, S) ELSE 0)
<1>1. tx_q \in Seq(Fits) /\ inbox \in Seq(Fits)
  BY DEF LinkInv, HalTypeOK
<1>2. /\ Occurs(tx_q, S) \in Nat /\ Occurs(inbox, S) \in Nat
      /\ Occurs(Append(tx_q, c), S) = Occurs(tx_q, S) + One(c, S)
      /\ One(c, S) \in Nat
  BY <1>1, OccursType, OccursAppend DEF One
<1>3. tx_q' = IF Sent THEN Append(tx_q, c) ELSE tx_q
  BY CarefulSend, FitsAre DEF LinkInv, HalTypeOK, Sent
<1> QED BY <1>2, <1>3 DEF Queued

(* A transfer only moves messages, from the queue to the radio and from the *)
(* radio to the program.                                                   *)
LEMMA TransferCounts ==
  ASSUME LinkInv, HalEventGet, event = None, NEW S, None \notin S
  PROVE  Queued(S)' = Queued(S) /\ Waits(S)' = Waits(S)
<1>1. /\ tx_q \in Seq(Fits) /\ inbox \in Seq(Fits) /\ outbox \in Seq(Event)
      /\ rx_q = << >>
  BY DEF LinkInv, HalTypeOK
<1>2. /\ Occurs(tx_q, S) \in Nat /\ Occurs(inbox, S) \in Nat
      /\ Occurs(outbox, S) \in Nat
  BY <1>1, OccursType
<1>none. One(None, S) = 0
  BY DEF One
<1>3. CASE EventGetIdle
  BY <1>1, <1>3 DEF EventGetIdle, HandsOut, First, Queued, Waits
<1>4. CASE EventGetTransfer
  <2>1. /\ tx_q' = Rest(tx_q) /\ outbox' = Rest(outbox)
        /\ inbox' = IF tx_q = << >> THEN inbox ELSE Append(inbox, First(tx_q))
        /\ event' = First(outbox)
    BY <1>4, TransferMoves DEF LinkInv
  <2>2. Queued(S)' = Queued(S)
    <3>1. CASE tx_q = << >>
      BY <2>1, <3>1 DEF Queued, Rest
    <3>2. CASE tx_q # << >>
      <4>1. tx_q' = Tail(tx_q) /\ inbox' = Append(inbox, Head(tx_q))
        BY <2>1, <3>2 DEF Rest, First
      <4>2. Head(tx_q) \in Fits /\ Tail(tx_q) \in Seq(Fits)
        BY <1>1, <3>2
      <4>3. Occurs(tx_q, S) = One(Head(tx_q), S) + Occurs(Tail(tx_q), S)
        BY <1>1, <3>2, OccursTail
      <4>4. Occurs(Append(inbox, Head(tx_q)), S) = Occurs(inbox, S) + One(Head(tx_q), S)
        BY <1>1, <4>2, OccursAppend
      <4>5. Occurs(Tail(tx_q), S) \in Nat /\ One(Head(tx_q), S) \in Nat
        BY <4>2, OccursType DEF One
      <4> QED BY <1>2, <4>1, <4>3, <4>4, <4>5 DEF Queued
    <3> QED BY <3>1, <3>2
  <2>3. Waits(S)' = Waits(S)
    <3>1. CASE outbox = << >>
      BY <2>1, <3>1 DEF Waits, Rest, First
    <3>2. CASE outbox # << >>
      <4>1. outbox' = Tail(outbox) /\ event' = Head(outbox)
        BY <2>1, <3>2 DEF Rest, First
      <4>2. Tail(outbox) \in Seq(Event)
        BY <1>1, <3>2
      <4>3. Occurs(outbox, S) = One(Head(outbox), S) + Occurs(Tail(outbox), S)
        BY <1>1, <3>2, OccursTail
      <4>4. Occurs(Tail(outbox), S) \in Nat /\ One(Head(outbox), S) \in Nat
        BY <4>2, OccursType DEF One
      <4> QED BY <1>2, <1>none, <4>1, <4>3, <4>4 DEF Waits
    <3> QED BY <3>1, <3>2
  <2> QED BY <2>2, <2>3
<1> QED BY <1>3, <1>4 DEF HalEventGet

(* The radio uses up its oldest command.                                   *)
LEMMA ActCounts ==
  ASSUME LinkInv, inbox # << >>, inbox' = Tail(inbox), UNCHANGED tx_q, NEW S
  PROVE  Queued(S) = Queued(S)' + One(Head(inbox), S)
<1>1. tx_q \in Seq(Fits) /\ inbox \in Seq(Fits) /\ Tail(inbox) \in Seq(Fits)
  BY DEF LinkInv, HalTypeOK
<1>2. Occurs(inbox, S) = One(Head(inbox), S) + Occurs(Tail(inbox), S)
  BY <1>1, OccursTail
<1>3. /\ Occurs(tx_q, S) \in Nat /\ Occurs(Tail(inbox), S) \in Nat
      /\ One(Head(inbox), S) \in Nat
  BY <1>1, OccursType DEF One
<1> QED BY <1>2, <1>3 DEF Queued

(* The processor forgets its queue.                                        *)
LEMMA ForgetCounts ==
  ASSUME LinkInv, tx_q' = << >>, UNCHANGED inbox, NEW S
  PROVE  Queued(S)' \in Nat /\ Queued(S)' <= Queued(S)
<1>1. tx_q \in Seq(Fits) /\ inbox \in Seq(Fits)
  BY DEF LinkInv, HalTypeOK
<1>2. Occurs(<< >>, S) = 0 /\ Occurs(tx_q, S) \in Nat /\ Occurs(inbox, S) \in Nat
  BY <1>1, OccursType, OccursFew
<1> QED BY <1>2 DEF Queued

(* The event in hand is used up.                                           *)
LEMMA UseCounts ==
  ASSUME LinkInv, UNCHANGED outbox, event' = None, NEW S, None \notin S
  PROVE  Waits(S) = Waits(S)' + One(event, S)
<1>1. outbox \in Seq(Event)
  BY DEF LinkInv, HalTypeOK
<1>2. Occurs(outbox, S) \in Nat /\ One(event, S) \in Nat /\ One(None, S) = 0
  BY <1>1, OccursType DEF One
<1> QED BY <1>2 DEF Waits

(* The radio raises one event.                                             *)
LEMMA RaiseCounts ==
  ASSUME LinkInv, NEW e \in Event, RadioRaises(<<e>>), NEW S
  PROVE  Waits(S)' = Waits(S) + One(e, S)
<1>1. outbox \in Seq(Event) /\ <<e>> \in Seq(Event)
  BY DEF LinkInv, HalTypeOK
<1>2. Occurs(outbox \o <<e>>, S) = Occurs(outbox, S) + One(e, S)
  <2>1. Occurs(outbox \o <<e>>, S) = Occurs(outbox, S) + Occurs(<<e>>, S)
    BY <1>1, OccursConcat
  <2> QED BY <2>1, OccursFew
<1>3. Occurs(outbox, S) \in Nat /\ One(event, S) \in Nat /\ One(e, S) \in Nat
  BY <1>1, OccursType DEF One
<1>4. outbox' = outbox \o <<e>> /\ event' = event
  BY DEF RadioRaises
<1> QED BY <1>2, <1>3, <1>4 DEF Waits

(* A pair is two sequences of one.                                         *)
LEMMA Pairs ==
  ASSUME NEW T, NEW e \in T, NEW f \in T
  PROVE  <<e, f>> = <<e>> \o <<f>>
<1>1. /\ <<e>> \in Seq(T) /\ Len(<<e>>) = 1 /\ <<e>>[1] = e
      /\ <<f>> \in Seq(T) /\ Len(<<f>>) = 1 /\ <<f>>[1] = f
      /\ <<e, f>> \in Seq(T) /\ Len(<<e, f>>) = 2
      /\ <<e, f>>[1] = e /\ <<e, f>>[2] = f
  OBVIOUS
<1> DEFINE both == <<e>> \o <<f>>
<1>2. /\ both \in Seq(T) /\ Len(both) = 1 + 1
      /\ \A i \in 1..1 + 1 : both[i] = IF i <= 1 THEN <<e>>[i] ELSE <<f>>[i - 1]
  BY <1>1, ConcatProperties
<1>3. both[1] = e /\ both[2] = f
  BY <1>1, <1>2
<1>4. \A i \in 1..2 : <<e, f>>[i] = both[i]
  <2>1. \A i \in 1..2 : i = 1 \/ i = 2
    OBVIOUS
  <2> QED BY <1>1, <1>3, <2>1
<1> HIDE DEF both
<1>5. <<e, f>> = both
  BY <1>1, <1>2, <1>4, SeqEqual
<1> QED BY <1>5 DEF both

(* The radio raises two events.                                            *)
LEMMA RaiseTwoCounts ==
  ASSUME LinkInv, NEW e \in Event, NEW f \in Event, RadioRaises(<<e, f>>), NEW S
  PROVE  Waits(S)' = Waits(S) + One(e, S) + One(f, S)
<1>1. outbox \in Seq(Event) /\ <<e, f>> \in Seq(Event)
      /\ <<e>> \in Seq(Event) /\ <<f>> \in Seq(Event)
  BY DEF LinkInv, HalTypeOK
<1>2. <<e, f>> = <<e>> \o <<f>>
  BY Pairs
<1>3. Occurs(<<e>> \o <<f>>, S) = One(e, S) + One(f, S)
  <2>1. Occurs(<<e>> \o <<f>>, S) = Occurs(<<e>>, S) + Occurs(<<f>>, S)
    BY <1>1, OccursConcat
  <2> QED BY <2>1, OccursFew
<1>4. Occurs(outbox \o <<e, f>>, S) = Occurs(outbox, S) + Occurs(<<e, f>>, S)
  BY <1>1, OccursConcat
<1>5. /\ Occurs(outbox, S) \in Nat /\ One(event, S) \in Nat
      /\ One(e, S) \in Nat /\ One(f, S) \in Nat
  BY <1>1, OccursType DEF One
<1>6. outbox' = outbox \o <<e, f>> /\ event' = event
  BY DEF RadioRaises
<1>7. Occurs(outbox', S) = Occurs(outbox, S) + (One(e, S) + One(f, S))
  BY <1>2, <1>3, <1>4, <1>6
<1> QED BY <1>5, <1>6, <1>7 DEF Waits

(* The radio raises none.                                                  *)
LEMMA RaiseNoneCounts ==
  ASSUME LinkInv, RadioRaises(<< >>), NEW S
  PROVE  Waits(S)' = Waits(S)
<1>1. outbox \in Seq(Event)
  BY DEF LinkInv, HalTypeOK
<1>2. outbox' = outbox /\ event' = event
  BY <1>1 DEF RadioRaises
<1> QED BY <1>2 DEF Waits

-----------------------------------------------------------------------------
(***************************************************************************)
(* Packets and credits.  Each packet of the central is answered twice at   *)
(* most, each answer sent returns one credit at most.                      *)
(***************************************************************************)
Answering == IF pc = "dfu" THEN 2 ELSE IF pc = "answered" THEN 1 ELSE 0

(* What is on its way because of packets, in credits.                      *)
Returning == Waits(OneCredit) + 2 * Waits(TwoCredits)
Sending == Queued({SendData})
Asked == Waits({Received})

Budget == Sending + owed + Returning + 2 * Asked + Answering <= 2 * packets

(* What an event is worth, in credits.                                     *)
Worth(e) == One(e, OneCredit) + 2 * One(e, TwoCredits)

LinkTyped ==
  /\ pc \in PC /\ valid_app \in BOOLEAN
  /\ data_credit_available \in 0..CreditWrap - 1
  /\ bonded \in BOOLEAN /\ foreign \in BOOLEAN
  /\ eeprom_status \in BondCounts \cup {NoBond}
  /\ write_dyn_num_msgs \in 0..CountWrap - 1
  /\ link \in {"off", "standby", "advertising", "connected"}
  /\ restored \in 0..Chunks
  /\ owed \in Nat
  /\ packets \in 0..MaxData
  /\ outbox \in Seq(LinkEvent)
  /\ event \in LinkEvent \cup {None}

(* None is no event.                                                       *)
LEMMA NoneIsNoEvent ==
  /\ LinkEvent \subseteq Event /\ None \notin LinkEvent
  /\ None \notin OneCredit /\ None \notin TwoCredits
  /\ None \notin {Received} /\ None \notin LinkChange
<1>1. LinkEvent \subseteq Event /\ None \notin Event
  BY AciLinkAssumption, HalAssumption
<1>2. /\ \A n \in 1..2 : DataCredit(n) \in Event
      /\ \A n \in 0..1 : PipeError(n) \in Event
      /\ Connected \in Event /\ Disconnected \in Event /\ Received \in Event
  BY LinkMessages
<1>3. OneCredit \subseteq Event /\ TwoCredits \subseteq Event /\ LinkChange \subseteq Event
  BY <1>2 DEF OneCredit, TwoCredits, LinkChange
<1> QED BY <1>1, <1>2, <1>3

(* The commands and events of the link are distinct.                       *)
LEMMA WorthOf ==
  /\ \A n \in 0..1 : /\ Started(n) \notin OneCredit \cup TwoCredits
                     /\ Started(n) \notin {Received} \cup LinkChange
  /\ \A s \in CmdRsps : /\ CmdRsp(s) \notin OneCredit \cup TwoCredits
                        /\ CmdRsp(s) \notin {Received} \cup LinkChange
  /\ \A e \in {Connected, Disconnected, Received} :
       /\ e \notin OneCredit \cup TwoCredits
       /\ e \in {Received} <=> e = Received
       /\ e \in LinkChange <=> e # Received
  /\ \A n \in 1..2 : /\ DataCredit(n) \in OneCredit <=> n = 1
                     /\ DataCredit(n) \in TwoCredits <=> n = 2
                     /\ DataCredit(n) \notin {Received} \cup LinkChange
  /\ \A n \in 0..1 : /\ PipeError(n) \in OneCredit <=> n = 0
                     /\ PipeError(n) \notin TwoCredits \cup {Received} \cup LinkChange
  /\ \A c \in {RadioReset, Connect, Disconnect} : c # SendData
  /\ \A k \in 1..Chunks + 1 : WriteDynamic(k) # SendData
BY DEF Started, CmdRsp, CmdRsps, Connected, Disconnected, Received, DataCredit, PipeError,
   Msg, OneCredit, TwoCredits, LinkChange, RadioReset, Connect, Disconnect, SendData,
   WriteDynamic

(* The events of the link, by kind.                                        *)
LEMMA EventKinds ==
  ASSUME NEW e \in LinkEvent
  PROVE  \/ \E n \in 0..1 : e = Started(n)
         \/ e \in {Connected, Disconnected, Received}
         \/ \E s \in CmdRsps : e = CmdRsp(s)
         \/ \E n \in 1..2 : e = DataCredit(n)
         \/ \E n \in 0..1 : e = PipeError(n)
BY DEF LinkEvent

(* What is worth nothing.                                                  *)
LEMMA WorthNothing ==
  /\ \A n \in 0..1 : Worth(Started(n)) = 0
  /\ \A s \in CmdRsps : Worth(CmdRsp(s)) = 0
  /\ Worth(Connected) = 0 /\ Worth(Disconnected) = 0 /\ Worth(Received) = 0
  /\ Worth(DataCredit(1)) = 1 /\ Worth(DataCredit(2)) = 2
  /\ Worth(PipeError(0)) = 1 /\ Worth(PipeError(1)) = 0
  /\ Worth(None) = 0
BY WorthOf, NoneIsNoEvent DEF Worth, One

(* The actions of the program that use up an event.                        *)
Handler == \/ RestoreBegins \/ Advertise \/ CreditEvent \/ Ignored
           \/ Answers \/ ReceiveFw \/ Activate \/ SysReset \/ Dropped
           \/ RestoreCompletes \/ RestoreGivesUp \/ RestoreGoesOn

(* They are no answers to packets.                                         *)
Control == {RadioReset, Connect, Disconnect}

(* Control commands are commands, and no answers.                          *)
LEMMA ControlCommands == Control \subseteq Fits /\ SendData \notin Control
BY LinkMessages, WorthOf DEF Control

(* What they all do.                                                       *)
LEMMA HandlerDoes ==
  ASSUME Handler
  PROVE  /\ Handled /\ event # None
         /\ NothingSent \/ \E c \in Control : HalSend(c)
         /\ UNCHANGED <<sessions, packets>>
<1>1. None # Received /\ None # Disconnected
  BY NoneIsNoEvent DEF LinkChange
<1>2. /\ \A n \in 0..1 : Started(n) # None
      /\ \A s \in CmdRsps : CmdRsp(s) # None
  BY LinkMessages, HalAssumption
<1>3. "reset_done" \in CmdRsps
  BY DEF CmdRsps
<1>4. CASE RestoreBegins
  BY <1>2, <1>4 DEF RestoreBegins, Dispatched, boundVars
<1>5. CASE Advertise
  BY <1>1, <1>2, <1>3, <1>5 DEF Advertise, Dispatched, Control, boundVars
<1>6. CASE CreditEvent
  BY <1>6 DEF CreditEvent, boundVars
<1>7. CASE Ignored
  BY <1>2, <1>7 DEF Ignored, Dispatched, boundVars
<1>8. CASE Answers
  BY <1>1, <1>8 DEF Answers, Dispatched, boundVars
<1>9. CASE Activate \/ ReceiveFw
  BY <1>1, <1>9 DEF ReceiveFw, Activate, Dispatched, Control, boundVars
<1>10. CASE SysReset
  BY <1>1, <1>10 DEF SysReset, Dispatched, Control, boundVars
<1>11. CASE Dropped
  BY <1>11 DEF Dropped, boundVars
<1>12. CASE RestoreCompletes
  BY <1>2, <1>12 DEF RestoreCompletes, Waiting, Control, boundVars
<1>13. CASE RestoreGivesUp
  BY <1>2, <1>13 DEF RestoreGivesUp, Waiting, Control, boundVars
<1>14. CASE RestoreGoesOn
  BY <1>2, <1>14 DEF RestoreGoesOn, Waiting, boundVars
<1> QED
  BY <1>4, <1>5, <1>6, <1>7, <1>8, <1>9, <1>10, <1>11, <1>12, <1>13, <1>14 DEF Handler

(* Only a packet has the program answer one.                               *)
LEMMA HandlerAnswers ==
  ASSUME LinkTyped, Handler
  PROVE  Answering' <= 2 * One(event, {Received})
<1>1. CASE Answers
  BY <1>1 DEF Answers, Dispatched, Answering, One
<1>2. CASE ~Answers
  <2>1. pc' \notin {"dfu", "answered"}
    BY <1>2 DEF Handler, RestoreBegins, Advertise, CreditEvent, Ignored, ReceiveFw, Activate, SysReset,
       Dropped, DropsEvent, RestoreCompletes, RestoreGivesUp, RestoreGoesOn, Dispatched
  <2>2. Answering' = 0 /\ One(event, {Received}) \in {0, 1}
    BY <2>1 DEF Answering, One
  <2> QED BY <2>2
<1> QED BY <1>1, <1>2

(* What they do to the books: the event is off them.                       *)
LEMMA HandlerBooks ==
  ASSUME LinkInv, LinkInv', Handler
  PROVE  /\ Sending' = Sending
         /\ Returning = Returning' + Worth(event)
         /\ Asked = Asked' + One(event, {Received})
         /\ Waits(LinkChange) = Waits(LinkChange)' + One(event, LinkChange)
         /\ UNCHANGED <<link, owed, restored, outbox, inbox, packets>> /\ event' = None
<1>1. /\ Handled /\ (NothingSent \/ \E c \in Control : HalSend(c)) /\ UNCHANGED packets
  BY HandlerDoes
<1>2. /\ UNCHANGED <<link, owed, restored, outbox, inbox>> /\ event' = None
  BY <1>1 DEF Handled, EventUsed, radioVars
<1>3. Sending' = Sending
  <2>1. CASE NothingSent
    BY <1>2, <2>1 DEF NothingSent, Sending, Queued
  <2>2. CASE \E c \in Control : HalSend(c)
    <3>1. PICK c \in Control : HalSend(c)
      BY <2>2
    <3>2. c \in Fits /\ One(c, {SendData}) = 0
      BY ControlCommands DEF One
    <3>3. Queued({SendData})' = Queued({SendData}) + (IF Sent THEN 0 ELSE 0)
      BY <1>2, <3>1, <3>2, SendCounts
    <3>4. Queued({SendData}) \in Nat
      BY UnderWayType
    <3> QED BY <3>3, <3>4 DEF Sending
  <2> QED BY <1>1, <2>1, <2>2
<1>4. /\ Waits(OneCredit) = Waits(OneCredit)' + One(event, OneCredit)
      /\ Waits(TwoCredits) = Waits(TwoCredits)' + One(event, TwoCredits)
      /\ Waits({Received}) = Waits({Received})' + One(event, {Received})
      /\ Waits(LinkChange) = Waits(LinkChange)' + One(event, LinkChange)
  BY <1>2, UseCounts, NoneIsNoEvent
<1>5. /\ Waits(OneCredit)' \in Nat /\ Waits(TwoCredits)' \in Nat
      /\ One(event, OneCredit) \in Nat /\ One(event, TwoCredits) \in Nat
  BY UnderWayNext DEF One
<1>6. Returning = Returning' + Worth(event)
  BY <1>4, <1>5 DEF Returning, Worth
<1> QED BY <1>1, <1>2, <1>3, <1>4, <1>6 DEF Asked

(* A handler keeps within the budget.                                      *)
LEMMA HandlerBudget ==
  ASSUME LinkInv, LinkInv', LinkTyped, Budget, Handler
  PROVE  Budget'
<1>1. /\ Sending' = Sending /\ owed' = owed /\ packets' = packets
      /\ Returning = Returning' + Worth(event)
      /\ Asked = Asked' + One(event, {Received})
  BY HandlerBooks
<1>2. Answering' <= 2 * One(event, {Received})
  BY HandlerAnswers
<1>3. /\ Sending \in Nat /\ Asked \in Nat
      /\ Waits(OneCredit) \in Nat /\ Waits(TwoCredits) \in Nat
  BY UnderWayType DEF Sending, Asked
<1>4. /\ Worth(event) \in Nat /\ One(event, {Received}) \in Nat
      /\ Returning \in Nat /\ Answering \in Nat
  BY <1>3 DEF Worth, One, Returning, Answering
<1>5. owed \in Nat /\ packets \in Nat
  BY AciLinkAssumption DEF LinkTyped
<1> DEFINE returning == Returning'
           asked == Asked'
           answering == Answering'
<1>6. returning \in Int /\ asked \in Int /\ answering \in Nat
  BY UnderWayNext DEF Returning, Asked, Answering
<1>7. /\ Returning = returning + Worth(event)
      /\ Asked = asked + One(event, {Received})
      /\ answering <= 2 * One(event, {Received})
  BY <1>1, <1>2
<1> HIDE DEF returning, asked, answering
<1>8. Sending + owed + returning + 2 * asked + answering <= 2 * packets
  BY <1>3, <1>4, <1>5, <1>6, <1>7 DEF Budget
<1>9. Sending' + owed' + Returning' + 2 * Asked' + Answering' <= 2 * packets'
  BY <1>1, <1>8 DEF returning, asked, answering
<1> QED BY <1>9 DEF Budget

(* The actions that leave the events alone.                                *)
Quiet == LibAciInit \/ Reply \/ NoReply \/ RestoreSend \/ EventGet

(* What they do to the books: only an answer queued is entered in them.    *)
LEMMA QuietBooks ==
  ASSUME LinkInv, LinkInv', Quiet
  PROVE  /\ Sending' = Sending + (IF Reply /\ Sent THEN 1 ELSE 0)
         /\ Returning' = Returning /\ Asked' = Asked
         /\ Waits(LinkChange)' = Waits(LinkChange)
         /\ UNCHANGED <<link, owed, restored, packets>>
<1>1. UNCHANGED <<link, owed, restored, packets>>
  BY DEF Quiet, LibAciInit, Reply, NoReply, RestoreSend, EventGet, QueueOnly,
     radioVars, boundVars
<1>2. Sending \in Nat /\ One(SendData, {SendData}) = 1
  BY UnderWayType DEF Sending, One
<1>3. CASE EventGet
  <2>1. HalEventGet /\ event = None /\ pc \notin {"dfu", "answered"}
    BY <1>3 DEF EventGet
  <2>2. None # SendData
    BY LinkMessages, FitsAre
  <2>3. /\ Waits(OneCredit)' = Waits(OneCredit)
        /\ Waits(TwoCredits)' = Waits(TwoCredits)
        /\ Waits({Received})' = Waits({Received})
        /\ Waits(LinkChange)' = Waits(LinkChange)
        /\ Queued({SendData})' = Queued({SendData})
    BY <2>1, <2>2, TransferCounts, NoneIsNoEvent
  <2>4. ~Reply
    BY <2>1 DEF Reply
  <2> QED BY <1>1, <1>2, <2>3, <2>4 DEF Sending, Returning, Asked
<1>4. CASE ~EventGet
  <2>1. UNCHANGED <<event, inbox, outbox>>
    BY <1>4 DEF Quiet, LibAciInit, Reply, NoReply, RestoreSend, QueueOnly
  <2>2. Returning' = Returning /\ Asked' = Asked /\ Waits(LinkChange)' = Waits(LinkChange)
    BY <2>1 DEF Returning, Asked, Waits
  <2>3. CASE NoReply \/ (LibAciInit /\ rdyn)
    <3>1. NothingSent
      BY <2>3 DEF NoReply, LibAciInit
    <3>2. Sending' = Sending
      BY <2>1, <3>1 DEF NothingSent, Sending, Queued
    <3>3. ~Reply \/ Sending' = Sending + (IF Reply /\ Sent THEN 1 ELSE 0)
      <4>1. CASE LibAciInit
        BY <4>1 DEF LibAciInit, Reply
      <4>2. CASE NoReply /\ Reply /\ Sent
        BY <3>1, <4>2 DEF Sent, NothingSent
      <4> QED BY <2>3, <3>2, <4>1, <4>2, <1>2
    <3> QED BY <1>1, <1>2, <2>2, <3>2, <3>3
  <2>4. CASE LibAciInit /\ ~rdyn
    <3>1. HalSend(RadioReset) /\ ~Reply /\ RadioReset \in Fits
      BY <2>4, LinkMessages DEF LibAciInit, Reply
    <3>2. One(RadioReset, {SendData}) = 0
      BY WorthOf DEF One
    <3>3. Queued({SendData})' = Queued({SendData}) + (IF Sent THEN 0 ELSE 0)
      BY <2>1, <3>1, <3>2, SendCounts
    <3> QED BY <1>1, <1>2, <2>2, <3>1, <3>3 DEF Sending
  <2>5. CASE Reply
    <3>1. HalSend(SendData) /\ SendData \in Fits
      BY <2>5, LinkMessages DEF Reply
    <3>2. Queued({SendData})' = Queued({SendData}) + (IF Sent THEN 1 ELSE 0)
      BY <1>2, <2>1, <3>1, SendCounts
    <3> QED BY <1>1, <1>2, <2>2, <2>5, <3>2 DEF Sending
  <2>6. CASE RestoreSend
    <3>1. HalSend(WriteDynamic(chunk)) /\ ~Reply /\ WriteDynamic(chunk) \in Fits
      BY <2>6, LinkMessages DEF RestoreSend, Reply, LinkInv
    <3>2. One(WriteDynamic(chunk), {SendData}) = 0
      BY WorthOf DEF One, LinkInv
    <3>3. Queued({SendData})' = Queued({SendData}) + (IF Sent THEN 0 ELSE 0)
      BY <2>1, <3>1, <3>2, SendCounts
    <3> QED BY <1>1, <1>2, <2>2, <3>1, <3>3 DEF Sending
  <2> QED BY <1>4, <2>3, <2>4, <2>5, <2>6 DEF Quiet
<1> QED BY <1>3, <1>4

(* They keep within the budget: each answer was allowed for.               *)
LEMMA QuietBudget ==
  ASSUME LinkInv, LinkInv', LinkTyped, Budget, Quiet
  PROVE  Budget'
<1>1. /\ Sending' = Sending + (IF Reply /\ Sent THEN 1 ELSE 0)
      /\ Returning' = Returning /\ Asked' = Asked
      /\ owed' = owed /\ packets' = packets
  BY QuietBooks
<1>2. Answering' + (IF Reply THEN 1 ELSE 0) <= Answering
  <2>1. CASE Reply
    BY <2>1 DEF Reply, Answering
  <2>2. CASE ~Reply
    BY <2>2 DEF Quiet, LibAciInit, NoReply, RestoreSend, EventGet, Answering
  <2> QED BY <2>1, <2>2
<1>3. /\ Sending \in Nat /\ Asked \in Nat
      /\ Waits(OneCredit) \in Nat /\ Waits(TwoCredits) \in Nat
  BY UnderWayType DEF Sending, Asked
<1>4. /\ Returning \in Nat /\ Answering \in Nat
      /\ owed \in Nat /\ packets \in Nat
  BY <1>3, AciLinkAssumption DEF Returning, Answering, LinkTyped
<1> DEFINE sending == Sending'
           answering == Answering'
           one == IF Reply THEN 1 ELSE 0
           sent == IF Reply /\ Sent THEN 1 ELSE 0
<1>5. /\ sending = Sending + sent /\ answering + one <= Answering
      /\ answering \in Nat /\ one \in Nat /\ sent \in Nat /\ sent <= one
  BY <1>1, <1>2 DEF Answering
<1> HIDE DEF sending, answering, one, sent
<1>6. sending + owed + Returning + 2 * Asked + answering <= 2 * packets
  BY <1>3, <1>4, <1>5 DEF Budget
<1>7. Sending' + owed' + Returning' + 2 * Asked' + Answering' <= 2 * packets'
  BY <1>1, <1>6 DEF sending, answering
<1> QED BY <1>7 DEF Budget

(* A reset of the processor takes off what it held.                        *)
LEMMA WatchdogBooks ==
  ASSUME LinkInv, LinkInv', Watchdog
  PROVE  /\ Sending' <= Sending
         /\ Returning' <= Returning /\ Asked' <= Asked
         /\ UNCHANGED <<link, owed, restored, outbox, inbox, packets>> /\ event' = None
         /\ Waits(LinkChange) = Waits(LinkChange)' + One(event, LinkChange)
<1>1. /\ UNCHANGED <<link, owed, restored, outbox, inbox, packets>>
      /\ event' = None /\ tx_q' = << >>
  BY DEF Watchdog, HalInitialised, radioVars, boundVars
<1>2. Sending' <= Sending
  BY <1>1, ForgetCounts DEF Sending
<1>3. /\ Waits(OneCredit) = Waits(OneCredit)' + One(event, OneCredit)
      /\ Waits(TwoCredits) = Waits(TwoCredits)' + One(event, TwoCredits)
      /\ Waits({Received}) = Waits({Received})' + One(event, {Received})
      /\ Waits(LinkChange) = Waits(LinkChange)' + One(event, LinkChange)
  BY <1>1, UseCounts, NoneIsNoEvent
<1>4. /\ Waits(OneCredit)' \in Nat /\ Waits(TwoCredits)' \in Nat
      /\ Waits({Received})' \in Nat
      /\ One(event, OneCredit) \in Nat /\ One(event, TwoCredits) \in Nat
      /\ One(event, {Received}) \in Nat
  BY UnderWayNext DEF One
<1>5. Returning' <= Returning /\ Asked' <= Asked
  BY <1>3, <1>4 DEF Returning, Asked
<1> QED BY <1>1, <1>2, <1>3, <1>5

(* So it keeps within the budget, too.                                     *)
LEMMA WatchdogBudget ==
  ASSUME LinkInv, LinkInv', LinkTyped, Budget, Watchdog
  PROVE  Budget'
<1>1. /\ Sending' <= Sending /\ Returning' <= Returning /\ Asked' <= Asked
      /\ owed' = owed /\ packets' = packets
  BY WatchdogBooks
<1>2. Answering' = 0 /\ Answering \in Nat
  BY DEF Watchdog, CpuStarts, JumpCheck, Answering
<1>3. /\ Sending \in Nat /\ Asked \in Nat
      /\ Waits(OneCredit) \in Nat /\ Waits(TwoCredits) \in Nat
  BY UnderWayType DEF Sending, Asked
<1>4. /\ Sending' \in Nat /\ Asked' \in Nat
      /\ Waits(OneCredit)' \in Nat /\ Waits(TwoCredits)' \in Nat
  BY UnderWayNext DEF Sending, Asked
<1>5. /\ Returning \in Nat /\ Returning' \in Nat /\ owed \in Nat /\ packets \in Nat
  BY <1>3, <1>4, AciLinkAssumption DEF Returning, LinkTyped
<1> DEFINE sending == Sending'
           returning == Returning'
           asked == Asked'
<1>6. /\ sending <= Sending /\ returning <= Returning /\ asked <= Asked
      /\ sending \in Nat /\ returning \in Nat /\ asked \in Nat
  BY <1>1, <1>4, <1>5
<1>7. Answering \in Nat
  BY <1>2
<1>8. Returning \in Nat /\ owed \in Nat /\ packets \in Nat
  BY <1>5
<1> HIDE DEF sending, returning, asked
<1>9. sending + owed + returning + 2 * asked + 0 <= 2 * packets
  BY <1>3, <1>6, <1>7, <1>8 DEF Budget
<1>10. Sending' + owed' + Returning' + 2 * Asked' + Answering' <= 2 * packets'
  BY <1>1, <1>2, <1>9 DEF sending, returning, asked
<1> QED BY <1>10 DEF Budget

(* An event raised is entered in the books.                                *)
LEMMA RaiseBooks ==
  ASSUME LinkInv, LinkInv', NEW e \in LinkEvent, RadioRaises(<<e>>)
  PROVE  /\ Returning' = Returning + Worth(e)
         /\ Asked' = Asked + One(e, {Received})
         /\ Waits(LinkChange)' = Waits(LinkChange) + One(e, LinkChange)
<1>1. e \in Event
  BY NoneIsNoEvent
<1>2. /\ Waits(OneCredit)' = Waits(OneCredit) + One(e, OneCredit)
      /\ Waits(TwoCredits)' = Waits(TwoCredits) + One(e, TwoCredits)
      /\ Waits({Received})' = Waits({Received}) + One(e, {Received})
      /\ Waits(LinkChange)' = Waits(LinkChange) + One(e, LinkChange)
  BY <1>1, RaiseCounts
<1>3. /\ Waits(OneCredit) \in Nat /\ Waits(TwoCredits) \in Nat
      /\ One(e, OneCredit) \in Nat /\ One(e, TwoCredits) \in Nat
  BY UnderWayType DEF One
<1> QED BY <1>2, <1>3 DEF Returning, Asked, Worth

(* So are two.                                                             *)
LEMMA RaiseTwoBooks ==
  ASSUME LinkInv, LinkInv', NEW e \in LinkEvent, NEW f \in LinkEvent,
         RadioRaises(<<e, f>>)
  PROVE  /\ Returning' = Returning + Worth(e) + Worth(f)
         /\ Asked' = Asked + One(e, {Received}) + One(f, {Received})
         /\ Waits(LinkChange)' = Waits(LinkChange) + One(e, LinkChange) + One(f, LinkChange)
<1>1. e \in Event /\ f \in Event
  BY NoneIsNoEvent
<1>2. /\ Waits(OneCredit)' = Waits(OneCredit) + One(e, OneCredit) + One(f, OneCredit)
      /\ Waits(TwoCredits)' = Waits(TwoCredits) + One(e, TwoCredits) + One(f, TwoCredits)
      /\ Waits({Received})' = Waits({Received}) + One(e, {Received}) + One(f, {Received})
      /\ Waits(LinkChange)' = Waits(LinkChange) + One(e, LinkChange) + One(f, LinkChange)
  BY <1>1, RaiseTwoCounts
<1>3. /\ Waits(OneCredit) \in Nat /\ Waits(TwoCredits) \in Nat
      /\ One(e, OneCredit) \in Nat /\ One(e, TwoCredits) \in Nat
      /\ One(f, OneCredit) \in Nat /\ One(f, TwoCredits) \in Nat
  BY UnderWayType DEF One
<1> QED BY <1>2, <1>3 DEF Returning, Asked, Worth

(* The events that have nothing to do with credits or links.               *)
Plain == {Started(0), Started(1), PipeError(1)} \cup {CmdRsp(s) : s \in CmdRsps}

(* They leave the books alone.                                             *)
LEMMA PlainBooks ==
  ASSUME NEW e \in Plain
  PROVE  /\ e \in LinkEvent /\ Worth(e) = 0
         /\ One(e, {Received}) = 0 /\ One(e, LinkChange) = 0
<1>1. CASE e \in {Started(0), Started(1), PipeError(1)}
  BY <1>1, WorthOf, WorthNothing DEF One, LinkEvent
<1>2. CASE \E s \in CmdRsps : e = CmdRsp(s)
  BY <1>2, WorthOf, WorthNothing DEF One, LinkEvent
<1> QED BY <1>1, <1>2 DEF Plain

(* What the radio's answer to a command does to the books.  An answer of    *)
(* the program takes room in it and returns later, or fails at once.       *)
LEMMA ActsBooks ==
  ASSUME LinkInv, LinkInv', LinkTyped, RadioActs
  PROVE  /\ Sending' + owed' + Returning' <= Sending + owed + Returning
         /\ Asked' = Asked
         /\ link' = "connected" =>
              /\ Sending' + owed' + Returning' = Sending + owed + Returning
              /\ Waits(LinkChange)' = Waits(LinkChange) /\ link = "connected"
         /\ link # "connected" => Waits(LinkChange)' = Waits(LinkChange)
         /\ UNCHANGED <<pc, data_credit_available, packets, event>>
<1>1. /\ inbox # << >> /\ inbox' = Tail(inbox)
      /\ UNCHANGED <<pc, data_credit_available, packets>>
  BY DEF RadioActs, cpuVars, boundVars
<1>2. /\ Sending \in Nat /\ Waits(OneCredit) \in Nat /\ Waits(TwoCredits) \in Nat
      /\ Asked \in Nat /\ owed \in Nat /\ Waits(LinkChange) \in Nat
  BY UnderWayType DEF Sending, Asked, LinkTyped
<1>3. Sending' \in Nat /\ Returning \in Nat
  BY <1>2, UnderWayNext DEF Sending, Returning
<1>4. tx_q' = tx_q => Sending = Sending' + One(Head(inbox), {SendData})
  BY <1>1, ActCounts DEF Sending
<1>5. CASE RadioResets
  <2>1. /\ RadioRaises(<<CmdRsp("reset_done")>>) /\ link' = "standby" /\ owed' = 0
        /\ CmdRsp("reset_done") \in Plain
    BY <1>5 DEF RadioResets, Plain, CmdRsps
  <2>2. tx_q' = tx_q /\ event' = event
    BY <2>1 DEF RadioRaises
  <2>3. Returning' = Returning + 0 /\ Asked' = Asked + 0
        /\ Waits(LinkChange)' = Waits(LinkChange) + 0
    BY <2>1, PlainBooks, RaiseBooks
  <2>4. One(Head(inbox), {SendData}) \in Nat
    BY DEF One
  <2>5. Sending' <= Sending
    BY <1>2, <1>3, <1>4, <2>2, <2>4
  <2> DEFINE sending == Sending'
  <2>6. sending \in Nat /\ sending <= Sending /\ Returning \in Nat
    BY <1>3, <2>5
  <2> HIDE DEF sending
  <2>7. sending + 0 + Returning <= Sending + owed + Returning
    BY <1>2, <2>6
  <2>8. Returning' = Returning /\ Asked' = Asked /\ Waits(LinkChange)' = Waits(LinkChange)
    BY <1>2, <1>3, <2>3
  <2>9. Sending' + owed' + Returning' <= Sending + owed + Returning
    BY <2>1, <2>7, <2>8 DEF sending
  <2> QED BY <1>1, <2>1, <2>2, <2>8, <2>9
<1>6. CASE RadioAdvertises
  <2>1. /\ RadioRaises(<<CmdRsp("done")>>) /\ owed' = owed
        /\ link' = "connected" => link = "connected"
        /\ CmdRsp("done") \in Plain
    BY <1>6 DEF RadioAdvertises, Plain, CmdRsps
  <2>2. tx_q' = tx_q /\ event' = event
    BY <2>1 DEF RadioRaises
  <2>3. Returning' = Returning + 0 /\ Asked' = Asked + 0
        /\ Waits(LinkChange)' = Waits(LinkChange) + 0
    BY <2>1, PlainBooks, RaiseBooks
  <2>4. One(Head(inbox), {SendData}) = 0
    BY <1>6, WorthOf DEF One, RadioAdvertises
  <2>5. Sending' = Sending
    BY <1>2, <1>3, <1>4, <2>2, <2>4
  <2> QED BY <1>1, <1>2, <1>3, <2>1, <2>2, <2>3, <2>5
<1>7. CASE RadioDisconnects
  <2>1. One(Head(inbox), {SendData}) = 0
    BY <1>7, WorthOf DEF One, RadioDisconnects
  <2>2. CASE link = "connected"
    <3>1. /\ RadioRaises(<<CmdRsp("done"), Disconnected>>) /\ owed' = 0
          /\ link' = "standby" /\ CmdRsp("done") \in Plain /\ Disconnected \in LinkEvent
      BY <1>7, <2>2 DEF RadioDisconnects, Plain, CmdRsps, LinkEvent
    <3>2. tx_q' = tx_q /\ event' = event
      BY <3>1 DEF RadioRaises
    <3>3. One(Disconnected, {Received}) = 0 /\ Worth(Disconnected) = 0
      BY WorthNothing DEF One, Disconnected, Received, Msg
    <3>4. CmdRsp("done") \in LinkEvent /\ Worth(CmdRsp("done")) = 0
          /\ One(CmdRsp("done"), {Received}) = 0
      BY <3>1, PlainBooks
    <3>5. Returning' = Returning + 0 + 0 /\ Asked' = Asked + 0 + 0
      BY <3>1, <3>3, <3>4, RaiseTwoBooks
    <3>6. Sending' = Sending
      BY <1>2, <1>3, <1>4, <2>1, <3>2
    <3> QED BY <2>2, <1>1, <1>2, <1>3, <3>1, <3>2, <3>5, <3>6
  <2>3. CASE link # "connected"
    <3>1. /\ RadioRaises(<<CmdRsp("error")>>) /\ owed' = owed
          /\ link' # "connected" /\ CmdRsp("error") \in Plain
      BY <1>7, <2>3 DEF RadioDisconnects, Plain, CmdRsps
    <3>2. tx_q' = tx_q /\ event' = event
      BY <3>1 DEF RadioRaises
    <3>3. Returning' = Returning + 0 /\ Asked' = Asked + 0
          /\ Waits(LinkChange)' = Waits(LinkChange) + 0
      BY <3>1, PlainBooks, RaiseBooks
    <3>4. Sending' = Sending
      BY <1>2, <1>3, <1>4, <2>1, <3>2
    <3> QED BY <1>1, <1>2, <1>3, <3>1, <3>2, <3>3, <3>4
  <2> QED BY <2>2, <2>3
<1>8. CASE RadioSends
  <2>1. One(Head(inbox), {SendData}) = 1 /\ link' = link
    BY <1>8 DEF One, RadioSends
  <2>2. CASE link = "connected"
    <3>1. RadioRaises(<< >>) /\ owed' = owed + 1
      BY <1>8, <2>2 DEF RadioSends
    <3>2. tx_q' = tx_q /\ event' = event
      BY <3>1 DEF RadioRaises
    <3>3. Returning' = Returning /\ Asked' = Asked
          /\ Waits(LinkChange)' = Waits(LinkChange)
      BY <3>1, RaiseNoneCounts DEF Returning, Asked
    <3>4. Sending = Sending' + 1
      BY <1>4, <2>1, <3>2
    <3> DEFINE sending == Sending'
    <3>5. sending \in Nat /\ Sending = sending + 1 /\ Returning \in Nat
      BY <1>3, <3>4
    <3> HIDE DEF sending
    <3>6. /\ sending + (owed + 1) + Returning = Sending + owed + Returning
          /\ Sending + owed + Returning \in Nat
      BY <1>2, <3>5
    <3>7. Sending' + owed' + Returning' = Sending + owed + Returning
      BY <3>1, <3>3, <3>6 DEF sending
    <3>8. Sending' + owed' + Returning' <= Sending + owed + Returning
      BY <3>6, <3>7
    <3> QED BY <1>1, <2>1, <2>2, <3>2, <3>3, <3>7, <3>8
  <2>3. CASE link # "connected"
    <3>1. RadioRaises(<<PipeError(0)>>) /\ owed' = owed /\ PipeError(0) \in LinkEvent
      BY <1>8, <2>3 DEF RadioSends, LinkEvent
    <3>2. tx_q' = tx_q /\ event' = event
      BY <3>1 DEF RadioRaises
    <3>3. /\ Worth(PipeError(0)) = 1 /\ One(PipeError(0), {Received}) = 0
          /\ One(PipeError(0), LinkChange) = 0
      BY WorthOf, WorthNothing DEF One
    <3>4. /\ Returning' = Returning + 1 /\ Asked' = Asked + 0
          /\ Waits(LinkChange)' = Waits(LinkChange) + 0
      BY <3>1, <3>3, RaiseBooks
    <3>5. Sending = Sending' + 1
      BY <1>4, <2>1, <3>2
    <3> DEFINE sending == Sending'
    <3>6. sending \in Nat /\ Sending = sending + 1 /\ Returning \in Nat
      BY <1>3, <3>5
    <3> HIDE DEF sending
    <3>7. /\ sending + owed + (Returning + 1) = Sending + owed + Returning
          /\ Sending + owed + Returning \in Nat
      BY <1>2, <3>6
    <3>8. Asked' = Asked /\ Waits(LinkChange)' = Waits(LinkChange)
      BY <1>2, <3>4
    <3>9. Sending' + owed' + Returning' = Sending + owed + Returning
      BY <3>1, <3>4, <3>7 DEF sending
    <3>10. Sending' + owed' + Returning' <= Sending + owed + Returning
      BY <3>7, <3>9
    <3> QED BY <1>1, <2>1, <2>3, <3>2, <3>8, <3>9, <3>10
  <2> QED BY <2>2, <2>3
<1>9. CASE RadioStores
  <2>1. One(Head(inbox), {SendData}) = 0 /\ link' = link /\ owed' = owed
    BY <1>9 DEF One, RadioStores, SendData, Msg
  <2>2. PICK s \in CmdRsps : RadioRaises(<<CmdRsp(s)>>)
    BY <1>9 DEF RadioStores, CmdRsps
  <2>3. tx_q' = tx_q /\ event' = event /\ CmdRsp(s) \in Plain
    BY <2>2 DEF RadioRaises, Plain
  <2>4. Returning' = Returning + 0 /\ Asked' = Asked + 0
        /\ Waits(LinkChange)' = Waits(LinkChange) + 0
    BY <2>2, <2>3, PlainBooks, RaiseBooks
  <2>5. Sending' = Sending
    BY <1>2, <1>3, <1>4, <2>1, <2>3
  <2> QED BY <1>1, <1>2, <1>3, <2>1, <2>3, <2>4, <2>5
<1> QED BY <1>5, <1>6, <1>7, <1>8, <1>9 DEF RadioActs

(* What the radio and the central do by themselves.                        *)
Outside == \/ RadioGrants \/ RadioStarts \/ CentralConnects \/ CentralWrites
           \/ CreditReturns \/ LinkEnds

(* A packet is entered in the books; a credit only moves in them.          *)
LEMMA OutsideBooks ==
  ASSUME LinkInv, LinkInv', LinkTyped, Outside
  PROVE  /\ Sending' = Sending /\ packets' \in Nat /\ packets' >= packets
         /\ owed' + Returning' <= owed + Returning
         /\ 2 * Asked' - 2 * packets' = 2 * Asked - 2 * packets
         /\ link' = "connected" =>
              \/ Waits(LinkChange)' # 0
              \/ /\ owed' + Returning' = owed + Returning
                 /\ Waits(LinkChange)' = Waits(LinkChange) /\ link = "connected"
         /\ link \in {"off", "standby"} =>
              link' \in {"off", "standby"} /\ Waits(LinkChange)' = Waits(LinkChange)
         /\ UNCHANGED <<pc, data_credit_available, event>>
<1>1. UNCHANGED <<pc, data_credit_available, tx_q, inbox, event>>
  BY DEF Outside, RadioGrants, RadioStarts, CentralConnects, CentralWrites, CreditReturns,
     LinkEnds, RadioReady, RadioRaises, cpuVars
<1>2. Sending' = Sending
  BY <1>1 DEF Sending, Queued
<1>3. /\ Waits(OneCredit) \in Nat /\ Waits(TwoCredits) \in Nat /\ Asked \in Nat
      /\ owed \in Nat /\ Waits(LinkChange) \in Nat /\ packets \in Nat
  BY UnderWayType, AciLinkAssumption DEF Asked, LinkTyped
<1>4. Returning \in Nat
  BY <1>3 DEF Returning
<1>5. CASE RadioGrants
  <2>1. UNCHANGED <<outbox, event, owed, link, packets>>
    BY <1>5 DEF RadioGrants, RadioReady, radioVars, boundVars
  <2>2. Returning' = Returning /\ Asked' = Asked /\ Waits(LinkChange)' = Waits(LinkChange)
    BY <2>1 DEF Returning, Asked, Waits
  <2> QED BY <1>1, <1>2, <1>3, <1>4, <2>1, <2>2
<1>6. CASE RadioStarts
  <2>1. PICK n \in 0..1 : RadioRaises(<<Started(n)>>)
    BY <1>6 DEF RadioStarts
  <2>2. Started(n) \in Plain
    <3>1. n = 0 \/ n = 1
      OBVIOUS
    <3> QED BY <3>1 DEF Plain
  <2>3. Returning' = Returning + 0 /\ Asked' = Asked + 0
        /\ Waits(LinkChange)' = Waits(LinkChange) + 0
    BY <2>1, <2>2, PlainBooks, RaiseBooks
  <2>4. owed' = owed /\ packets' = packets /\ link' = "standby"
    BY <1>6 DEF RadioStarts, boundVars
  <2> QED BY <1>1, <1>2, <1>3, <1>4, <2>3, <2>4
<1>7. CASE CentralConnects
  <2>1. /\ RadioRaises(<<Connected>>) /\ owed' = owed /\ packets' = packets
        /\ Connected \in LinkEvent /\ link = "advertising"
    BY <1>7 DEF CentralConnects, LinkEvent
  <2>2. Worth(Connected) = 0 /\ One(Connected, {Received}) = 0 /\ One(Connected, LinkChange) = 1
    BY WorthOf, WorthNothing DEF One, Connected, Received, Msg
  <2>3. /\ Returning' = Returning + 0 /\ Asked' = Asked + 0
        /\ Waits(LinkChange)' = Waits(LinkChange) + 1
    BY <2>1, <2>2, RaiseBooks
  <2> QED BY <1>1, <1>2, <1>3, <1>4, <2>1, <2>3
<1>8. CASE CentralWrites
  <2>1. /\ RadioRaises(<<Received>>) /\ owed' = owed /\ packets' = packets + 1
        /\ link' = link /\ link = "connected" /\ Received \in LinkEvent
    BY <1>8 DEF CentralWrites, radioVars, LinkEvent
  <2>2. Worth(Received) = 0 /\ One(Received, {Received}) = 1 /\ One(Received, LinkChange) = 0
    BY WorthOf, WorthNothing DEF One
  <2>3. /\ Returning' = Returning + 0 /\ Asked' = Asked + 1
        /\ Waits(LinkChange)' = Waits(LinkChange) + 0
    BY <2>1, <2>2, RaiseBooks
  <2> QED BY <1>1, <1>2, <1>3, <1>4, <2>1, <2>3
<1>9. CASE CreditReturns
  <2>1. link' = link /\ packets' = packets
    BY <1>9 DEF CreditReturns, boundVars
  <2>2. /\ \A n \in 1..2 : DataCredit(n) \in LinkEvent
        /\ PipeError(0) \in LinkEvent /\ PipeError(1) \in LinkEvent
    BY DEF LinkEvent
  <2>3. CASE \E n \in 1..2 : owed >= n /\ owed' = owed - n /\ RadioRaises(<<DataCredit(n)>>)
    <3>1. PICK n \in 1..2 : owed' = owed - n /\ RadioRaises(<<DataCredit(n)>>)
      BY <2>3
    <3>2. Worth(DataCredit(n)) = n
      <4>1. n = 1 \/ n = 2
        OBVIOUS
      <4> QED BY <4>1, WorthNothing
    <3>3. One(DataCredit(n), {Received}) = 0 /\ One(DataCredit(n), LinkChange) = 0
      BY WorthOf DEF One
    <3>4. /\ Returning' = Returning + n /\ Asked' = Asked + 0
          /\ Waits(LinkChange)' = Waits(LinkChange) + 0
      BY <2>2, <3>1, <3>2, <3>3, RaiseBooks
    <3> QED BY <1>1, <1>2, <1>3, <1>4, <2>1, <3>1, <3>4
  <2>4. CASE RadioRaises(<<PipeError(0)>>) /\ owed' = owed - 1
    <3>1. /\ Worth(PipeError(0)) = 1 /\ One(PipeError(0), {Received}) = 0
          /\ One(PipeError(0), LinkChange) = 0
      BY WorthOf, WorthNothing DEF One
    <3>2. /\ Returning' = Returning + 1 /\ Asked' = Asked + 0
          /\ Waits(LinkChange)' = Waits(LinkChange) + 0
      BY <2>2, <2>4, <3>1, RaiseBooks
    <3> QED BY <1>1, <1>2, <1>3, <1>4, <2>1, <2>4, <3>2
  <2>5. CASE RadioRaises(<<PipeError(1), DataCredit(1)>>) /\ owed' = owed - 1
    <3>1. /\ Worth(PipeError(1)) = 0 /\ One(PipeError(1), {Received}) = 0
          /\ One(PipeError(1), LinkChange) = 0
          /\ Worth(DataCredit(1)) = 1 /\ One(DataCredit(1), {Received}) = 0
          /\ One(DataCredit(1), LinkChange) = 0
      BY WorthOf, WorthNothing DEF One
    <3>2. /\ Returning' = Returning + 0 + 1 /\ Asked' = Asked + 0 + 0
          /\ Waits(LinkChange)' = Waits(LinkChange) + 0 + 0
      BY <2>2, <2>5, <3>1, RaiseTwoBooks
    <3> QED BY <1>1, <1>2, <1>3, <1>4, <2>1, <2>5, <3>2
  <2> QED BY <1>9, <2>3, <2>4, <2>5 DEF CreditReturns
<1>10. CASE LinkEnds
  <2>1. /\ RadioRaises(<<Disconnected>>) /\ owed' = 0 /\ packets' = packets
        /\ link = "connected" /\ link' = "standby" /\ Disconnected \in LinkEvent
    BY <1>10 DEF LinkEnds, LinkEvent, boundVars
  <2>2. Worth(Disconnected) = 0 /\ One(Disconnected, {Received}) = 0
    BY WorthNothing DEF One, Disconnected, Received, Msg
  <2>3. Returning' = Returning + 0 /\ Asked' = Asked + 0
    BY <2>1, <2>2, RaiseBooks
  <2> QED BY <1>1, <1>2, <1>3, <1>4, <2>1, <2>3
<1> QED BY <1>5, <1>6, <1>7, <1>8, <1>9, <1>10 DEF Outside

(* The radio and the central keep within the budget: a packet allows for   *)
(* the two answers it may have.                                            *)
LEMMA RadioBudget ==
  ASSUME LinkInv, LinkInv', LinkTyped, Budget, RadioActs \/ Outside
  PROVE  Budget'
<1>1. /\ Sending \in Nat /\ Asked \in Nat /\ owed \in Nat /\ packets \in Nat
      /\ Waits(OneCredit) \in Nat /\ Waits(TwoCredits) \in Nat
  BY UnderWayType, AciLinkAssumption DEF Sending, Asked, LinkTyped
<1>2. /\ Sending' \in Nat /\ Asked' \in Nat
      /\ Waits(OneCredit)' \in Nat /\ Waits(TwoCredits)' \in Nat
  BY UnderWayNext DEF Sending, Asked
<1>3. Returning \in Nat /\ Returning' \in Nat
  BY <1>1, <1>2 DEF Returning
<1>4. Answering' = Answering /\ Answering \in Nat
  <2>1. UNCHANGED pc
    BY ActsBooks, OutsideBooks
  <2> QED BY <2>1 DEF Answering
<1> DEFINE transit == Sending' + owed' + Returning'
           asked == Asked'
           most == packets'
<1>5. /\ asked \in Nat /\ most \in Nat /\ transit \in Int
      /\ transit <= Sending + owed + Returning
      /\ 2 * asked - 2 * most = 2 * Asked - 2 * packets
  <2>1. CASE RadioActs
    <3>1. /\ Sending' + owed' + Returning' <= Sending + owed + Returning
          /\ Asked' = Asked /\ packets' = packets
      BY <2>1, ActsBooks
    <3>2. owed' \in Int
      BY <1>1, <2>1
      DEF RadioActs, RadioResets, RadioAdvertises, RadioDisconnects, RadioSends, RadioStores
    <3>3. transit \in Int
      BY <1>2, <1>3, <3>2
    <3> QED BY <1>1, <3>1, <3>3
  <2>2. CASE Outside
    <3>1. /\ Sending' = Sending /\ packets' \in Nat
          /\ owed' + Returning' <= owed + Returning
          /\ 2 * Asked' - 2 * packets' = 2 * Asked - 2 * packets
      BY <2>2, OutsideBooks
    <3>2. owed' \in Int
      BY <1>1, <2>2
      DEF Outside, RadioGrants, RadioStarts, CentralConnects, CentralWrites, CreditReturns,
          LinkEnds, radioVars
    <3> DEFINE rest == owed' + Returning'
    <3>3. rest \in Int /\ rest <= owed + Returning
      BY <1>3, <3>1, <3>2
    <3>4. Returning \in Nat
      BY <1>3
    <3>5. transit = Sending + rest
      BY <1>1, <1>3, <3>1, <3>2
    <3> HIDE DEF rest, transit
    <3>6. transit \in Int /\ transit <= Sending + owed + Returning
      BY <1>1, <3>3, <3>4, <3>5
    <3> QED BY <1>2, <3>1, <3>6
  <2> QED BY <2>1, <2>2
<1>6. Returning \in Nat /\ Answering \in Nat
  BY <1>3, <1>4
<1> HIDE DEF transit, asked, most
<1>7. transit + 2 * asked + Answering <= 2 * most
  BY <1>1, <1>5, <1>6 DEF Budget
<1>8. Sending' + owed' + Returning' + 2 * Asked' + Answering' <= 2 * packets'
  BY <1>4, <1>7 DEF transit, asked, most
<1> QED BY <1>8 DEF Budget

(* A step is one of these.                                                 *)
LEMMA LinkSteps ==
  ASSUME [Next]_vars
  PROVE  Handler \/ Quiet \/ Watchdog \/ RadioActs \/ Outside \/ UNCHANGED vars
BY DEF Next, Processor, Handler, Quiet, Outside

(* Every step keeps within the budget.                                     *)
LEMMA StepBudget ==
  ASSUME LinkInv, LinkInv', LinkTyped, Budget, [Next]_vars
  PROVE  Budget'
<1>1. CASE UNCHANGED vars
  BY <1>1
  DEF vars, halVars, radioVars, boundVars, Budget, Sending, Returning, Asked, Answering,
      Queued, Waits
<1> QED
  BY <1>1, LinkSteps, HandlerBudget, QuietBudget, WatchdogBudget, RadioBudget

-----------------------------------------------------------------------------
(***************************************************************************)
(* Types.                                                                  *)
(***************************************************************************)
(* The counters wrap within their width.                                   *)
LEMMA CountersType ==
  /\ \A a \in Int : a % CreditWrap \in 0..CreditWrap - 1
  /\ \A a \in Int : a % CountWrap \in 0..CountWrap - 1
  /\ Credit \in 0..CreditWrap - 1
  /\ BondCounts \subseteq 0..CountWrap - 1
  /\ MaxData \in Nat /\ Chunks \in Nat \ {0}
BY AciLinkAssumption

(* The program's variables.                                                *)
LEMMA ProgramTyped ==
  ASSUME LinkTyped, [Next]_vars
  PROVE  /\ pc' \in PC /\ valid_app' \in BOOLEAN
         /\ data_credit_available' \in 0..CreditWrap - 1
         /\ bonded' \in BOOLEAN /\ foreign' \in BOOLEAN
         /\ eeprom_status' \in BondCounts \cup {NoBond}
         /\ write_dyn_num_msgs' \in 0..CountWrap - 1
<1>typed. /\ pc \in PC /\ valid_app \in BOOLEAN /\ data_credit_available \in 0..CreditWrap - 1
          /\ bonded \in BOOLEAN /\ foreign \in BOOLEAN
          /\ eeprom_status \in BondCounts \cup {NoBond}
          /\ write_dyn_num_msgs \in 0..CountWrap - 1
          /\ event \in LinkEvent \cup {None}
  BY DEF LinkTyped
<1>1. pc' \in PC
  <2>1. CASE Handler
    BY <1>typed, <2>1
    DEF Handler, RestoreBegins, Advertise, CreditEvent, Ignored, Answers, ReceiveFw, Activate, SysReset,
        Dropped, RestoreCompletes, RestoreGivesUp, RestoreGoesOn, PC
  <2>2. CASE Quiet
    BY <1>typed, <2>2 DEF Quiet, LibAciInit, Reply, NoReply, RestoreSend, EventGet, PC
  <2>3. CASE Watchdog
    BY <2>3 DEF Watchdog, CpuStarts, JumpCheck, PC
  <2>4. CASE RadioActs \/ Outside \/ UNCHANGED vars
    BY <1>typed, <2>4
    DEF RadioActs, Outside, RadioGrants, RadioStarts, CentralConnects, CentralWrites,
        CreditReturns, LinkEnds, cpuVars, vars
  <2> QED BY <2>1, <2>2, <2>3, <2>4, LinkSteps
<1>valid. valid_app' \in BOOLEAN
  <2>1. CASE Handler
    BY <1>typed, <2>1
    DEF Handler, RestoreBegins, Advertise, CreditEvent, Ignored, Answers, ReceiveFw,
        Activate, SysReset, Dropped, RestoreCompletes, RestoreGivesUp, RestoreGoesOn,
        dfuVars
  <2>2. CASE Quiet
    BY <1>typed, <2>2
    DEF Quiet, LibAciInit, Reply, NoReply, RestoreSend, EventGet, dfuVars
  <2>3. CASE Watchdog
    BY <1>typed, <2>3 DEF Watchdog
  <2>4. CASE RadioActs \/ Outside \/ UNCHANGED vars
    BY <1>typed, <2>4
    DEF RadioActs, Outside, RadioGrants, RadioStarts, CentralConnects, CentralWrites,
        CreditReturns, LinkEnds, cpuVars, dfuVars, vars
  <2> QED BY <2>1, <2>2, <2>3, <2>4, LinkSteps
<1>2. data_credit_available' \in 0..CreditWrap - 1
  <2> DEFINE c == data_credit_available
  <2>1. \A n \in Int : Plus(n) \in 0..CreditWrap - 1
    <3>1. c \in Int /\ \A n \in Int : c + n \in Int
      BY <1>typed, AciLinkAssumption
    <3> QED BY <3>1, CountersType DEF Plus
  <2>2. CASE CreditEvent
    <3>1. event \in LinkEvent
      BY <1>typed, <2>2 DEF CreditEvent
    <3>2. event.what = "data_credit" => event.n \in Int
      BY <3>1
      DEF LinkEvent, Msg, Started, Connected, Disconnected, Received, PipeError, CmdRsp,
          DataCredit
    <3>3. CreditAfter \in 0..CreditWrap - 1
      BY <1>typed, <2>1, <2>2, <3>2, CountersType DEF CreditAfter, CreditEvent
    <3> QED BY <2>2, <3>3 DEF CreditEvent
  <2>3. CASE Handler /\ ~CreditEvent
    BY <1>typed, <2>3
    DEF Handler, RestoreBegins, Advertise, Ignored, Answers, ReceiveFw, Activate, SysReset,
        Dropped, RestoreCompletes, RestoreGivesUp, RestoreGoesOn
  <2>4. CASE Quiet
    <3>1. c' = c \/ c' = Plus(-1) \/ c' = Credit
      BY <2>4 DEF Quiet, LibAciInit, Reply, NoReply, RestoreSend, EventGet
    <3>2. -1 \in Int
      OBVIOUS
    <3> QED BY <1>typed, <2>1, <3>1, <3>2, CountersType
  <2>5. CASE Watchdog
    BY <2>5, CountersType DEF Watchdog, CpuStarts, JumpCheck
  <2>6. CASE RadioActs \/ Outside \/ UNCHANGED vars
    BY <1>typed, <2>6
    DEF RadioActs, Outside, RadioGrants, RadioStarts, CentralConnects, CentralWrites,
        CreditReturns, LinkEnds, cpuVars, vars
  <2> QED BY <2>2, <2>3, <2>4, <2>5, <2>6, LinkSteps
<1>3. /\ bonded' \in BOOLEAN /\ foreign' \in BOOLEAN
      /\ eeprom_status' \in BondCounts \cup {NoBond}
      /\ write_dyn_num_msgs' \in 0..CountWrap - 1
  <2>none. NoRestore =>
             /\ eeprom_status' = NoBond /\ foreign' = FALSE
             /\ write_dyn_num_msgs' \in 0..CountWrap - 1
    <3>1. CountWrap \in Nat \ {0}
      BY AciLinkAssumption
    <3> QED BY <3>1 DEF NoRestore
  <2>left. MsgsLeft \in 0..CountWrap - 1
    <3>1. write_dyn_num_msgs - 1 \in Int
      BY <1>typed, AciLinkAssumption
    <3> QED BY <3>1, CountersType DEF MsgsLeft
  <2>1. CASE RestoreBegins
    <3>1. UNCHANGED bonded /\ foreign' = FALSE
          /\ eeprom_status' \in BondCounts /\ write_dyn_num_msgs' = eeprom_status'
      BY <2>1 DEF RestoreBegins
    <3> QED BY <1>typed, <3>1, CountersType
  <2>2. CASE RestoreCompletes \/ RestoreGivesUp
    BY <1>typed, <2>none, <2>2 DEF RestoreCompletes, RestoreGivesUp
  <2>3. CASE RestoreGoesOn
    <3>1. foreign' \in BOOLEAN
      BY <1>typed, <2>3 DEF RestoreGoesOn
    <3> QED BY <1>typed, <2>left, <2>3, <3>1 DEF RestoreGoesOn
  <2>4. CASE Handler /\ ~(RestoreBegins \/ RestoreCompletes \/ RestoreGivesUp \/ RestoreGoesOn)
    BY <1>typed, <2>4
    DEF Handler, Advertise, CreditEvent, Ignored, Answers, ReceiveFw, Activate, SysReset, Dropped,
        bondVars
  <2>5. CASE Quiet
    BY <1>typed, <2>5
    DEF Quiet, LibAciInit, Reply, NoReply, RestoreSend, EventGet, QueueOnly, bondVars
  <2>6. CASE Watchdog
    BY <2>none, <2>6 DEF Watchdog, CpuStarts, JumpCheck
  <2>7. CASE RadioActs \/ Outside \/ UNCHANGED vars
    BY <1>typed, <2>7
    DEF RadioActs, Outside, RadioGrants, RadioStarts, CentralConnects, CentralWrites,
        CreditReturns, LinkEnds, cpuVars, bondVars, vars
  <2> QED BY <2>1, <2>2, <2>3, <2>4, <2>5, <2>6, <2>7, LinkSteps
<1> QED BY <1>1, <1>valid, <1>2, <1>3

(* What the radio raises are events of the link.                           *)
RaisesLink == \E events \in Seq(LinkEvent) : RadioRaises(events)

(* So is what it raises in answer to a command, or by itself.              *)
LEMMA RaisesLinkEvents ==
  ASSUME RadioActs \/ (Outside /\ ~RadioGrants)
  PROVE  RaisesLink
<1>1. /\ \A e \in LinkEvent : <<e>> \in Seq(LinkEvent)
      /\ \A e, f \in LinkEvent : <<e, f>> \in Seq(LinkEvent)
      /\ << >> \in Seq(LinkEvent)
  OBVIOUS
<1>2. /\ \A n \in 0..1 : Started(n) \in LinkEvent
      /\ \A s \in CmdRsps : CmdRsp(s) \in LinkEvent
      /\ Connected \in LinkEvent /\ Disconnected \in LinkEvent /\ Received \in LinkEvent
      /\ \A n \in 1..2 : DataCredit(n) \in LinkEvent
      /\ PipeError(0) \in LinkEvent /\ PipeError(1) \in LinkEvent
  <2>1. \A n \in 0..1 : n = 0 \/ n = 1
    OBVIOUS
  <2> QED BY <2>1 DEF LinkEvent
<1>3. {"reset_done", "continue", "complete", "error", "done"} \subseteq CmdRsps
  BY DEF CmdRsps
<1>4. \/ RadioRaises(<< >>)
      \/ \E e \in LinkEvent : RadioRaises(<<e>>)
      \/ \E e, f \in LinkEvent : RadioRaises(<<e, f>>)
  <2> HIDE DEF CmdRsps
  <2>1. CASE RadioResets \/ RadioAdvertises \/ RadioStores
    BY <1>2, <1>3, <2>1 DEF RadioResets, RadioAdvertises, RadioStores
  <2>2. CASE RadioDisconnects
    BY <1>2, <1>3, <2>2 DEF RadioDisconnects
  <2>3. CASE RadioSends
    BY <1>2, <2>3 DEF RadioSends
  <2>4. CASE RadioStarts
    BY <1>2, <2>4 DEF RadioStarts
  <2>5. CASE CentralConnects \/ CentralWrites \/ LinkEnds
    BY <1>2, <2>5 DEF CentralConnects, CentralWrites, LinkEnds
  <2>6. CASE CreditReturns
    <3>1. 1 \in 1..2
      OBVIOUS
    <3> QED BY <1>2, <2>6, <3>1 DEF CreditReturns
  <2> QED BY <2>1, <2>2, <2>3, <2>4, <2>5, <2>6 DEF RadioActs, Outside
<1>5. CASE RadioRaises(<< >>)
  BY <1>1, <1>5 DEF RaisesLink
<1>6. CASE \E e \in LinkEvent : RadioRaises(<<e>>)
  BY <1>1, <1>6 DEF RaisesLink
<1>7. CASE \E e, f \in LinkEvent : RadioRaises(<<e, f>>)
  BY <1>1, <1>7 DEF RaisesLink
<1> QED BY <1>4, <1>5, <1>6, <1>7

(* The radio's variables.                                                  *)
LEMMA RadioTyped ==
  ASSUME LinkTyped, [Next]_vars
  PROVE  /\ link' \in {"off", "standby", "advertising", "connected"}
         /\ restored' \in 0..Chunks
         /\ owed' \in Nat
         /\ packets' \in 0..MaxData
<1>typed. /\ link \in {"off", "standby", "advertising", "connected"}
          /\ restored \in 0..Chunks /\ owed \in Nat /\ packets \in 0..MaxData
          /\ MaxData \in Nat
  BY AciLinkAssumption DEF LinkTyped
<1>1. restored' \in 0..Chunks
  BY <1>typed, RestoredStep
<1>2. CASE Handler
  BY <1>typed, <1>1, <1>2, HandlerDoes DEF Handled, radioVars
<1>3. CASE Quiet \/ Watchdog \/ UNCHANGED vars
  BY <1>typed, <1>1, <1>3
  DEF Quiet, LibAciInit, Reply, NoReply, RestoreSend, EventGet, QueueOnly, Watchdog,
      radioVars, boundVars, vars
<1>4. CASE RadioActs
  BY <1>typed, <1>1, <1>4
  DEF RadioActs, RadioResets, RadioAdvertises, RadioDisconnects, RadioSends, RadioStores,
      boundVars
<1>5. CASE Outside
  <2>1. CASE CreditReturns
    <3>1. owed' \in Nat
      BY <1>typed, <2>1 DEF CreditReturns
    <3> QED BY <1>typed, <1>1, <2>1, <3>1 DEF CreditReturns, boundVars
  <2>2. CASE ~CreditReturns
    BY <1>typed, <1>1, <1>5, <2>2
    DEF Outside, RadioGrants, RadioStarts, CentralConnects, CentralWrites, LinkEnds,
        radioVars, boundVars
  <2> QED BY <2>1, <2>2
<1> QED BY <1>2, <1>3, <1>4, <1>5, LinkSteps

(* The events under way.                                                   *)
LEMMA EventsTyped ==
  ASSUME LinkInv, LinkTyped, [Next]_vars
  PROVE  outbox' \in Seq(LinkEvent) /\ event' \in LinkEvent \cup {None}
<1>typed. outbox \in Seq(LinkEvent) /\ event \in LinkEvent \cup {None} /\ rx_q = << >>
  BY DEF LinkTyped, LinkInv, HalTypeOK
<1>1. CASE Handler
  <2>1. Handled
    BY <1>1, HandlerDoes
  <2> QED BY <1>typed, <2>1 DEF Handled, EventUsed
<1>2. CASE EventGet
  <2>1. CASE EventGetIdle
    BY <1>typed, <2>1 DEF EventGetIdle, HandsOut, First
  <2>2. CASE EventGetTransfer
    <3>1. outbox' = Rest(outbox) /\ event' = First(outbox)
      BY <2>2, TransferMoves DEF LinkInv
    <3> QED BY <1>typed, <3>1, OldestOfQueue
  <2> QED BY <1>2, <2>1, <2>2 DEF EventGet, HalEventGet
<1>3. CASE Quiet /\ ~EventGet
  BY <1>typed, <1>3
  DEF Quiet, LibAciInit, Reply, NoReply, RestoreSend, QueueOnly
<1>4. CASE Watchdog
  BY <1>typed, <1>4 DEF Watchdog, HalInitialised
<1>5. CASE RadioGrants \/ UNCHANGED vars
  BY <1>typed, <1>5 DEF RadioGrants, RadioReady, vars, halVars
<1>6. CASE RadioActs \/ (Outside /\ ~RadioGrants)
  <2>1. PICK events \in Seq(LinkEvent) : RadioRaises(events)
    BY <1>6, RaisesLinkEvents DEF RaisesLink
  <2>2. outbox' = outbox \o events /\ event' = event
    BY <2>1 DEF RadioRaises
  <2> QED BY <1>typed, <2>2
<1> QED BY <1>1, <1>2, <1>3, <1>4, <1>5, <1>6, LinkSteps

(* Types and budget hold throughout.                                       *)
BooksInv == LinkInv /\ LinkTyped /\ Budget

(* The radio starts off, and owes nothing.                                 *)
LEMMA BooksHold == Spec => []BooksInv
<1>1. Init => LinkTyped /\ Budget
  <2> SUFFICES ASSUME Init PROVE LinkTyped /\ Budget
    OBVIOUS
  <2>1. LinkTyped
    <3>1. CountWrap \in Nat \ {0} /\ MaxData \in Nat /\ Chunks \in Nat
          /\ Credit \in 0..CreditWrap - 1
      BY AciLinkAssumption
    <3>2. << >> \in Seq(LinkEvent)
      OBVIOUS
    <3>3. /\ 0 \in 0..CountWrap - 1 /\ 0 \in 0..MaxData /\ 0 \in 0..Chunks /\ 0 \in Nat
      BY <3>1
    <3>4. pc \in PC /\ valid_app \in BOOLEAN /\ data_credit_available \in 0..CreditWrap - 1
      BY <3>1 DEF Init, PC
    <3>5. /\ bonded \in BOOLEAN /\ foreign \in BOOLEAN
          /\ eeprom_status \in BondCounts \cup {NoBond}
          /\ write_dyn_num_msgs \in 0..CountWrap - 1
      BY <3>3 DEF Init
    <3>6. /\ link \in {"off", "standby", "advertising", "connected"}
          /\ restored \in 0..Chunks /\ owed \in Nat /\ packets \in 0..MaxData
      BY <3>3 DEF Init
    <3>7. outbox \in Seq(LinkEvent) /\ event \in LinkEvent \cup {None}
      BY <3>2 DEF Init, HalInit
    <3> QED BY <3>4, <3>5, <3>6, <3>7 DEF LinkTyped
  <2>2. /\ tx_q = << >> /\ inbox = << >> /\ outbox = << >> /\ event = None
        /\ owed = 0 /\ packets = 0 /\ pc = "init"
    BY DEF Init, HalInit
  <2>3. /\ Sending = 0 /\ Waits(OneCredit) = 0 /\ Waits(TwoCredits) = 0 /\ Asked = 0
    BY <2>2, OccursFew, NoneIsNoEvent DEF Sending, Queued, Waits, Asked, One
  <2>4. Answering = 0 /\ Returning = 0
    BY <2>2, <2>3 DEF Answering, Returning
  <2>5. Budget
    BY <2>2, <2>3, <2>4 DEF Budget
  <2> QED BY <2>1, <2>5
<1>2. LinkInv /\ LinkInv' /\ LinkTyped /\ Budget /\ [Next]_vars => LinkTyped' /\ Budget'
  <2> SUFFICES ASSUME LinkInv, LinkInv', LinkTyped, Budget, [Next]_vars
               PROVE  LinkTyped' /\ Budget'
    OBVIOUS
  <2>1. Budget'
    BY StepBudget
  <2>2. LinkTyped'
    BY ProgramTyped, RadioTyped, EventsTyped DEF LinkTyped
  <2> QED BY <2>1, <2>2
<1> QED BY <1>1, <1>2, LinkInvariant, PTL DEF Spec, BooksInv

(* Every variable holds values of its type: the radio never owes more than  *)
(* two credits for each packet the central has sent, for any sizes, counts  *)
(* and events (ble_update, m_send of dfu.c).                               *)
THEOREM LinkTypeCorrect == Spec => []TypeOK
<1>1. BooksInv => TypeOK
  <2> SUFFICES ASSUME BooksInv PROVE TypeOK
    OBVIOUS
  <2>1. LinkInv /\ LinkTyped /\ Budget
    BY DEF BooksInv
  <2>2. /\ Sending \in Nat /\ Asked \in Nat /\ owed \in Nat
        /\ Waits(OneCredit) \in Nat /\ Waits(TwoCredits) \in Nat
    BY <2>1, UnderWayType DEF Sending, Asked, LinkTyped
  <2>3. Returning \in Nat /\ Answering \in Nat
    BY <2>2 DEF Returning, Answering
  <2>4. packets \in 0..MaxData /\ MaxData \in Nat
    BY <2>1, AciLinkAssumption DEF LinkTyped
  <2>5. owed <= 2 * packets
    BY <2>1, <2>2, <2>3, <2>4 DEF Budget
  <2>6. owed \in 0..2 * MaxData
    BY <2>2, <2>4, <2>5
  <2> QED BY <2>1, <2>6 DEF LinkInv, RoomInv, LinkTyped, TypeOK
<1> QED BY <1>1, BooksHold, PTL

-----------------------------------------------------------------------------
(***************************************************************************)
(* Credit survives connections.                                            *)
(***************************************************************************)
(* The radio has started, once, and the program restores the bond.         *)
Beginnings == {Started(0), Started(1)}
Restoring == pc \in {"bond", "waiting"}

(* Device Started is the radio's first event; it is gone when the restore   *)
(* begins.                                                                 *)
BeginInv ==
  /\ \A i \in 1..Len(outbox) :
       outbox[i] \in Beginnings => i = 1 /\ event = None /\ ~Restoring
  /\ event \in Beginnings => ~Restoring
  /\ link = "off" => outbox = << >> /\ event = None /\ ~Restoring /\ owed = 0

(* Until the program knows and has restored the bond, it has not asked the  *)
(* radio to advertise, so there is no link.                                *)
Fresh == \/ link = "off" \/ Restoring
         \/ event \in Beginnings
         \/ outbox # << >> /\ outbox[1] \in Beginnings

SilentInv ==
  Fresh => /\ link \in {"off", "standby"}
           /\ Queued({Connect}) = 0
           /\ Waits(LinkChange) = 0

(* What the program will hear last of the link is what is the case.        *)
LatestInv ==
  link = "connected" =>
    /\ \A i \in 1..Len(outbox) :
         outbox[i] = Disconnected => \E j \in i + 1..Len(outbox) : outbox[j] = Connected
    /\ event = Disconnected => \E j \in 1..Len(outbox) : outbox[j] = Connected

(* While the program knows of the connection, the credit there is is what   *)
(* was granted, or a surplus, up to a multiple of the counter's width.     *)
Tracked == link = "connected" /\ pc # "activate" /\ Waits(LinkChange) = 0

Balanced(sum, most) ==
  \E k \in Int, surplus \in 0..most : sum = Credit + surplus + CreditWrap * k

InTransit == Sending + owed + Returning

KeptInv == Tracked => Balanced(data_credit_available + InTransit, 2 * packets)

(* What the radio may raise: Device Started when it starts, nothing before, *)
(* and no disconnection while there is a link.                             *)
Polite(events) ==
  /\ \A i \in 1..Len(events) : events[i] \in Beginnings => i = 1 /\ link = "off"
  /\ link' = "off" => link = "off" /\ events = << >> /\ owed' = owed
  /\ link' = "connected" =>
       \/ events = <<Connected>>
       \/ link = "connected" /\ \A i \in 1..Len(events) : events[i] # Disconnected

(* How a step moves the events under way: they stay, or the one in hand is  *)
(* used up; the next one is fetched; or the radio raises some.             *)
Stay == /\ UNCHANGED <<outbox, link, owed>>
        /\ event' \in {event, None}
        /\ Restoring' => Restoring \/ (event = Started(0) /\ event' = None)

Fetch == /\ event = None /\ outbox' = Rest(outbox) /\ event' = First(outbox)
         /\ UNCHANGED <<link, owed, pc>>

Raise == \E events \in Seq(LinkEvent) :
           /\ outbox' = outbox \o events
           /\ Polite(events)
           /\ UNCHANGED <<event, pc>>

(* The program's steps, and the watchdog.                                  *)
LEMMA ProgramMoves ==
  ASSUME LinkInv, Handler \/ Quiet \/ Watchdog \/ RadioGrants \/ UNCHANGED vars
  PROVE  Stay \/ Fetch
<1>1. CASE Handler
  <2>1. Handled
    BY <1>1, HandlerDoes
  <2>2. UNCHANGED <<outbox, link, owed>> /\ event' = None
    BY <2>1 DEF Handled, EventUsed, radioVars
  <2>3. Restoring' => Restoring \/ event = Started(0)
    BY <1>1
    DEF Handler, RestoreBegins, Advertise, CreditEvent, Ignored, Answers, ReceiveFw, Activate, SysReset,
        Dropped, RestoreCompletes, RestoreGivesUp, RestoreGoesOn, Dispatched, Waiting,
        Restoring
  <2> QED BY <2>2, <2>3 DEF Stay
<1>2. CASE EventGet
  <2>1. event = None /\ UNCHANGED <<link, owed, pc>> /\ HalEventGet
    BY <1>2 DEF EventGet, radioVars
  <2>2. CASE EventGetIdle
    BY <2>1, <2>2 DEF EventGetIdle, HandsOut, First, LinkInv, HalTypeOK, Stay, Restoring
  <2>3. CASE EventGetTransfer
    <3>1. outbox' = Rest(outbox) /\ event' = First(outbox)
      BY <2>3, TransferMoves DEF LinkInv
    <3> QED BY <2>1, <3>1 DEF Fetch
  <2> QED BY <2>1, <2>2, <2>3 DEF HalEventGet
<1>3. CASE Quiet /\ ~EventGet
  BY <1>3
  DEF Quiet, LibAciInit, Reply, NoReply, RestoreSend, QueueOnly, radioVars, Stay, Restoring
<1>4. CASE Watchdog
  BY <1>4 DEF Watchdog, HalInitialised, CpuStarts, JumpCheck, radioVars, Stay, Restoring
<1>5. CASE RadioGrants
  BY <1>5 DEF RadioGrants, RadioReady, cpuVars, radioVars, Stay, Restoring
<1>6. CASE UNCHANGED vars
  BY <1>6 DEF vars, halVars, radioVars, Stay, Restoring
<1> QED BY <1>1, <1>2, <1>3, <1>4, <1>5, <1>6

(* What is no disconnection and no beginning.                              *)
Ordinary == {Connected, Received, PipeError(0), PipeError(1)}
              \cup {CmdRsp(s) : s \in CmdRsps} \cup {DataCredit(n) : n \in 1..2}

(* They are events of the link.                                            *)
LEMMA OrdinaryEvents ==
  /\ Ordinary \subseteq LinkEvent
  /\ \A e \in Ordinary : e # Disconnected /\ e \notin Beginnings
  /\ Disconnected \notin Beginnings /\ Disconnected \in LinkEvent
<1>1. Ordinary \subseteq LinkEvent /\ Disconnected \in LinkEvent
  BY DEF Ordinary, LinkEvent
<1>2. \A e \in Ordinary : e # Disconnected /\ e \notin Beginnings
  BY DEF Ordinary, Beginnings, Disconnected, Started, Connected, Received, PipeError, CmdRsp,
     DataCredit, Msg
<1>3. Disconnected \notin Beginnings
  BY DEF Beginnings, Disconnected, Started, Msg
<1> QED BY <1>1, <1>2, <1>3

(* Sequences of ordinary events are raised politely, unless they begin a    *)
(* link.                                                                   *)
LEMMA OrdinaryPolite ==
  ASSUME NEW events \in Seq(Ordinary), RadioRaises(events), UNCHANGED pc,
         link' = "connected" => link = "connected" \/ events = <<Connected>>,
         link' # "off"
  PROVE  Raise
<1>1. events \in Seq(LinkEvent)
  BY OrdinaryEvents
<1>2. \A i \in 1..Len(events) : events[i] # Disconnected /\ events[i] \notin Beginnings
  <2>1. \A i \in 1..Len(events) : events[i] \in Ordinary
    OBVIOUS
  <2> QED BY <2>1, OrdinaryEvents
<1>3. Polite(events)
  BY <1>2 DEF Polite
<1> QED BY <1>1, <1>3 DEF Raise, RadioRaises

(* The radio's steps.                                                      *)
LEMMA RadioMoves ==
  ASSUME BeginInv, RadioActs \/ (Outside /\ ~RadioGrants)
  PROVE  Raise
<1>0. UNCHANGED pc
  BY DEF RadioActs, Outside, RadioGrants, RadioStarts, CentralConnects, CentralWrites,
     CreditReturns, LinkEnds, cpuVars
<1>1. /\ << >> \in Seq(Ordinary)
      /\ \A e \in Ordinary : <<e>> \in Seq(Ordinary)
      /\ \A e, f \in Ordinary : <<e, f>> \in Seq(Ordinary)
  OBVIOUS
<1>2. /\ \A s \in CmdRsps : CmdRsp(s) \in Ordinary
      /\ Connected \in Ordinary /\ Received \in Ordinary
      /\ \A n \in 1..2 : DataCredit(n) \in Ordinary
      /\ DataCredit(1) \in Ordinary
      /\ PipeError(0) \in Ordinary /\ PipeError(1) \in Ordinary
  BY DEF Ordinary
<1>3. {"reset_done", "continue", "complete", "error", "done"} \subseteq CmdRsps
  BY DEF CmdRsps
<1>4. CASE RadioActs
  <2>on. link # "off"
    BY <1>4 DEF RadioActs
  <2>1. CASE RadioResets
    <3>1. RadioRaises(<<CmdRsp("reset_done")>>) /\ link' = "standby"
          /\ CmdRsp("reset_done") \in Ordinary
      BY <1>2, <1>3, <2>1 DEF RadioResets
    <3> QED BY <1>0, <1>1, <3>1, OrdinaryPolite
  <2>2. CASE RadioAdvertises
    <3>1. RadioRaises(<<CmdRsp("done")>>) /\ CmdRsp("done") \in Ordinary
          /\ link' # "off" /\ (link' = "connected" => link = "connected")
      BY <1>2, <1>3, <2>on, <2>2 DEF RadioAdvertises
    <3> QED BY <1>0, <1>1, <3>1, OrdinaryPolite
  <2>3. CASE RadioDisconnects /\ link = "connected"
    <3> DEFINE d == CmdRsp("done")
               both == <<d, Disconnected>>
    <3>1. RadioRaises(both) /\ link' = "standby" /\ d \in Ordinary
      BY <1>2, <1>3, <2>3 DEF RadioDisconnects
    <3>2. /\ both \in Seq(LinkEvent) /\ Len(both) = 2
          /\ both[1] = d /\ both[2] = Disconnected
      BY <3>1, OrdinaryEvents
    <3> HIDE DEF both
    <3>3. \A i \in 1..Len(both) : both[i] \notin Beginnings
      <4>1. \A i \in 1..2 : i = 1 \/ i = 2
        OBVIOUS
      <4> QED BY <3>1, <3>2, <4>1, OrdinaryEvents
    <3>4. Polite(both)
      BY <3>1, <3>3 DEF Polite
    <3> QED BY <1>0, <3>1, <3>2, <3>4 DEF Raise, RadioRaises
  <2>4. CASE RadioDisconnects /\ link # "connected"
    <3>1. RadioRaises(<<CmdRsp("error")>>) /\ link' = link /\ CmdRsp("error") \in Ordinary
      BY <1>2, <1>3, <2>4 DEF RadioDisconnects
    <3> QED BY <1>0, <1>1, <2>on, <3>1, OrdinaryPolite
  <2>5. CASE RadioSends
    <3>1. link' = link /\ (RadioRaises(<< >>) \/ RadioRaises(<<PipeError(0)>>))
      BY <2>5 DEF RadioSends
    <3>2. CASE RadioRaises(<< >>)
      BY <1>0, <1>1, <2>on, <3>1, <3>2, OrdinaryPolite
    <3>3. CASE RadioRaises(<<PipeError(0)>>)
      BY <1>0, <1>1, <1>2, <2>on, <3>1, <3>3, OrdinaryPolite
    <3> QED BY <3>1, <3>2, <3>3
  <2>6. CASE RadioStores
    <3>1. PICK s \in CmdRsps : RadioRaises(<<CmdRsp(s)>>)
      BY <1>3, <2>6 DEF RadioStores
    <3>2. link' = link /\ CmdRsp(s) \in Ordinary
      BY <1>2, <2>6 DEF RadioStores
    <3> QED BY <1>0, <1>1, <2>on, <3>1, <3>2, OrdinaryPolite
  <2> QED BY <1>4, <2>1, <2>2, <2>3, <2>4, <2>5, <2>6 DEF RadioActs
<1>5. CASE RadioStarts
  <2>1. PICK n \in 0..1 : RadioRaises(<<Started(n)>>) /\ link = "off" /\ link' = "standby"
    BY <1>5 DEF RadioStarts
  <2>2. Started(n) \in LinkEvent
    <3>1. n = 0 \/ n = 1
      OBVIOUS
    <3> QED BY <3>1 DEF LinkEvent
  <2>3. <<Started(n)>> \in Seq(LinkEvent) /\ Len(<<Started(n)>>) = 1
    BY <2>2
  <2>4. Polite(<<Started(n)>>)
    BY <2>1, <2>3 DEF Polite
  <2> QED BY <1>0, <2>1, <2>3, <2>4 DEF Raise, RadioRaises
<1>6. CASE CentralConnects
  BY <1>0, <1>1, <1>2, <1>6, OrdinaryPolite DEF CentralConnects
<1>7. CASE CentralWrites
  BY <1>0, <1>1, <1>2, <1>7, OrdinaryPolite DEF CentralWrites, radioVars
<1>8. CASE CreditReturns
  <2>1. owed # 0 /\ link' = link
    BY <1>8 DEF CreditReturns
  <2>2. link # "off"
    BY <2>1 DEF BeginInv
  <2>3. \/ \E n \in 1..2 : RadioRaises(<<DataCredit(n)>>)
        \/ RadioRaises(<<PipeError(0)>>)
        \/ RadioRaises(<<PipeError(1), DataCredit(1)>>)
    BY <1>8 DEF CreditReturns
  <2>4. CASE \E n \in 1..2 : RadioRaises(<<DataCredit(n)>>)
    BY <1>0, <1>1, <1>2, <2>1, <2>2, <2>4, OrdinaryPolite
  <2>5. CASE RadioRaises(<<PipeError(0)>>)
    BY <1>0, <1>1, <1>2, <2>1, <2>2, <2>5, OrdinaryPolite
  <2>6. CASE RadioRaises(<<PipeError(1), DataCredit(1)>>)
    BY <1>0, <1>1, <1>2, <2>1, <2>2, <2>6, OrdinaryPolite
  <2> QED BY <2>3, <2>4, <2>5, <2>6
<1>9. CASE LinkEnds
  <2>1. RadioRaises(<<Disconnected>>) /\ link' = "standby"
    BY <1>9 DEF LinkEnds
  <2>2. /\ <<Disconnected>> \in Seq(LinkEvent) /\ Len(<<Disconnected>>) = 1
        /\ <<Disconnected>>[1] \notin Beginnings
    BY OrdinaryEvents
  <2>3. Polite(<<Disconnected>>)
    BY <2>1, <2>2 DEF Polite
  <2> QED BY <1>0, <2>1, <2>2, <2>3 DEF Raise, RadioRaises
<1> QED BY <1>4, <1>5, <1>6, <1>7, <1>8, <1>9 DEF Outside

(* Every step is one of the three.                                         *)
LEMMA Moves ==
  ASSUME LinkInv, BeginInv, [Next]_vars
  PROVE  Stay \/ Fetch \/ Raise
BY ProgramMoves, RadioMoves, LinkSteps

(* The elements of two sequences together.                                 *)
LEMMA Together ==
  ASSUME NEW T, NEW q \in Seq(T), NEW r \in Seq(T)
  PROVE  /\ Len(q \o r) = Len(q) + Len(r) /\ Len(q) \in Nat /\ Len(r) \in Nat
         /\ \A i \in 1..Len(q \o r) :
              \/ i \in 1..Len(q) /\ (q \o r)[i] = q[i]
              \/ i - Len(q) \in 1..Len(r) /\ (q \o r)[i] = r[i - Len(q)]
         /\ \A i \in 1..Len(q) : i \in 1..Len(q \o r) /\ (q \o r)[i] = q[i]
         /\ \A i \in 1..Len(r) :
              Len(q) + i \in 1..Len(q \o r) /\ (q \o r)[Len(q) + i] = r[i]
OBVIOUS

(* The elements behind the oldest.                                         *)
LEMMA Behind ==
  ASSUME NEW T, NEW q \in Seq(T)
  PROVE  /\ Len(Rest(q)) \in Nat /\ Len(q) \in Nat
         /\ \A i \in 1..Len(Rest(q)) : i + 1 \in 1..Len(q) /\ Rest(q)[i] = q[i + 1]
         /\ \A i \in 2..Len(q) : i - 1 \in 1..Len(Rest(q)) /\ Rest(q)[i - 1] = q[i]
         /\ q # << >> => 1 \in 1..Len(q) /\ First(q) = q[1]
         /\ q = << >> => Rest(q) = << >> /\ First(q) = None
<1>1. CASE q = << >>
  BY <1>1 DEF Rest, First
<1>2. CASE q # << >>
  BY <1>2 DEF Rest, First
<1> QED BY <1>1, <1>2

(* None is no event, and the beginnings are not None.                      *)
LEMMA BeginningsAre ==
  /\ None \notin Beginnings /\ None # Disconnected /\ None # Connected
  /\ Started(0) \in Beginnings /\ Started(0) # None
  /\ Connected # Disconnected
<1>1. Beginnings \subseteq LinkEvent /\ Connected \in LinkEvent /\ Disconnected \in LinkEvent
  BY DEF Beginnings, LinkEvent
<1>2. Started(0) \in Beginnings
  BY DEF Beginnings
<1>3. Connected # Disconnected
  BY DEF Connected, Disconnected, Msg
<1> QED BY <1>1, <1>2, <1>3, NoneIsNoEvent

(* BeginInv is inductive.                                                  *)
LEMMA BeginStep ==
  ASSUME LinkInv, LinkTyped, BeginInv, [Next]_vars
  PROVE  BeginInv'
<1>typed. outbox \in Seq(LinkEvent)
  BY DEF LinkTyped
<1>1. CASE Stay
  BY <1>1, BeginningsAre DEF Stay, BeginInv
<1>2. CASE Fetch
  <2>1. Restoring' = Restoring
    BY <1>2 DEF Fetch, Restoring
  <2>2. /\ outbox' = Rest(outbox) /\ event' = First(outbox) /\ event = None
        /\ UNCHANGED <<link, owed>>
    BY <1>2 DEF Fetch
  <2>3. \A i \in 1..Len(Rest(outbox)) : i + 1 \in 1..Len(outbox) /\ Rest(outbox)[i] = outbox[i + 1]
    BY <1>typed, Behind
  <2>4. /\ outbox # << >> => 1 \in 1..Len(outbox) /\ First(outbox) = outbox[1]
        /\ outbox = << >> => Rest(outbox) = << >> /\ First(outbox) = None
    BY <1>typed, Behind
  <2>5. \A i \in 1..Len(outbox') : outbox'[i] \notin Beginnings
    <3> SUFFICES ASSUME NEW i \in 1..Len(outbox'), outbox'[i] \in Beginnings PROVE FALSE
      OBVIOUS
    <3>1. i + 1 \in 1..Len(outbox) /\ outbox[i + 1] \in Beginnings
      BY <2>2, <2>3
    <3>2. i + 1 = 1
      BY <3>1 DEF BeginInv
    <3>3. i \in Nat \ {0}
      BY <2>2, <1>typed, Behind
    <3> QED BY <3>2, <3>3
  <2>6. event' \in Beginnings => ~Restoring'
    BY <2>1, <2>2, <2>4, BeginningsAre DEF BeginInv
  <2>7. link' = "off" => outbox' = << >> /\ event' = None /\ ~Restoring' /\ owed' = 0
    BY <2>1, <2>2, <2>4 DEF BeginInv
  <2> QED BY <2>5, <2>6, <2>7 DEF BeginInv
<1>3. CASE Raise
  <2>1. PICK events \in Seq(LinkEvent) :
          outbox' = outbox \o events /\ Polite(events) /\ UNCHANGED <<event, pc>>
    BY <1>3 DEF Raise
  <2>2. Restoring' = Restoring
    BY <2>1 DEF Restoring
  <2>3. ASSUME NEW i \in 1..Len(outbox'), outbox'[i] \in Beginnings
        PROVE  i = 1 /\ event' = None /\ ~Restoring'
    <3>1. \/ i \in 1..Len(outbox) /\ outbox[i] \in Beginnings
          \/ i - Len(outbox) \in 1..Len(events) /\ events[i - Len(outbox)] \in Beginnings
      BY <1>typed, <2>1, <2>3, Together
    <3>2. CASE i \in 1..Len(outbox) /\ outbox[i] \in Beginnings
      BY <2>1, <2>2, <3>2 DEF BeginInv
    <3>3. CASE i - Len(outbox) \in 1..Len(events) /\ events[i - Len(outbox)] \in Beginnings
      <4>1. i - Len(outbox) = 1 /\ link = "off"
        BY <2>1, <3>3 DEF Polite
      <4>2. outbox = << >> /\ event = None /\ ~Restoring
        BY <4>1 DEF BeginInv
      <4>3. Len(outbox) = 0
        BY <4>2
      <4>4. i \in Int
        BY <1>typed, <2>1, Together
      <4> QED BY <2>1, <2>2, <4>1, <4>2, <4>3, <4>4
    <3> QED BY <3>1, <3>2, <3>3
  <2>4. event' \in Beginnings => ~Restoring'
    BY <2>1, <2>2 DEF BeginInv
  <2>5. ASSUME link' = "off"
        PROVE  outbox' = << >> /\ event' = None /\ ~Restoring' /\ owed' = 0
    <3>1. link = "off" /\ events = << >> /\ owed' = owed
      BY <2>1, <2>5 DEF Polite
    <3>2. outbox = << >> /\ event = None /\ ~Restoring /\ owed = 0
      BY <3>1 DEF BeginInv
    <3>3. << >> \o << >> = << >>
      OBVIOUS
    <3> QED BY <2>1, <2>2, <3>1, <3>2, <3>3
  <2> QED BY <2>3, <2>4, <2>5 DEF BeginInv
<1> QED BY <1>1, <1>2, <1>3, Moves

(* Once the program has restored the bond, it has.                         *)
LEMMA FreshBack ==
  ASSUME LinkInv, LinkTyped, BeginInv, [Next]_vars, Fresh'
  PROVE  Fresh
<1>typed. outbox \in Seq(LinkEvent)
  BY DEF LinkTyped
<1>1. CASE Stay
  BY <1>1, BeginningsAre DEF Stay, Fresh
<1>2. CASE Fetch
  <2>1. Restoring' = Restoring /\ link' = link
    BY <1>2 DEF Fetch, Restoring
  <2>2. outbox' = Rest(outbox) /\ event' = First(outbox)
    BY <1>2 DEF Fetch
  <2>3. \A i \in 1..Len(Rest(outbox)) : i + 1 \in 1..Len(outbox) /\ Rest(outbox)[i] = outbox[i + 1]
    BY <1>typed, Behind
  <2>4. /\ outbox # << >> => First(outbox) = outbox[1]
        /\ outbox = << >> => First(outbox) = None
    BY <1>typed, Behind
  <2>5. CASE outbox' # << >> /\ outbox'[1] \in Beginnings
    <3>1. Rest(outbox) \in Seq(LinkEvent)
      BY <1>typed DEF Rest
    <3>2. 1 \in 1..Len(Rest(outbox))
      BY <2>2, <2>5, <3>1
    <3>3. 2 \in 1..Len(outbox) /\ outbox[2] \in Beginnings
      BY <2>2, <2>3, <2>5, <3>2
    <3> QED BY <3>3 DEF BeginInv
  <2>6. CASE event' \in Beginnings
    BY <2>2, <2>4, <2>6, BeginningsAre DEF Fresh
  <2> QED BY <2>1, <2>5, <2>6 DEF Fresh
<1>3. CASE Raise
  <2>1. PICK events \in Seq(LinkEvent) :
          outbox' = outbox \o events /\ Polite(events) /\ UNCHANGED <<event, pc>>
    BY <1>3 DEF Raise
  <2>2. Restoring' = Restoring
    BY <2>1 DEF Restoring
  <2>3. CASE link' = "off"
    BY <2>1, <2>3 DEF Polite, Fresh
  <2>4. CASE outbox' # << >> /\ outbox'[1] \in Beginnings
    <3>1. 1 \in 1..Len(outbox')
      <4>1. outbox' \in Seq(LinkEvent)
        BY <1>typed, <2>1
      <4> QED BY <2>4, <4>1
    <3>2. \/ 1 \in 1..Len(outbox) /\ outbox[1] \in Beginnings
          \/ 1 - Len(outbox) \in 1..Len(events) /\ events[1 - Len(outbox)] \in Beginnings
      BY <1>typed, <2>1, <2>4, <3>1, Together
    <3>3. CASE 1 \in 1..Len(outbox) /\ outbox[1] \in Beginnings
      <4>1. outbox # << >>
        BY <3>3
      <4> QED BY <3>3, <4>1 DEF Fresh
    <3>4. CASE 1 - Len(outbox) \in 1..Len(events) /\ events[1 - Len(outbox)] \in Beginnings
      BY <2>1, <3>4 DEF Polite, Fresh
    <3> QED BY <3>2, <3>3, <3>4
  <2> QED BY <2>1, <2>2, <2>3, <2>4 DEF Fresh
<1> QED BY <1>1, <1>2, <1>3, Moves

(* LatestInv is inductive.                                                 *)
LEMMA LatestStep ==
  ASSUME LinkInv, LinkTyped, BeginInv, LatestInv, [Next]_vars
  PROVE  LatestInv'
<1>typed. outbox \in Seq(LinkEvent)
  BY DEF LinkTyped
<1> SUFFICES ASSUME link' = "connected"
             PROVE  /\ \A i \in 1..Len(outbox') : outbox'[i] = Disconnected =>
                         \E j \in i + 1..Len(outbox') : outbox'[j] = Connected
                    /\ event' = Disconnected =>
                         \E j \in 1..Len(outbox') : outbox'[j] = Connected
  BY DEF LatestInv, Connected, Disconnected, Msg
<1>1. CASE Stay
  BY <1>1, BeginningsAre DEF Stay, LatestInv
<1>2. CASE Fetch
  <2>1. /\ outbox' = Rest(outbox) /\ event' = First(outbox) /\ link = "connected"
    BY <1>2 DEF Fetch
  <2>2. /\ Len(Rest(outbox)) \in Nat /\ Len(outbox) \in Nat
        /\ \A i \in 1..Len(Rest(outbox)) : i + 1 \in 1..Len(outbox) /\ Rest(outbox)[i] = outbox[i + 1]
        /\ \A i \in 2..Len(outbox) : i - 1 \in 1..Len(Rest(outbox)) /\ Rest(outbox)[i - 1] = outbox[i]
        /\ outbox # << >> => 1 \in 1..Len(outbox) /\ First(outbox) = outbox[1]
        /\ outbox = << >> => First(outbox) = None
    BY <1>typed, Behind
  <2>3. ASSUME NEW i \in 1..Len(outbox), outbox[i] = Disconnected
        PROVE  \E j \in i..Len(Rest(outbox)) : Rest(outbox)[j] = Connected
    <3>1. PICK j \in i + 1..Len(outbox) : outbox[j] = Connected
      BY <2>1, <2>3 DEF LatestInv
    <3>2. j \in 2..Len(outbox) /\ j - 1 >= i /\ j - 1 \in Int
      BY <2>2
    <3>3. j - 1 \in 1..Len(Rest(outbox)) /\ Rest(outbox)[j - 1] = Connected
      BY <2>2, <3>1, <3>2
    <3>4. j - 1 \in i..Len(Rest(outbox))
      BY <2>2, <3>2, <3>3
    <3> QED BY <3>3, <3>4
  <2>4. ASSUME NEW i \in 1..Len(outbox'), outbox'[i] = Disconnected
        PROVE  \E j \in i + 1..Len(outbox') : outbox'[j] = Connected
    <3>1. i + 1 \in 1..Len(outbox) /\ outbox[i + 1] = Disconnected
      BY <2>1, <2>2, <2>4
    <3> QED BY <2>1, <2>3, <3>1
  <2>5. ASSUME event' = Disconnected
        PROVE  \E j \in 1..Len(outbox') : outbox'[j] = Connected
    <3>1. 1 \in 1..Len(outbox) /\ outbox[1] = Disconnected
      BY <2>1, <2>2, <2>5, BeginningsAre
    <3> QED BY <2>1, <2>3, <3>1
  <2> QED BY <2>4, <2>5
<1>3. CASE Raise
  <2>1. PICK events \in Seq(LinkEvent) :
          outbox' = outbox \o events /\ Polite(events) /\ UNCHANGED <<event, pc>>
    BY <1>3 DEF Raise
  <2>2. /\ Len(outbox') = Len(outbox) + Len(events) /\ Len(outbox) \in Nat /\ Len(events) \in Nat
        /\ \A i \in 1..Len(outbox') :
              \/ i \in 1..Len(outbox) /\ outbox'[i] = outbox[i]
              \/ i - Len(outbox) \in 1..Len(events) /\ outbox'[i] = events[i - Len(outbox)]
        /\ \A i \in 1..Len(outbox) : i \in 1..Len(outbox') /\ outbox'[i] = outbox[i]
        /\ \A i \in 1..Len(events) :
              Len(outbox) + i \in 1..Len(outbox') /\ outbox'[Len(outbox) + i] = events[i]
    BY <1>typed, <2>1, Together
  <2>3. CASE events = <<Connected>>
    <3>1. Len(events) = 1 /\ events[1] = Connected
      BY <2>3
    <3>2. /\ Len(outbox) + 1 \in 1..Len(outbox') /\ outbox'[Len(outbox) + 1] = Connected
          /\ Len(outbox') = Len(outbox) + 1
      BY <2>2, <3>1
    <3>3. ASSUME NEW i \in 1..Len(outbox'), outbox'[i] = Disconnected
          PROVE  \E j \in i + 1..Len(outbox') : outbox'[j] = Connected
      <4>1. i # Len(outbox) + 1
        BY <3>2, <3>3, BeginningsAre
      <4>2. Len(outbox) + 1 \in i + 1..Len(outbox')
        BY <2>2, <3>2, <4>1
      <4> QED BY <3>2, <4>2
    <3> QED BY <3>2, <3>3
  <2>4. CASE link = "connected" /\ \A i \in 1..Len(events) : events[i] # Disconnected
    <3>1. ASSUME NEW i \in 1..Len(outbox'), outbox'[i] = Disconnected
          PROVE  \E j \in i + 1..Len(outbox') : outbox'[j] = Connected
      <4>1. i \in 1..Len(outbox) /\ outbox[i] = Disconnected
        BY <2>2, <2>4, <3>1
      <4>2. PICK j \in i + 1..Len(outbox) : outbox[j] = Connected
        BY <2>4, <4>1 DEF LatestInv
      <4>3. j \in 1..Len(outbox) /\ j \in i + 1..Len(outbox')
        BY <2>2, <4>1
      <4> QED BY <2>2, <4>2, <4>3
    <3>2. ASSUME event' = Disconnected
          PROVE  \E j \in 1..Len(outbox') : outbox'[j] = Connected
      <4>1. PICK j \in 1..Len(outbox) : outbox[j] = Connected
        BY <2>1, <2>4, <3>2 DEF LatestInv
      <4> QED BY <2>2, <4>1
    <3> QED BY <3>1, <3>2
  <2> QED BY <2>1, <2>3, <2>4 DEF Polite
<1> QED BY <1>1, <1>2, <1>3, Moves

(* Nothing is on its way that would begin or end a link.                    *)
LEMMA SilentStep ==
  ASSUME LinkInv, LinkInv', LinkTyped, BeginInv, SilentInv, [Next]_vars
  PROVE  SilentInv'
<1> SUFFICES ASSUME Fresh'
             PROVE  /\ link' \in {"off", "standby"}
                    /\ Queued({Connect})' = 0
                    /\ Waits(LinkChange)' = 0
  BY DEF SilentInv
<1>fresh. Fresh
  BY FreshBack
<1>1. /\ link \in {"off", "standby"}
      /\ Queued({Connect}) = 0
      /\ Waits(LinkChange) = 0
  BY <1>fresh DEF SilentInv
<1>2. Queued({Connect})' \in Nat /\ Waits(LinkChange)' \in Nat
  BY UnderWayNext
<1>3. /\ \A k \in 1..Chunks + 1 : WriteDynamic(k) # Connect
      /\ RadioReset # Connect /\ Disconnect # Connect /\ SendData # Connect
  BY DEF WriteDynamic, RadioReset, Connect, Disconnect, SendData, Msg
<1>4. ASSUME NEW c \in Fits, c # Connect, HalSend(c), UNCHANGED inbox
      PROVE  Queued({Connect})' = 0
  <2>1. Queued({Connect})' = Queued({Connect}) + (IF Sent THEN One(c, {Connect}) ELSE 0)
    BY <1>4, SendCounts
  <2> QED BY <1>1, <1>4, <2>1 DEF One
<1>5. ASSUME UNCHANGED <<tx_q, inbox>>
      PROVE  Queued({Connect})' = 0
  BY <1>1, <1>5 DEF Queued
<1>6. CASE Handler
  <2>1. Handled /\ event # None /\ (NothingSent \/ \E c \in Control : HalSend(c))
    BY <1>6, HandlerDoes
  <2>2. UNCHANGED <<link, outbox, inbox>> /\ event' = None
    BY <2>1 DEF Handled, EventUsed, radioVars
  <2>3. Waits(LinkChange) = Waits(LinkChange)' + One(event, LinkChange)
    BY <1>6, HandlerBooks
  <2>4. Waits(LinkChange)' = 0
    BY <1>1, <1>2, <2>3 DEF One
  <2>5. Restoring'
    <3>1. outbox # << >> => 1 \in 1..Len(outbox)
      BY DEF LinkTyped
    <3>2. outbox # << >> => outbox[1] \notin Beginnings
      BY <2>1, <3>1 DEF BeginInv
    <3>3. link # "off"
      BY <2>1 DEF BeginInv
    <3> QED BY <2>2, <3>2, <3>3, BeginningsAre DEF Fresh
  <2>6. ~(Advertise \/ RestoreCompletes \/ RestoreGivesUp)
    BY <2>5 DEF Advertise, RestoreCompletes, RestoreGivesUp, Dispatched, Restoring
  <2>7. CASE NothingSent
    BY <1>1, <1>5, <2>2, <2>4, <2>7 DEF NothingSent
  <2>8. CASE \E c \in {RadioReset, Disconnect} : HalSend(c)
    <3>1. PICK c \in {RadioReset, Disconnect} : HalSend(c)
      BY <2>8
    <3>2. Queued({Connect})' = 0
      BY <1>3, <1>4, <2>2, <3>1, LinkMessages
    <3> QED BY <1>1, <2>2, <2>4, <3>2
  <2>9. NothingSent \/ \E c \in {RadioReset, Disconnect} : HalSend(c)
    BY <1>6, <2>6
    DEF Handler, RestoreBegins, CreditEvent, Ignored, Answers, ReceiveFw, Activate, SysReset, Dropped,
        RestoreGoesOn
  <2> QED BY <2>7, <2>8, <2>9
<1>7. CASE Quiet
  <2>1. Waits(LinkChange)' = 0 /\ link' = link
    BY <1>1, <1>7, QuietBooks
  <2>2. Queued({Connect})' = 0
    <3>1. CASE LibAciInit
      BY <1>3, <1>4, <1>5, <3>1, LinkMessages DEF LibAciInit, QueueOnly, NothingSent
    <3>2. CASE Reply
      BY <1>3, <1>4, <3>2, LinkMessages DEF Reply, QueueOnly
    <3>3. CASE NoReply
      BY <1>5, <3>3 DEF NoReply, QueueOnly, NothingSent
    <3>4. CASE RestoreSend
      <4>1. chunk \in 1..Chunks + 1 /\ HalSend(WriteDynamic(chunk)) /\ UNCHANGED inbox
        BY <3>4 DEF RestoreSend, LinkInv
      <4> QED BY <1>3, <1>4, <4>1, LinkMessages
    <3>5. CASE EventGet
      <4>1. HalEventGet /\ event = None
        BY <3>5 DEF EventGet
      <4>2. None \notin {Connect}
        BY LinkMessages, FitsAre
      <4> QED BY <1>1, <4>1, <4>2, TransferCounts
    <3> QED BY <1>7, <3>1, <3>2, <3>3, <3>4, <3>5 DEF Quiet
  <2> QED BY <1>1, <2>1, <2>2
<1>8. CASE Watchdog
  <2>1. tx_q' = << >> /\ UNCHANGED <<inbox, link>>
    BY <1>8 DEF Watchdog, HalInitialised, radioVars
  <2>2. Queued({Connect})' <= Queued({Connect})
    BY <2>1, ForgetCounts
  <2>3. Waits(LinkChange) = Waits(LinkChange)' + One(event, LinkChange)
    BY <1>8, WatchdogBooks
  <2>4. Waits(LinkChange)' = 0
    BY <1>1, <1>2, <2>3 DEF One
  <2> QED BY <1>1, <1>2, <2>1, <2>2, <2>4
<1>9. CASE RadioActs
  <2>1. inbox # << >> /\ inbox' = Tail(inbox) /\ UNCHANGED tx_q
    BY <1>9
    DEF RadioActs, RadioResets, RadioAdvertises, RadioDisconnects, RadioSends, RadioStores,
        RadioRaises
  <2>2. Queued({Connect}) = Queued({Connect})' + One(Head(inbox), {Connect})
    BY <2>1, ActCounts
  <2>3. Queued({Connect})' = 0 /\ Head(inbox) # Connect
    BY <1>1, <1>2, <2>2 DEF One
  <2>4. Waits(LinkChange)' = 0
    BY <1>1, <1>9, ActsBooks
  <2>5. link' \in {"off", "standby"}
    BY <1>1, <1>9, <2>3
    DEF RadioActs, RadioResets, RadioAdvertises, RadioDisconnects, RadioSends, RadioStores
  <2> QED BY <2>3, <2>4, <2>5
<1>10. CASE Outside
  <2>1. link' \in {"off", "standby"} /\ Waits(LinkChange)' = 0
    BY <1>1, <1>10, OutsideBooks
  <2>2. UNCHANGED <<tx_q, inbox>>
    BY <1>10
    DEF Outside, RadioGrants, RadioStarts, CentralConnects, CentralWrites, CreditReturns,
        LinkEnds, RadioReady, RadioRaises
  <2> QED BY <1>5, <2>1, <2>2
<1>11. CASE UNCHANGED vars
  BY <1>1, <1>11 DEF vars, halVars, radioVars, Queued, Waits
<1> QED BY <1>6, <1>7, <1>8, <1>9, <1>10, <1>11, LinkSteps

(* The surplus does not matter where the counter wraps around.             *)
LEMMA WrapBalanced ==
  ASSUME NEW a \in Int, NEW r \in Int, NEW most \in Nat, Balanced(a + r, most)
  PROVE  Balanced((a % CreditWrap) + r, most)
<1>1. PICK k \in Int, surplus \in 0..most : a + r = Credit + surplus + CreditWrap * k
  BY DEF Balanced
<1>2. CreditWrap \in Nat \ {0} /\ Credit \in Int
  BY AciLinkAssumption
<1> DEFINE d == a \div CreditWrap
<1>3. a = CreditWrap * d + (a % CreditWrap) /\ d \in Int /\ a % CreditWrap \in Int
  BY <1>2
<1> DEFINE rest == a % CreditWrap
           up == CreditWrap * k
           down == CreditWrap * d
<1>n. /\ rest \in Int /\ up \in Int /\ down \in Int
      /\ a + r = Credit + surplus + up /\ a = down + rest
  BY <1>1, <1>2, <1>3
<1> HIDE DEF rest, up, down
<1>4. rest + r = Credit + surplus + up - down
  BY <1>2, <1>n
<1>5. up - down = CreditWrap * (k - d) /\ k - d \in Int
  BY <1>2, <1>3 DEF up, down
<1>6. rest + r = Credit + surplus + (up - down)
  BY <1>2, <1>n, <1>4
<1> QED BY <1>5, <1>6 DEF Balanced, rest

(* A larger surplus is allowed.                                            *)
LEMMA MoreBalanced ==
  ASSUME NEW sum, NEW most \in Nat, NEW more \in Nat, most <= more, Balanced(sum, most)
  PROVE  Balanced(sum, more)
BY DEF Balanced

(* A connection begins, for the program, with all the credit; so does the   *)
(* program itself.                                                         *)
LEMMA FullBalanced ==
  ASSUME BooksInv', data_credit_available' = Credit
  PROVE  Balanced(data_credit_available + InTransit, 2 * packets)'
<1>1. LinkInv' /\ LinkTyped' /\ Budget'
  BY DEF BooksInv
<1>2. /\ Sending' \in Nat /\ Asked' \in Nat
      /\ Waits(OneCredit)' \in Nat /\ Waits(TwoCredits)' \in Nat
  BY <1>1, UnderWayNext DEF Sending, Asked
<1>3. Returning' \in Nat /\ Answering' \in Nat
  BY <1>2 DEF Returning, Answering
<1>4. owed' \in Nat /\ packets' \in Nat
  BY <1>1, AciLinkAssumption DEF LinkTyped
<1> DEFINE sending == Sending'
           returning == Returning'
           asked == Asked'
           answering == Answering'
           owing == owed'
           many == packets'
<1>5. InTransit' \in 0..2 * packets'
  <2>1. /\ sending \in Nat /\ returning \in Nat /\ asked \in Nat /\ answering \in Nat
        /\ owing \in Nat /\ many \in Nat
    BY <1>2, <1>3, <1>4
  <2>2. sending + owing + returning + 2 * asked + answering <= 2 * many
    BY <1>1 DEF Budget
  <2> HIDE DEF sending, returning, asked, answering, owing, many
  <2>3. sending + owing + returning \in 0..2 * many
    BY <2>1, <2>2
  <2> QED BY <2>3 DEF sending, returning, owing, many, InTransit
<1>6. Credit \in Int /\ CreditWrap \in Int
  BY AciLinkAssumption
<1>7. data_credit_available' + InTransit' = Credit + InTransit' + CreditWrap * 0
  BY <1>5, <1>6
<1> QED BY <1>5, <1>7 DEF Balanced

(* Credit that only moves stays balanced, as long as no packet is          *)
(* forgotten.                                                              *)
LEMMA MovesBalanced ==
  ASSUME BooksInv, BooksInv', NEW c \in Int,
         Balanced(data_credit_available + InTransit, 2 * packets),
         packets' >= packets,
         data_credit_available' = c \/ data_credit_available' = c % CreditWrap,
         c + InTransit' = data_credit_available + InTransit
  PROVE  Balanced(data_credit_available + InTransit, 2 * packets)'
<1>1. LinkInv' /\ LinkTyped' /\ LinkTyped
  BY DEF BooksInv
<1>2. /\ Sending' \in Nat
      /\ Waits(OneCredit)' \in Nat /\ Waits(TwoCredits)' \in Nat
  BY <1>1, UnderWayNext DEF Sending
<1>3. owed' \in Nat /\ packets' \in Nat /\ packets \in Nat
  BY <1>1, AciLinkAssumption DEF LinkTyped
<1>4. InTransit' \in Int
  BY <1>2, <1>3 DEF InTransit, Returning
<1>5. Balanced(c + InTransit', 2 * packets)
  OBVIOUS
<1>6. Balanced(c + InTransit', 2 * packets')
  <2> DEFINE many == packets'
  <2>1. many \in Nat /\ packets \in Nat /\ packets <= many
    BY <1>3
  <2> HIDE DEF many
  <2>2. 2 * packets \in Nat /\ 2 * many \in Nat /\ 2 * packets <= 2 * many
    BY <2>1
  <2>3. Balanced(c + InTransit', 2 * many)
    BY <1>5, <2>2, MoreBalanced
  <2> QED BY <2>3 DEF many
<1>7. Balanced((c % CreditWrap) + InTransit', 2 * packets')
  <2> DEFINE many == packets'
  <2>1. many \in Nat
    BY <1>3
  <2> HIDE DEF many
  <2>2. 2 * many \in Nat
    BY <2>1
  <2>3. Balanced(c + InTransit', 2 * many)
    BY <1>6 DEF many
  <2>4. Balanced((c % CreditWrap) + InTransit', 2 * many)
    BY <1>4, <2>2, <2>3, WrapBalanced
  <2> QED BY <2>4 DEF many
<1> QED BY <1>6, <1>7

(* While there is a link, the program is not restoring a bond.             *)
LEMMA LinkedNotFresh ==
  ASSUME SilentInv, link = "connected"
  PROVE  pc \notin {"bond", "waiting"} /\ event \notin Beginnings
BY DEF SilentInv, Fresh, Restoring

(* The handlers return the credit that came with the event, if any.        *)
LEMMA HandlerKept ==
  ASSUME BooksInv, BooksInv', SilentInv, LatestInv, KeptInv, Handler, Tracked'
  PROVE  Balanced(data_credit_available + InTransit, 2 * packets)'
<1>inv. LinkInv /\ LinkInv' /\ LinkTyped
  BY DEF BooksInv
<1>1. /\ Sending' = Sending /\ Returning = Returning' + Worth(event)
      /\ Waits(LinkChange) = Waits(LinkChange)' + One(event, LinkChange)
      /\ UNCHANGED <<link, owed, outbox, packets>> /\ event' = None
  BY <1>inv, HandlerBooks
<1>2. link = "connected" /\ pc' # "activate" /\ Waits(LinkChange)' = 0
  BY <1>1 DEF Tracked
<1>3. pc \notin {"bond", "waiting"} /\ event \notin Beginnings
  BY <1>2, LinkedNotFresh
<1>4. event \in LinkEvent
  BY <1>inv, HandlerDoes DEF LinkTyped
<1>5. pc = "poll"
  BY <1>2, <1>3
  DEF Handler, RestoreBegins, Advertise, CreditEvent, Ignored, Answers, ReceiveFw, Activate, SysReset,
      Dropped, DropsEvent, RestoreCompletes, RestoreGivesUp, RestoreGoesOn, Dispatched, Waiting
<1>6. event # Disconnected
  <2> SUFFICES ASSUME event = Disconnected PROVE FALSE
    OBVIOUS
  <2>1. PICK j \in 1..Len(outbox) : outbox[j] = Connected
    BY <1>2 DEF LatestInv
  <2>2. outbox \in Seq(LinkEvent)
    BY <1>inv DEF LinkTyped
  <2>3. Occurs(outbox, LinkChange) = 0
    <3>1. Waits(LinkChange)' = Occurs(outbox, LinkChange) + One(None, LinkChange)
      BY <1>1 DEF Waits
    <3>2. One(None, LinkChange) = 0
      BY NoneIsNoEvent DEF One
    <3>3. Occurs(outbox, LinkChange) \in Nat
      BY <2>2, OccursType
    <3> QED BY <1>2, <3>1, <3>2, <3>3
  <2>4. outbox[j] \notin LinkChange
    BY <2>2, <2>3, OccursNone
  <2> QED BY <2>1, <2>4 DEF LinkChange
<1>7. CASE event = Connected
  <2>1. CreditEvent
    <3>1. /\ \A n \in 0..1 : Connected # Started(n)
          /\ \A s \in CmdRsps : Connected # CmdRsp(s)
          /\ Connected # Disconnected /\ Connected # Received
      BY DEF Connected, Started, CmdRsp, CmdRsps, Disconnected, Received, Msg
    <3> QED BY <1>2, <1>3, <1>5, <1>7, <3>1
        DEF Handler, RestoreBegins, Advertise, Ignored, Answers, ReceiveFw, Activate, SysReset, Dropped,
            DropsEvent, RestoreCompletes, RestoreGivesUp, RestoreGoesOn, Dispatched, Waiting,
            CmdRsps
  <2>2. event.what = "connected"
    BY <1>7 DEF Connected, Msg
  <2>3. data_credit_available' = Credit
    BY <2>1, <2>2 DEF CreditEvent, CreditAfter
  <2> QED BY <2>3, FullBalanced
<1>8. CASE event # Connected
  <2>1. One(event, LinkChange) = 0
    BY <1>6, <1>8 DEF One, LinkChange
  <2>2. Waits(LinkChange) = 0
    BY <1>1, <1>2, <2>1
  <2>3. Balanced(data_credit_available + InTransit, 2 * packets)
    BY <1>2, <1>5, <2>2 DEF KeptInv, Tracked
  <2> DEFINE c == data_credit_available + Worth(event)
  <2>4. /\ Sending \in Nat /\ owed \in Nat /\ data_credit_available \in Int
        /\ Waits(OneCredit) \in Nat /\ Waits(TwoCredits) \in Nat /\ packets \in Nat
    BY <1>inv, UnderWayType, AciLinkAssumption DEF Sending, LinkTyped
  <2>5. Waits(OneCredit)' \in Nat /\ Waits(TwoCredits)' \in Nat
    BY <1>inv, UnderWayNext
  <2>6. Returning \in Nat /\ Returning' \in Nat /\ Worth(event) \in Nat
    BY <2>4, <2>5 DEF Returning, Worth, One
  <2>7. c \in Int /\ c + InTransit' = data_credit_available + InTransit
    BY <1>1, <2>4, <2>6 DEF InTransit
  <2>8. data_credit_available' = c \/ data_credit_available' = c % CreditWrap
    <3>1. CASE CreditEvent
      <4>1. \/ \E n \in 1..2 : event = DataCredit(n)
            \/ \E n \in 0..1 : event = PipeError(n)
        BY <1>4, <1>6, <1>8, <3>1, EventKinds
        DEF CreditEvent, Started, Connected, Disconnected, Received, CmdRsp, DataCredit,
            PipeError, Msg
      <4>2. CASE \E n \in 1..2 : event = DataCredit(n)
        <5>1. PICK n \in 1..2 : event = DataCredit(n)
          BY <4>2
        <5>2. event.what = "data_credit" /\ event.n = n
          BY <5>1 DEF DataCredit, Msg
        <5>3. Worth(event) = n
          <6>1. n = 1 \/ n = 2
            OBVIOUS
          <6> QED BY <5>1, <6>1, WorthNothing
        <5> QED BY <3>1, <5>2, <5>3 DEF CreditEvent, CreditAfter, Plus
      <4>3. CASE event = PipeError(0)
        <5>1. event.what = "pipe_error" /\ event.n = 0
          BY <4>3 DEF PipeError, Msg
        <5>2. Worth(event) = 1
          BY <4>3, WorthNothing
        <5> QED BY <3>1, <5>1, <5>2 DEF CreditEvent, CreditAfter, Plus
      <4>4. CASE event = PipeError(1)
        <5>1. event.what = "pipe_error" /\ event.n = 1
          BY <4>4 DEF PipeError, Msg
        <5>2. Worth(event) = 0
          BY <4>4, WorthNothing
        <5>3. data_credit_available' = data_credit_available
          BY <3>1, <5>1 DEF CreditEvent, CreditAfter
        <5> QED BY <2>4, <5>2, <5>3
      <4> QED BY <4>1, <4>2, <4>3, <4>4
    <3>2. CASE ~CreditEvent
      <4>1. data_credit_available' = data_credit_available
        BY <3>2
        DEF Handler, RestoreBegins, Advertise, Ignored, Answers, ReceiveFw, Activate, SysReset, Dropped,
            RestoreCompletes, RestoreGivesUp, RestoreGoesOn
      <4>2. \/ \E n \in 0..1 : event = Started(n)
            \/ event \in {Disconnected, Received}
            \/ \E s \in CmdRsps : event = CmdRsp(s)
        BY <1>2, <1>3, <1>5, <3>2
        DEF Handler, RestoreBegins, Advertise, Ignored, Answers, ReceiveFw, Activate, SysReset, Dropped,
            DropsEvent, RestoreCompletes, RestoreGivesUp, RestoreGoesOn, Dispatched, Waiting,
            CmdRsps
      <4>3. Worth(event) = 0
        BY <4>2, WorthNothing
      <4> QED BY <2>4, <4>1, <4>3
    <3> QED BY <3>1, <3>2
  <2> QED BY <1>1, <2>3, <2>4, <2>7, <2>8, MovesBalanced
<1> QED BY <1>7, <1>8

(* Answering takes a credit along, unless the queue refuses the answer; a   *)
(* disconnection brings all of it back.                                    *)
LEMMA QuietKept ==
  ASSUME BooksInv, BooksInv', KeptInv, Quiet, Tracked'
  PROVE  Balanced(data_credit_available + InTransit, 2 * packets)'
<1>inv. LinkInv /\ LinkInv' /\ LinkTyped
  BY DEF BooksInv
<1>1. /\ Sending' = Sending + (IF Reply /\ Sent THEN 1 ELSE 0)
      /\ Returning' = Returning /\ Waits(LinkChange)' = Waits(LinkChange)
      /\ UNCHANGED <<link, owed, packets>>
  BY <1>inv, QuietBooks
<1>2. link = "connected" /\ pc' # "activate" /\ Waits(LinkChange) = 0
  BY <1>1 DEF Tracked
<1>3. pc # "activate"
  BY <1>2 DEF Quiet, LibAciInit, Reply, NoReply, RestoreSend, EventGet
<1>4. Balanced(data_credit_available + InTransit, 2 * packets)
  BY <1>2, <1>3 DEF KeptInv, Tracked
<1>5. /\ Sending \in Nat /\ owed \in Nat /\ data_credit_available \in Int
      /\ Waits(OneCredit) \in Nat /\ Waits(TwoCredits) \in Nat /\ packets \in Nat
  BY <1>inv, UnderWayType, AciLinkAssumption DEF Sending, LinkTyped
<1>6. Returning \in Nat /\ packets' >= packets
  BY <1>1, <1>5 DEF Returning
<1>7. CASE Reply /\ Sent
  <2> DEFINE c == data_credit_available + (-1)
  <2>1. c \in Int /\ c + InTransit' = data_credit_available + InTransit
    BY <1>1, <1>5, <1>6, <1>7 DEF InTransit
  <2>2. data_credit_available' = c % CreditWrap
    BY <1>7 DEF Reply, Plus
  <2> QED BY <1>4, <1>6, <2>1, <2>2, MovesBalanced
<1>8. CASE ~(Reply /\ Sent)
  <2>1. data_credit_available' \in {data_credit_available, Credit}
    BY <1>8
    DEF Quiet, LibAciInit, Reply, NoReply, RestoreSend, EventGet
  <2>2. data_credit_available + InTransit' = data_credit_available + InTransit
    BY <1>1, <1>5, <1>6, <1>8 DEF InTransit
  <2> QED BY <1>4, <1>5, <1>6, <2>1, <2>2, MovesBalanced, FullBalanced
<1> QED BY <1>7, <1>8

(* In the radio, credits only move.                                        *)
LEMMA RadioKept ==
  ASSUME BooksInv, BooksInv', KeptInv, RadioActs \/ Outside, Tracked'
  PROVE  Balanced(data_credit_available + InTransit, 2 * packets)'
<1>inv. LinkInv /\ LinkInv' /\ LinkTyped
  BY DEF BooksInv
<1>1. link' = "connected" /\ pc' # "activate" /\ Waits(LinkChange)' = 0
  BY DEF Tracked
<1>2. /\ Sending' + owed' + Returning' = Sending + owed + Returning
      /\ Waits(LinkChange)' = Waits(LinkChange) /\ link = "connected"
      /\ UNCHANGED <<pc, data_credit_available>> /\ packets' >= packets
  <2>types. /\ Sending \in Nat /\ owed \in Nat /\ packets \in Nat
            /\ Waits(OneCredit) \in Nat /\ Waits(TwoCredits) \in Nat
    BY <1>inv, UnderWayType, AciLinkAssumption DEF Sending, LinkTyped
  <2>1. CASE RadioActs
    <3>1. /\ Sending' + owed' + Returning' = Sending + owed + Returning
          /\ Waits(LinkChange)' = Waits(LinkChange) /\ link = "connected"
          /\ UNCHANGED <<pc, data_credit_available, packets>>
      BY <1>inv, <1>1, <2>1, ActsBooks
    <3> QED BY <2>types, <3>1
  <2>2. CASE Outside
    <3>1. /\ Sending' = Sending /\ packets' >= packets
          /\ owed' + Returning' = owed + Returning
          /\ Waits(LinkChange)' = Waits(LinkChange) /\ link = "connected"
          /\ UNCHANGED <<pc, data_credit_available>>
      BY <1>inv, <1>1, <2>2, OutsideBooks
    <3>2. /\ Waits(OneCredit)' \in Nat /\ Waits(TwoCredits)' \in Nat
          /\ LinkTyped'
      BY <1>inv, UnderWayNext DEF BooksInv
    <3> DEFINE rest == owed' + Returning'
    <3>3. Returning \in Nat /\ rest \in Nat /\ rest = owed + Returning
      <4>1. Returning \in Nat
        BY <2>types DEF Returning
      <4>2. owed + Returning \in Nat
        BY <2>types, <4>1
      <4> QED BY <3>1, <4>1, <4>2
    <3>4. Sending' + owed' + Returning' = Sending + rest
      <4>1. Returning' \in Nat /\ owed' \in Nat
        BY <3>2 DEF Returning, LinkTyped
      <4> QED BY <2>types, <3>1, <4>1
    <3> HIDE DEF rest
    <3>5. Sending + rest = Sending + owed + Returning
      BY <2>types, <3>3
    <3> QED BY <3>1, <3>4, <3>5
  <2> QED BY <2>1, <2>2
<1>3. Balanced(data_credit_available + InTransit, 2 * packets)
  BY <1>1, <1>2 DEF KeptInv, Tracked
<1>4. data_credit_available \in Int
  BY <1>inv DEF LinkTyped
<1>5. data_credit_available + InTransit' = data_credit_available + InTransit
  BY <1>2 DEF InTransit
<1> QED BY <1>2, <1>3, <1>4, <1>5, MovesBalanced

(* KeptInv is inductive, with what it is said with.                        *)
LEMMA KeptStep ==
  ASSUME BooksInv, BooksInv', SilentInv, LatestInv, KeptInv, [Next]_vars
  PROVE  KeptInv'
<1> SUFFICES ASSUME Tracked'
             PROVE  Balanced(data_credit_available + InTransit, 2 * packets)'
  BY DEF KeptInv
<1>1. CASE Watchdog
  BY <1>1, FullBalanced DEF Watchdog, CpuStarts, JumpCheck
<1>2. CASE UNCHANGED vars
  <2>1. UNCHANGED <<tx_q, inbox, outbox, event, pc, data_credit_available, link, owed, packets>>
    BY <1>2 DEF vars, halVars, radioVars, boundVars
  <2>2. Tracked
    BY <2>1 DEF Tracked, Waits
  <2>3. Balanced(data_credit_available + InTransit, 2 * packets)
    BY <2>2 DEF KeptInv
  <2>4. InTransit' = InTransit
    BY <2>1 DEF InTransit, Sending, Queued, Returning, Waits
  <2> QED BY <2>1, <2>3, <2>4
<1> QED BY <1>1, <1>2, HandlerKept, QuietKept, RadioKept, LinkSteps

(* All of it holds throughout.                                             *)
CreditInv == BeginInv /\ SilentInv /\ LatestInv /\ KeptInv

(* They hold while the radio is off, and hold each other up.               *)
LEMMA CreditHolds == Spec => []CreditInv
<1>1. Init => CreditInv
  <2> SUFFICES ASSUME Init PROVE CreditInv
    OBVIOUS
  <2>1. /\ tx_q = << >> /\ inbox = << >> /\ outbox = << >> /\ event = None
        /\ owed = 0 /\ pc = "init" /\ link = "off"
    BY DEF Init, HalInit
  <2>2. Queued({Connect}) = 0 /\ Waits(LinkChange) = 0
    BY <2>1, OccursFew, NoneIsNoEvent DEF Queued, Waits, One
  <2>3. Len(outbox) = 0
    BY <2>1
  <2>4. BeginInv
    BY <2>1, <2>3, BeginningsAre DEF BeginInv, Restoring
  <2>5. SilentInv /\ LatestInv /\ KeptInv
    BY <2>1, <2>2 DEF SilentInv, LatestInv, KeptInv, Tracked
  <2> QED BY <2>4, <2>5 DEF CreditInv
<1>2. BooksInv /\ BooksInv' /\ CreditInv /\ [Next]_vars => CreditInv'
  <2> SUFFICES ASSUME BooksInv, BooksInv', CreditInv, [Next]_vars PROVE CreditInv'
    OBVIOUS
  <2>1. /\ LinkInv /\ LinkInv' /\ LinkTyped
        /\ BeginInv /\ SilentInv /\ LatestInv /\ KeptInv
    BY DEF BooksInv, CreditInv
  <2>2. BeginInv'
    BY <2>1, BeginStep
  <2>3. SilentInv'
    BY <2>1, SilentStep
  <2>4. LatestInv'
    BY <2>1, LatestStep
  <2>5. KeptInv'
    BY <2>1, KeptStep
  <2> QED BY <2>2, <2>3, <2>4, <2>5 DEF CreditInv
<1> QED BY <1>1, <1>2, BooksHold, PTL DEF Spec

(* A balanced sum exceeds the total by a surplus, modulo the width of the   *)
(* counter.                                                                *)
LEMMA BalancedModulo ==
  ASSUME NEW sum \in Int, NEW most \in Nat, Balanced(sum, most)
  PROVE  (sum - Credit) % CreditWrap <= most
<1>1. PICK k \in Int, surplus \in 0..most : sum = Credit + surplus + CreditWrap * k
  BY DEF Balanced
<1>2. CreditWrap \in Nat \ {0} /\ Credit \in Int
  BY AciLinkAssumption
<1> DEFINE a == sum - Credit
           d == a \div CreditWrap
           r == a % CreditWrap
<1>3. a = CreditWrap * d + r /\ d \in Int /\ r \in 0..CreditWrap - 1
  BY <1>2
<1>4. a = surplus + CreditWrap * k
  BY <1>1, <1>2
<1>5. r = surplus + CreditWrap * k - CreditWrap * d
  BY <1>2, <1>3, <1>4
<1>6. CreditWrap * k - CreditWrap * d = CreditWrap * (k - d) /\ k - d \in Int
  BY <1>2, <1>3
<1> DEFINE m == k - d
<1>7. r = surplus + CreditWrap * m /\ m \in Int
  BY <1>2, <1>3, <1>5, <1>6
<1>8. r \in 0..CreditWrap - 1
  BY <1>3
<1> HIDE DEF m, r
<1>9. CASE m >= 1
  <2>1. CreditWrap * m >= CreditWrap
    BY <1>2, <1>7, <1>9
  <2> QED BY <1>2, <1>7, <1>8, <2>1
<1>10. CASE m <= 0
  <2>1. CreditWrap * m <= 0
    BY <1>2, <1>7, <1>10
  <2>2. CreditWrap * m \in Int
    BY <1>2, <1>7
  <2>3. r <= most
    BY <1>7, <1>8, <2>1, <2>2
  <2> QED BY <2>3 DEF r
<1> QED BY <1>7, <1>9, <1>10

(* Whatever happens to connections, packets, answers and the processor, all *)
(* the credit of a connection the program knows of is there or on its way,  *)
(* with queues and counters of any size (ble_update, m_send of dfu.c,       *)
(* lib_aci_event_get).                                                     *)
THEOREM CreditIsKept == Spec => []NoCreditLost
<1>1. BooksInv /\ CreditInv => NoCreditLost
  <2> SUFFICES ASSUME BooksInv, CreditInv, link = "connected",
                      pc \notin {"init", "activate"}, Occurs(Pending, LinkChange) = 0
               PROVE  (CreditsInSystem - Credit) % CreditWrap <= 2 * MaxData
    BY DEF NoCreditLost
  <2>inv. LinkInv /\ LinkTyped
    BY DEF BooksInv
  <2>1. /\ tx_q \in Seq(Fits) /\ inbox \in Seq(Fits)
        /\ outbox \in Seq(LinkEvent) /\ event \in LinkEvent \cup {None}
    BY <2>inv DEF LinkInv, HalTypeOK, LinkTyped
  <2>2. ASSUME NEW S, None \notin S PROVE Occurs(Pending, S) = Waits(S)
    <3>1. CASE event = None
      <4>1. Pending = outbox
        BY <2>1, <3>1 DEF Pending
      <4>2. One(event, S) = 0 /\ Occurs(outbox, S) \in Nat
        BY <2>1, <2>2, <3>1, OccursType DEF One
      <4> QED BY <4>1, <4>2 DEF Waits
    <3>2. CASE event # None
      <4>1. Pending = outbox \o <<event>> /\ <<event>> \in Seq(LinkEvent)
        BY <2>1, <3>2 DEF Pending
      <4>2. Occurs(outbox \o <<event>>, S) = Occurs(outbox, S) + Occurs(<<event>>, S)
        BY <2>1, <4>1, OccursConcat
      <4> QED BY <4>1, <4>2, OccursFew DEF Waits
    <3> QED BY <3>1, <3>2
  <2>3. /\ Occurs(Pending, LinkChange) = Waits(LinkChange)
        /\ Occurs(Pending, OneCredit) = Waits(OneCredit)
        /\ Occurs(Pending, TwoCredits) = Waits(TwoCredits)
    BY <2>2, NoneIsNoEvent
  <2>4. Occurs(tx_q \o inbox, {SendData}) = Sending
    BY <2>1, OccursConcat DEF Sending, Queued
  <2>5. /\ Sending \in Nat /\ owed \in Nat /\ data_credit_available \in Int
        /\ Waits(OneCredit) \in Nat /\ Waits(TwoCredits) \in Nat
        /\ packets \in 0..MaxData /\ MaxData \in Nat /\ Credit \in Int
    BY <2>inv, UnderWayType, AciLinkAssumption DEF Sending, LinkTyped
  <2> DEFINE sum == data_credit_available + InTransit
  <2>6. CreditsInSystem = sum /\ sum \in Int
    BY <2>3, <2>4, <2>5 DEF CreditsInSystem, InTransit, Returning
  <2>7. Balanced(sum, 2 * packets)
    BY <2>3 DEF CreditInv, KeptInv, Tracked
  <2>8. (sum - Credit) % CreditWrap <= 2 * packets
    BY <2>5, <2>6, <2>7, BalancedModulo
  <2>9. 2 * packets <= 2 * MaxData /\ (sum - Credit) % CreditWrap \in Int
    BY <2>5, <2>6, AciLinkAssumption
  <2> HIDE DEF sum
  <2>10. 2 * packets \in Int /\ 2 * MaxData \in Int
    BY <2>5
  <2> QED BY <2>6, <2>8, <2>9, <2>10
<1> QED BY <1>1, BooksHold, CreditHolds, PTL

-----------------------------------------------------------------------------
(***************************************************************************)
(* A restore is not cut short.                                             *)
(***************************************************************************)
(* The answer that asks for the next message of the bond.                  *)
Continue == {CmdRsp("continue")}

(* How many of them the radio has given: it answers the last message with   *)
(* another one.                                                            *)
Stored == IF restored = Chunks THEN Chunks - 1 ELSE restored

(* The counter, after that many answers.                                   *)
CountedDown(a) == \E k \in Int : write_dyn_num_msgs = eeprom_status - a + CountWrap * k

(* Why a restore that meets no other answers does not give up: those it has *)
(* counted and those under way are together no more than the radio gave,    *)
(* which is less than the bond has messages.                               *)
RestoreInv ==
  /\ Waits(Continue) <= Stored
  /\ Restoring => eeprom_status \in BondCounts
  /\ Restoring /\ ~foreign =>
       \E a \in Nat : a + Waits(Continue) <= Stored /\ CountedDown(a)

(* No other event is such an answer.                                       *)
LEMMA ContinueIs ==
  /\ None \notin Continue
  /\ \A s \in CmdRsps : CmdRsp(s) \in Continue <=> s = "continue"
  /\ \A n \in 0..1 : Started(n) \notin Continue /\ PipeError(n) \notin Continue
  /\ \A n \in 1..2 : DataCredit(n) \notin Continue
  /\ Connected \notin Continue /\ Disconnected \notin Continue
  /\ Received \notin Continue
<1>1. "continue" \in CmdRsps
  BY DEF CmdRsps
<1>2. CmdRsp("continue") \in LinkEvent
  BY <1>1 DEF LinkEvent
<1>3. None \notin Continue
  BY <1>2, NoneIsNoEvent DEF Continue
<1> QED
  BY <1>3 DEF Continue, CmdRsp, Started, PipeError, DataCredit, Connected, Disconnected,
     Received, Msg

(* An event that is none leaves their number alone.                        *)
LEMMA OtherEvent ==
  ASSUME LinkInv, NEW e \in LinkEvent, e \notin Continue, RadioRaises(<<e>>)
  PROVE  Waits(Continue)' = Waits(Continue)
<1>1. e \in Event /\ One(e, Continue) = 0
  BY NoneIsNoEvent DEF One
<1>2. Waits(Continue)' = Waits(Continue) + 0
  BY <1>1, RaiseCounts
<1> QED BY <1>2, UnderWayType

(* So do two.                                                              *)
LEMMA OtherEvents ==
  ASSUME LinkInv, NEW e \in LinkEvent, NEW f \in LinkEvent,
         e \notin Continue, f \notin Continue, RadioRaises(<<e, f>>)
  PROVE  Waits(Continue)' = Waits(Continue)
<1>1. e \in Event /\ f \in Event /\ One(e, Continue) = 0 /\ One(f, Continue) = 0
  BY NoneIsNoEvent DEF One
<1>2. Waits(Continue)' = Waits(Continue) + 0 + 0
  BY <1>1, RaiseTwoCounts
<1> QED BY <1>2, UnderWayType

(* They have been given for the messages stored, but for the last.         *)
LEMMA StoredType ==
  ASSUME LinkTyped
  PROVE  Stored \in 0..Chunks - 1
BY CountersType DEF LinkTyped, Stored

(* What the radio does by itself gives none.                               *)
LEMMA OutsideContinue ==
  ASSUME LinkInv, Outside
  PROVE  Waits(Continue)' = Waits(Continue) /\ Stored' = Stored
<1>1. Stored' = Stored
  BY DEF Outside, RadioGrants, RadioStarts, CentralConnects, CentralWrites, CreditReturns,
     LinkEnds, radioVars, Stored
<1>2. /\ \A n \in 0..1 : Started(n) \in LinkEvent /\ PipeError(n) \in LinkEvent
      /\ \A n \in 1..2 : DataCredit(n) \in LinkEvent
      /\ Connected \in LinkEvent /\ Disconnected \in LinkEvent /\ Received \in LinkEvent
  <2>1. \A n \in 0..1 : n = 0 \/ n = 1
    OBVIOUS
  <2> QED BY <2>1 DEF LinkEvent
<1>3. CASE RadioGrants
  BY <1>1, <1>3 DEF RadioGrants, RadioReady, Waits
<1>4. CASE RadioStarts
  BY <1>1, <1>2, <1>4, ContinueIs, OtherEvent DEF RadioStarts
<1>5. CASE CentralConnects
  BY <1>1, <1>2, <1>5, ContinueIs, OtherEvent DEF CentralConnects
<1>6. CASE CentralWrites
  BY <1>1, <1>2, <1>6, ContinueIs, OtherEvent DEF CentralWrites
<1>7. CASE CreditReturns
  <2>1. 0 \in 0..1 /\ 1 \in 0..1 /\ 1 \in 1..2
    OBVIOUS
  <2>2. \/ \E n \in 1..2 : RadioRaises(<<DataCredit(n)>>)
        \/ RadioRaises(<<PipeError(0)>>)
        \/ RadioRaises(<<PipeError(1), DataCredit(1)>>)
    BY <1>7 DEF CreditReturns
  <2> QED BY <1>1, <1>2, <2>1, <2>2, ContinueIs, OtherEvent, OtherEvents
<1>8. CASE LinkEnds
  BY <1>1, <1>2, <1>8, ContinueIs, OtherEvent DEF LinkEnds
<1> QED BY <1>1, <1>3, <1>4, <1>5, <1>6, <1>7, <1>8 DEF Outside

(* Each one the radio gives is for a message it stores, and not the last.  *)
LEMMA ActsContinue ==
  ASSUME LinkInv, LinkTyped, RadioActs
  PROVE  \E d \in Nat : /\ Waits(Continue)' = Waits(Continue) + d
                        /\ Stored' = Stored + d
<1>1. Waits(Continue) \in Nat /\ restored \in 0..Chunks /\ Chunks \in Nat \ {0}
  BY UnderWayType, CountersType DEF LinkTyped
<1>2. Stored \in Nat
  BY <1>1 DEF Stored
<1>3. \A s \in CmdRsps : CmdRsp(s) \in LinkEvent
  BY DEF LinkEvent
<1>4. /\ "reset_done" \in CmdRsps /\ "continue" \in CmdRsps /\ "complete" \in CmdRsps
      /\ "error" \in CmdRsps /\ "done" \in CmdRsps
  BY DEF CmdRsps
<1>5. Disconnected \in LinkEvent /\ PipeError(0) \in LinkEvent /\ 0 \in 0..1
  BY DEF LinkEvent
<1>same. ASSUME Waits(Continue)' = Waits(Continue), restored' = restored
         PROVE  \E d \in Nat : /\ Waits(Continue)' = Waits(Continue) + d
                               /\ Stored' = Stored + d
  <2>1. Waits(Continue)' = Waits(Continue) + 0 /\ Stored' = Stored + 0
    BY <1>1, <1>2, <1>same DEF Stored
  <2> QED BY <2>1
<1>6. CASE RadioResets
  <2>1. Waits(Continue)' = Waits(Continue)
    BY <1>3, <1>4, <1>6, ContinueIs, OtherEvent DEF RadioResets
  <2> QED BY <1>6, <1>same, <2>1 DEF RadioResets
<1>7. CASE RadioAdvertises
  <2>1. Waits(Continue)' = Waits(Continue)
    BY <1>3, <1>4, <1>7, ContinueIs, OtherEvent DEF RadioAdvertises
  <2> QED BY <1>7, <1>same, <2>1 DEF RadioAdvertises
<1>8. CASE RadioDisconnects
  <2>1. RadioRaises(<<CmdRsp("done"), Disconnected>>) \/ RadioRaises(<<CmdRsp("error")>>)
    BY <1>8 DEF RadioDisconnects
  <2>2. Waits(Continue)' = Waits(Continue)
    BY <1>3, <1>4, <1>5, <2>1, ContinueIs, OtherEvent, OtherEvents
  <2> QED BY <1>8, <1>same, <2>2 DEF RadioDisconnects
<1>9. CASE RadioSends
  <2>1. RadioRaises(<< >>) \/ RadioRaises(<<PipeError(0)>>)
    BY <1>9 DEF RadioSends
  <2>2. Waits(Continue)' = Waits(Continue)
    BY <1>5, <2>1, ContinueIs, OtherEvent, RaiseNoneCounts
  <2> QED BY <1>9, <1>same, <2>2 DEF RadioSends
<1>10. CASE RadioStores
  <2>1. CASE UNCHANGED restored /\ RadioRaises(<<CmdRsp("error")>>)
    <3>1. Waits(Continue)' = Waits(Continue)
      BY <1>3, <1>4, <2>1, ContinueIs, OtherEvent
    <3> QED BY <1>same, <2>1, <3>1
  <2>2. CASE restored < Chunks /\ restored' = restored + 1 /\ restored' = Chunks
             /\ RadioRaises(<<CmdRsp("complete")>>)
    <3>1. Waits(Continue)' = Waits(Continue)
      BY <1>3, <1>4, <2>2, ContinueIs, OtherEvent
    <3>2. Stored' = Chunks - 1 /\ Stored = restored
      BY <2>2, <1>1 DEF Stored
    <3>3. Stored' = Stored
      BY <1>1, <2>2, <3>2
    <3>4. Waits(Continue)' = Waits(Continue) + 0 /\ Stored' = Stored + 0
      BY <1>1, <1>2, <3>1, <3>3
    <3> QED BY <3>4
  <2>3. CASE restored < Chunks /\ restored' = restored + 1 /\ restored' # Chunks
             /\ RadioRaises(<<CmdRsp("continue")>>)
    <3>1. CmdRsp("continue") \in Event /\ One(CmdRsp("continue"), Continue) = 1
      BY <1>3, <1>4, NoneIsNoEvent DEF One, Continue
    <3>2. Waits(Continue)' = Waits(Continue) + 1
      BY <2>3, <3>1, RaiseCounts
    <3>3. Stored' = restored' /\ Stored = restored
      BY <1>1, <2>3 DEF Stored
    <3>4. Waits(Continue)' = Waits(Continue) + 1 /\ Stored' = Stored + 1
      BY <2>3, <3>2, <3>3
    <3> QED BY <3>4
  <2> QED BY <1>10, <2>1, <2>2, <2>3 DEF RadioStores
<1> QED BY <1>6, <1>7, <1>8, <1>9, <1>10 DEF RadioActs

(* The program moves them.                                                 *)
LEMMA QuietContinue ==
  ASSUME LinkInv, Quiet
  PROVE  Waits(Continue)' = Waits(Continue) /\ Stored' = Stored
<1>1. None \notin Continue
  BY ContinueIs
<1>2. Stored' = Stored
  BY DEF Quiet, LibAciInit, Reply, NoReply, RestoreSend, EventGet, QueueOnly, radioVars, Stored
<1>3. CASE EventGet
  <2>1. HalEventGet /\ event = None
    BY <1>3 DEF EventGet
  <2>2. Waits(Continue)' = Waits(Continue)
    BY <1>1, <2>1, TransferCounts
  <2> QED BY <1>2, <2>2
<1>4. CASE ~EventGet
  <2>1. UNCHANGED <<event, outbox>>
    BY <1>4 DEF Quiet, LibAciInit, Reply, NoReply, RestoreSend, QueueOnly
  <2>2. Waits(Continue)' = Waits(Continue)
    BY <2>1 DEF Waits
  <2> QED BY <1>2, <2>2
<1> QED BY <1>3, <1>4

(* It uses them up one by one.                                             *)
LEMMA UseContinue ==
  ASSUME LinkInv, Handler \/ Watchdog
  PROVE  Waits(Continue) = Waits(Continue)' + One(event, Continue) /\ Stored' = Stored
<1>1. UNCHANGED <<outbox, restored>> /\ event' = None
  <2>1. CASE Handler
    BY <2>1, HandlerDoes DEF Handled, EventUsed, radioVars
  <2>2. CASE Watchdog
    BY <2>2 DEF Watchdog, HalInitialised, radioVars
  <2> QED BY <2>1, <2>2
<1>2. None \notin Continue
  BY ContinueIs
<1>3. Waits(Continue) = Waits(Continue)' + One(event, Continue)
  BY <1>1, <1>2, UseCounts
<1> QED BY <1>1, <1>3 DEF Stored

(* What a restore that meets no other answers does: it begins, it counts an *)
(* answer to a message of its own, or the counter stays as it is.          *)
LEMMA RestoreMoves ==
  ASSUME [Next]_vars, Restoring'
  PROVE  \/ RestoreBegins
         \/ RestoreGoesOn
         \/ /\ Restoring /\ ~RestoreGoesOn
            /\ UNCHANGED <<eeprom_status, write_dyn_num_msgs, foreign>>
<1>1. CASE Handler
  BY <1>1
  DEF Handler, RestoreBegins, Advertise, CreditEvent, Ignored, Answers, ReceiveFw, Activate, SysReset,
      Dropped, RestoreCompletes, RestoreGivesUp, RestoreGoesOn, Dispatched, Restoring, bondVars
<1>2. CASE Quiet
  BY <1>2
  DEF Quiet, LibAciInit, Reply, NoReply, RestoreSend, EventGet, QueueOnly, Restoring,
      RestoreGoesOn, bondVars
<1>3. CASE Watchdog
  BY <1>3 DEF Watchdog, CpuStarts, JumpCheck, Restoring
<1>4. CASE RadioActs
  BY <1>4 DEF RadioActs, cpuVars, bondVars, Restoring
<1>5. CASE Outside
  BY <1>5
  DEF Outside, RadioGrants, RadioStarts, CentralConnects, CentralWrites, CreditReturns,
      LinkEnds, cpuVars, bondVars, Restoring
<1>6. CASE UNCHANGED vars
  BY <1>6 DEF vars, bondVars, Restoring
<1> QED BY <1>1, <1>2, <1>3, <1>4, <1>5, <1>6, LinkSteps

(* The answers under way and counted stay within those given.              *)
LEMMA UnderWayStored ==
  ASSUME LinkInv, LinkInv', LinkTyped, [Next]_vars, NEW a \in Nat,
         a + Waits(Continue) <= Stored
  PROVE  a + Waits(Continue)' <= Stored'
<1>1. Waits(Continue) \in Nat /\ Stored \in Nat
  BY UnderWayType, StoredType, CountersType
<1> DEFINE waits == Waits(Continue)'
           stored == Stored'
<1>2. waits \in Nat
  BY UnderWayNext
<1>same. ASSUME waits = Waits(Continue), stored = Stored PROVE a + waits <= stored
  BY <1>same
<1>3. CASE Quiet
  BY <1>3, <1>same, QuietContinue
<1>4. CASE Handler \/ Watchdog
  <2>1. Waits(Continue) = waits + One(event, Continue) /\ stored = Stored
    BY <1>4, UseContinue
  <2>2. One(event, Continue) \in Nat
    BY DEF One
  <2> HIDE DEF waits, stored
  <2>3. a + waits <= stored
    BY <1>1, <1>2, <2>1, <2>2
  <2> QED BY <2>3 DEF waits, stored
<1>5. CASE RadioActs
  <2>1. PICK d \in Nat : waits = Waits(Continue) + d /\ stored = Stored + d
    BY <1>5, ActsContinue
  <2> HIDE DEF waits, stored
  <2>2. a + waits <= stored
    BY <1>1, <2>1
  <2> QED BY <2>2 DEF waits, stored
<1>6. CASE Outside
  BY <1>6, <1>same, OutsideContinue
<1>7. CASE UNCHANGED vars
  <2>1. UNCHANGED <<event, outbox, restored>>
    BY <1>7 DEF vars, halVars, radioVars
  <2>2. waits = Waits(Continue) /\ stored = Stored
    BY <2>1 DEF Waits, Stored
  <2> QED BY <1>same, <2>2
<1> QED BY <1>3, <1>4, <1>5, <1>6, <1>7, LinkSteps

(* An answer counted is under way no more.                                 *)
LEMMA CountedStored ==
  ASSUME LinkInv, LinkInv', LinkTyped, RestoreGoesOn, event \in Continue,
         NEW a \in Nat, a + Waits(Continue) <= Stored
  PROVE  (a + 1) + Waits(Continue)' <= Stored'
<1>1. Waits(Continue) \in Nat /\ Stored \in Nat
  BY UnderWayType, StoredType, CountersType
<1> DEFINE waits == Waits(Continue)'
           stored == Stored'
<1>2. waits \in Nat
  BY UnderWayNext
<1>3. Waits(Continue) = waits + One(event, Continue) /\ stored = Stored
  BY UseContinue DEF Handler
<1>4. One(event, Continue) = 1
  BY DEF One
<1> HIDE DEF waits, stored
<1>5. (a + 1) + waits <= stored
  BY <1>1, <1>2, <1>3, <1>4
<1> QED BY <1>5 DEF waits, stored

(* The counter goes down by one, modulo its width (bond_data_restore).     *)
LEMMA CountedStep ==
  ASSUME LinkTyped, RestoreGoesOn, eeprom_status \in Int, NEW a \in Nat, CountedDown(a)
  PROVE  CountedDown(a + 1)'
<1>1. CountWrap \in Nat \ {0} /\ write_dyn_num_msgs \in Int
  BY AciLinkAssumption DEF LinkTyped
<1>2. PICK k \in Int : write_dyn_num_msgs = eeprom_status - a + CountWrap * k
  BY DEF CountedDown
<1> DEFINE left == write_dyn_num_msgs - 1
           d == left \div CountWrap
           rest == left % CountWrap
<1>3. left = CountWrap * d + rest /\ d \in Int /\ rest \in Int /\ left \in Int
  BY <1>1
<1>4. write_dyn_num_msgs' = rest /\ eeprom_status' = eeprom_status
  BY DEF RestoreGoesOn, MsgsLeft
<1>5. left = eeprom_status - (a + 1) + CountWrap * k
  BY <1>1, <1>2
<1>6. CountWrap * k - CountWrap * d = CountWrap * (k - d) /\ k - d \in Int
  BY <1>1, <1>2, <1>3
<1> HIDE DEF left, d, rest
<1>7. CountWrap * k \in Int /\ CountWrap * d \in Int
  BY <1>1, <1>2, <1>3
<1>8. rest = eeprom_status - (a + 1) + (CountWrap * k - CountWrap * d)
  BY <1>3, <1>5, <1>7
<1>9. rest = eeprom_status - (a + 1) + CountWrap * (k - d)
  BY <1>6, <1>8
<1> QED BY <1>4, <1>6, <1>9 DEF CountedDown

(* The status byte is read when a restore begins.                          *)
LEMMA RestoreStep ==
  ASSUME LinkInv, LinkInv', LinkTyped, RestoreInv, [Next]_vars
  PROVE  RestoreInv'
<1>1. Waits(Continue) \in Nat /\ Waits(Continue)' \in Nat /\ Stored \in Nat
  BY UnderWayType, UnderWayNext, StoredType, CountersType
<1>2. 0 + Waits(Continue)' <= Stored'
  BY <1>1, UnderWayStored DEF RestoreInv
<1>3. Waits(Continue)' <= Stored'
  BY <1>1, <1>2
<1>4. Restoring' => eeprom_status' \in BondCounts
  BY RestoreMoves
  DEF RestoreInv, RestoreBegins, RestoreGoesOn, Waiting, Restoring
<1>5. ASSUME Restoring', ~foreign'
      PROVE  \E a \in Nat : a + Waits(Continue)' <= Stored' /\ CountedDown(a)'
  <2>1. CASE RestoreBegins
    <3>1. eeprom_status' \in Int /\ write_dyn_num_msgs' = eeprom_status'
      BY <2>1, CountersType DEF RestoreBegins
    <3>2. CountWrap * 0 = 0
      BY AciLinkAssumption
    <3>3. write_dyn_num_msgs' = eeprom_status' - 0 + CountWrap * 0
      BY <3>1, <3>2
    <3>4. CountedDown(0)'
      BY <3>3 DEF CountedDown
    <3> QED BY <1>2, <3>4
  <2>2. CASE RestoreGoesOn
    <3>1. Restoring /\ ~foreign /\ event \in Continue
      BY <1>5, <2>2 DEF RestoreGoesOn, Waiting, Restoring, Continue
    <3>2. eeprom_status \in Int
      <4>1. eeprom_status \in BondCounts
        BY <3>1 DEF RestoreInv
      <4> QED BY <4>1, CountersType
    <3>3. PICK a \in Nat : a + Waits(Continue) <= Stored /\ CountedDown(a)
      BY <3>1 DEF RestoreInv
    <3>4. (a + 1) + Waits(Continue)' <= Stored'
      BY <2>2, <3>1, <3>3, CountedStored
    <3>5. CountedDown(a + 1)'
      BY <2>2, <3>2, <3>3, CountedStep
    <3>6. a + 1 \in Nat
      OBVIOUS
    <3> QED BY <3>4, <3>5, <3>6
  <2>3. CASE Restoring /\ UNCHANGED <<eeprom_status, write_dyn_num_msgs, foreign>>
    <3>1. PICK a \in Nat : a + Waits(Continue) <= Stored /\ CountedDown(a)
      BY <1>5, <2>3 DEF RestoreInv
    <3>2. a + Waits(Continue)' <= Stored'
      BY <3>1, UnderWayStored
    <3>3. CountedDown(a)'
      BY <2>3, <3>1 DEF CountedDown
    <3> QED BY <3>2, <3>3
  <2> QED BY <1>5, <2>1, <2>2, <2>3, RestoreMoves
<1> QED BY <1>3, <1>4, <1>5 DEF RestoreInv

(* It holds before there is a restore.                                     *)
LEMMA RestoreHolds == Spec => []RestoreInv
<1>1. Init => RestoreInv
  <2> SUFFICES ASSUME Init PROVE RestoreInv
    OBVIOUS
  <2>1. outbox = << >> /\ event = None /\ pc = "init" /\ restored = 0
    BY DEF Init, HalInit
  <2>2. Waits(Continue) = 0
    BY <2>1, OccursFew, ContinueIs DEF Waits, One
  <2>3. Stored = 0
    BY <2>1, CountersType DEF Stored
  <2> QED BY <2>1, <2>2, <2>3 DEF RestoreInv, Restoring
<1>2. BooksInv /\ BooksInv' /\ RestoreInv /\ [Next]_vars => RestoreInv'
  BY RestoreStep DEF BooksInv
<1> QED BY <1>1, <1>2, BooksHold, PTL DEF Spec

(* The counter has not run out before that many answers.                   *)
LEMMA CountLasts ==
  ASSUME LinkTyped, eeprom_status \in 0..CountWrap - 1,
         eeprom_status = 0 \/ eeprom_status >= Chunks,
         NEW a \in Nat, a + 1 <= Chunks - 1, CountedDown(a)
  PROVE  ~CountUsedUp
<1>1. /\ CountWrap \in Nat \ {0} /\ Chunks \in Nat /\ Chunks <= CountWrap
      /\ write_dyn_num_msgs \in Int /\ eeprom_status \in Int
  BY AciLinkAssumption DEF LinkTyped
<1>2. PICK k \in Int : write_dyn_num_msgs = eeprom_status - a + CountWrap * k
  BY DEF CountedDown
<1> SUFFICES ASSUME CountUsedUp PROVE FALSE
  OBVIOUS
<1> DEFINE left == write_dyn_num_msgs - 1
           d == left \div CountWrap
<1>3. left = CountWrap * d + (left % CountWrap) /\ d \in Int /\ left \in Int
  BY <1>1
<1>4. left % CountWrap = 0
  BY DEF CountUsedUp, MsgsLeft
<1>5. left = eeprom_status - (a + 1) + CountWrap * k
  BY <1>1, <1>2
<1>6. CountWrap * d - CountWrap * k = CountWrap * (d - k) /\ d - k \in Int
  BY <1>1, <1>2, <1>3
<1> DEFINE m == d - k
           product == CountWrap * m
<1>7. CountWrap * k \in Int /\ CountWrap * d \in Int /\ m \in Int
  BY <1>1, <1>2, <1>3
<1>8. product = CountWrap * d - CountWrap * k
  BY <1>6
<1>9. product \in Int
  BY <1>1, <1>7
<1>10. CASE m >= 1
  <2>1. product >= CountWrap
    BY <1>1, <1>7, <1>10
  <2> HIDE DEF left, d, m, product
  <2>2. product = eeprom_status - (a + 1)
    BY <1>1, <1>3, <1>4, <1>5, <1>7, <1>8
  <2> QED BY <1>1, <1>9, <2>1, <2>2
<1>11. CASE m = 0
  <2>1. product = 0
    BY <1>1, <1>11
  <2> HIDE DEF left, d, m, product
  <2>2. product = eeprom_status - (a + 1)
    BY <1>1, <1>3, <1>4, <1>5, <1>7, <1>8
  <2> QED BY <1>1, <2>1, <2>2
<1>12. CASE m <= -1
  <2>1. product <= -CountWrap
    BY <1>1, <1>7, <1>12
  <2> HIDE DEF left, d, m, product
  <2>2. product = eeprom_status - (a + 1)
    BY <1>1, <1>3, <1>4, <1>5, <1>7, <1>8
  <2> QED BY <1>1, <1>9, <2>1, <2>2
<1> QED BY <1>7, <1>10, <1>11, <1>12

(* A restore whose count is right, or zero, and that meets no answers but   *)
(* those to its own messages, ends with the bond whole, for bonds, counters *)
(* and queues of any size: the counter that a status byte of zero makes     *)
(* wrap runs out no sooner (bond_data_restore).                            *)
THEOREM RestoreEndsWhole == Spec => RestoreNotCutShort
<1> DEFINE Whole == pc = "waiting" /\ pc' = "poll"
                      /\ ~foreign /\ event.n \in {"continue", "complete"}
                      /\ (eeprom_status = 0 \/ eeprom_status >= Chunks)
                      => bonded'
<1>1. BooksInv /\ RestoreInv /\ [Next]_vars => [Whole]_vars
  <2> SUFFICES ASSUME BooksInv, RestoreInv, Next,
                      pc = "waiting", pc' = "poll", ~foreign,
                      event.n \in {"continue", "complete"},
                      eeprom_status = 0 \/ eeprom_status >= Chunks
               PROVE  bonded'
    OBVIOUS
  <2>1. LinkInv /\ LinkTyped /\ Restoring
    BY DEF BooksInv, Restoring
  <2>2. RestoreCompletes \/ RestoreGivesUp
    <3>1. CASE Processor
      BY <3>1 DEF Processor, LibAciInit, EventGet, RestoreBegins, Advertise, CreditEvent,
         Ignored, Answers, Reply, NoReply, ReceiveFw, Activate, SysReset, Dropped, RestoreSend,
         RestoreGoesOn, Dispatched
    <3>2. CASE Watchdog
      BY <3>2 DEF Watchdog, CpuStarts, JumpCheck
    <3>3. CASE RadioActs
      BY <3>3 DEF RadioActs, cpuVars
    <3>4. CASE RadioGrants \/ RadioStarts \/ CentralConnects \/ CentralWrites
               \/ CreditReturns \/ LinkEnds
      BY <3>4 DEF RadioGrants, RadioStarts, CentralConnects, CentralWrites, CreditReturns,
         LinkEnds, cpuVars
    <3> QED BY <3>1, <3>2, <3>3, <3>4 DEF Next
  <2>3. CASE RestoreCompletes
    BY <2>3 DEF RestoreCompletes
  <2>4. CASE RestoreGivesUp
    <3>1. event = CmdRsp("continue") /\ CountUsedUp
      BY <2>4 DEF RestoreGivesUp, Waiting, IsComplete, CmdRsp, Msg
    <3>2. One(event, Continue) = 1
      BY <3>1 DEF One, Continue
    <3>3. PICK a \in Nat : a + Waits(Continue) <= Stored /\ CountedDown(a)
      BY <2>1 DEF RestoreInv
    <3>4. Waits(Continue) \in Nat /\ Waits(Continue) >= 1
      <4>1. outbox \in Seq(Event)
        BY <2>1 DEF LinkInv, HalTypeOK
      <4>2. Occurs(outbox, Continue) \in Nat
        BY <4>1, OccursType
      <4> QED BY <3>2, <4>2 DEF Waits
    <3>5. Stored \in 0..Chunks - 1 /\ Chunks \in Nat
      BY <2>1, StoredType, CountersType
    <3>6. a + 1 <= Chunks - 1
      BY <3>3, <3>4, <3>5
    <3>7. eeprom_status \in 0..CountWrap - 1
      BY <2>1, CountersType DEF RestoreInv
    <3>8. ~CountUsedUp
      BY <2>1, <3>3, <3>6, <3>7, CountLasts
    <3> QED BY <3>1, <3>8
  <2> QED BY <2>2, <2>3, <2>4
<1> QED BY <1>1, BooksHold, RestoreHolds, PTL DEF Spec, RestoreNotCutShort
=============================================================================
