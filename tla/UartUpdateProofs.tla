-------------------------- MODULE UartUpdateProofs --------------------------
(***************************************************************************)
(* The update over the UART, for every size of flash and of its pages,     *)
(* every set of bytes and every host.                                      *)
(***************************************************************************)
EXTENDS UartUpdate, TLAPS

(* Addresses and words of a page.                                          *)
LEMMA Addresses ==
  /\ PageSize \in Nat /\ PageSize >= 2
  /\ FlashSize \in Nat /\ FlashSize > 0
  /\ 0 \in Address /\ 0 \in Word
  /\ ByteWrap \in Nat /\ PageSize <= ByteWrap /\ 1 \in 1..ByteWrap
  /\ \A l \in Lengths : Count(l) \in 1..ByteWrap
  /\ \A n \in Nat : n % FlashSize \in Address
  /\ \A w \in Word : w \in Nat /\ 2 * w \in 0..PageSize - 1 /\ 2 * w + 1 \in 0..PageSize - 1
  /\ \A a \in Address : a \in Nat /\ a % PageSize \in 0..PageSize - 1 /\ WordOf(a) \in Word
<1>1. /\ PageSize \in Nat /\ PageSize >= 2 /\ PageSize % 2 = 0
      /\ FlashSize \in Nat /\ FlashSize > 0
  BY SpmAssumption
<1>2. PageSize = 2 * (PageSize \div 2) /\ PageSize \div 2 \in Nat
  BY <1>1
<1>3. \A w \in Word : w \in Nat /\ 2 * w \in 0..PageSize - 1 /\ 2 * w + 1 \in 0..PageSize - 1
  BY <1>1, <1>2 DEF Word
<1>4. \A n \in Nat : n % FlashSize \in Address
  BY <1>1 DEF Address
<1>5. ASSUME NEW a \in Address
      PROVE  a \in Nat /\ a % PageSize \in 0..PageSize - 1 /\ WordOf(a) \in Word
  <2>1. a \in Nat
    BY <1>1 DEF Address
  <2>2. a % PageSize \in 0..PageSize - 1
    BY <1>1, <2>1
  <2> DEFINE r == a % PageSize
  <2> HIDE DEF r
  <2>3. r \div 2 \in 0..(PageSize \div 2) - 1
    <3>1. r \in Nat /\ r < 2 * (PageSize \div 2)
      BY <1>1, <1>2, <2>2 DEF r
    <3> QED BY <1>2, <3>1
  <2> QED BY <2>1, <2>2, <2>3 DEF WordOf, Word, r
<1>6. 0 \in Address /\ 0 \in Word
  BY <1>1, <1>2 DEF Address, Word
<1>7. /\ ByteWrap \in Nat /\ PageSize <= ByteWrap /\ 1 \in 1..ByteWrap
      /\ \A l \in Lengths : Count(l) \in 1..ByteWrap
  BY <1>1, UartUpdateAssumption DEF Count
<1> QED BY <1>1, <1>3, <1>4, <1>5, <1>6, <1>7

(* A byte that is written over another is a byte.                          *)
LEMMA SpoiltByte ==
  ASSUME NEW old \in Byte, NEW new \in Byte
  PROVE  Spoilt(old, new) \in Byte
<1>1. Blank \in Byte
  BY SpmAssumption
<1>2. CASE new = Blank \/ old = Blank
  BY <1>2 DEF Spoilt
<1>3. CASE new # Blank /\ old # Blank
  <2>1. \E b \in Byte \ {new} : TRUE
    BY <1>1, <1>3
  <2>2. (CHOOSE b \in Byte \ {new} : TRUE) \in Byte \ {new}
    BY <2>1
  <2> QED BY <1>3, <2>2 DEF Spoilt
<1> QED BY <1>2, <1>3

(* The types of what self-programming changes.                             *)
SpmTyped == /\ flash \in [Address -> Byte]
            /\ page_buff \in [0..PageSize - 1 -> Byte]
            /\ filled \subseteq Word
            /\ spm_busy \in BOOLEAN
            /\ rww_busy \in BOOLEAN

(* A blank buffer has its type.                                            *)
LEMMA ClearedTyped ==
  ASSUME BufferCleared
  PROVE  page_buff' \in [0..PageSize - 1 -> Byte] /\ filled' \subseteq Word
<1>1. Blank \in Byte
  BY SpmAssumption
<1> QED BY <1>1 DEF BufferCleared, BlankPage

(* Every self-programming command keeps the types.                         *)
LEMMA SpmStepTyped ==
  ASSUME SpmTyped,
         \/ UNCHANGED spmVars
         \/ \E a \in Address : PageErase(a)
         \/ \E a \in Address : PageWrite(a)
         \/ \E a \in Address : \E low, high \in Byte : PageFill(a, low, high)
         \/ RwwEnable
         \/ SpmReset
         \/ SpmDone
  PROVE  SpmTyped'
<1> USE DEF SpmTyped
<1>1. CASE UNCHANGED spmVars
  BY <1>1 DEF spmVars
<1>2. Blank \in Byte
  BY SpmAssumption
<1>3. ASSUME NEW a \in Address, PageErase(a)
      PROVE  SpmTyped'
  <2>1. CASE Taken
    <3>1. flash' = [b \in Address |-> IF PageOf(b) = PageOf(a) THEN Blank ELSE flash[b]]
      BY <1>3, <2>1 DEF PageErase
    <3>2. flash' \in [Address -> Byte]
      BY <1>2, <3>1
    <3>3. spm_busy' \in BOOLEAN /\ rww_busy' \in BOOLEAN
      BY <1>3, <2>1 DEF PageErase, Begun, Rww
    <3> QED BY <1>3, <2>1, <3>2, <3>3 DEF PageErase
  <2> QED BY <1>1, <1>3, <2>1 DEF PageErase
<1>4. ASSUME NEW a \in Address, PageWrite(a)
      PROVE  SpmTyped'
  <2>1. CASE Taken
    <3> DEFINE New(b) == IF PageOf(b) = PageOf(a) THEN Spoilt(flash[b], page_buff[b % PageSize])
                                                  ELSE flash[b]
    <3>1. \A b \in Address : New(b) \in Byte
      BY Addresses, SpoiltByte
    <3>2. flash' = [b \in Address |-> New(b)]
      BY <1>4, <2>1 DEF PageWrite
    <3> HIDE DEF New
    <3>3. flash' \in [Address -> Byte]
      BY <3>1, <3>2
    <3>4. BufferCleared /\ Begun(a)
      BY <1>4, <2>1 DEF PageWrite
    <3>5. spm_busy' \in BOOLEAN /\ rww_busy' \in BOOLEAN
      BY <3>4 DEF Begun, Rww
    <3> QED BY <3>3, <3>4, <3>5, ClearedTyped
  <2> QED BY <1>1, <1>4, <2>1 DEF PageWrite
<1>5. ASSUME NEW a \in Address, NEW low \in Byte, NEW high \in Byte, PageFill(a, low, high)
      PROVE  SpmTyped'
  <2>1. CASE Taken /\ WordOf(a) \notin filled
    <3> DEFINE New(i) == IF i = 2 * WordOf(a) THEN low
                         ELSE IF i = 2 * WordOf(a) + 1 THEN high
                         ELSE page_buff[i]
    <3>1. \A i \in 0..PageSize - 1 : New(i) \in Byte
      OBVIOUS
    <3>2. page_buff' = [i \in 0..PageSize - 1 |-> New(i)]
      BY <1>5, <2>1 DEF PageFill
    <3> HIDE DEF New
    <3>3. page_buff' \in [0..PageSize - 1 -> Byte]
      BY <3>1, <3>2
    <3>4. WordOf(a) \in Word
      BY Addresses
    <3>5. filled' = filled \cup {WordOf(a)} /\ UNCHANGED <<flash, spm_busy, rww_busy>>
      BY <1>5, <2>1 DEF PageFill
    <3> QED BY <3>3, <3>4, <3>5
  <2> QED BY <1>1, <1>5, <2>1 DEF PageFill
<1>6. CASE RwwEnable
  BY <1>1, <1>6, ClearedTyped DEF RwwEnable
<1>7. CASE SpmReset
  BY <1>7, ClearedTyped DEF SpmReset
<1>8. CASE SpmDone
  BY <1>8 DEF SpmDone
<1> QED BY <1>1, <1>3, <1>4, <1>5, <1>6, <1>7, <1>8

-----------------------------------------------------------------------------
(* The types of what the program keeps, and of the flags.                  *)
ProgTyped ==
  /\ pc \in PC
  /\ wdt \in {"16ms", "4s", "off"}
  /\ ch \in BOOLEAN /\ dfu_mode \in BOOLEAN
  /\ address \in Address
  /\ buff \in [0..PageSize - 1 -> Byte]
  /\ word \in Word /\ pages \in 0..MaxPages
  /\ message \in [0..ByteWrap - 1 -> Byte] \X (1..ByteWrap)
FlagTyped ==
  /\ wdrf \in BOOLEAN /\ boot_key \in BOOLEAN
  /\ valid_app \in BOOLEAN /\ was_valid \in BOOLEAN
  /\ blocked \in BOOLEAN /\ whole \in BOOLEAN /\ declared \in BOOLEAN
  /\ eeprom_busy \in BOOLEAN

(* The parts are the whole.                                                *)
LEMMA TypeParts == TypeOK <=> SpmTyped /\ ProgTyped /\ FlagTyped
BY DEF TypeOK, SpmTypeOK, SpmTyped, ProgTyped, FlagTyped

(* They are in the next state, too.                                        *)
LEMMA TypePartsNext ==
  ASSUME SpmTyped', ProgTyped', FlagTyped'
  PROVE  TypeOK'
BY DEF TypeOK, SpmTypeOK, SpmTyped, ProgTyped, FlagTyped

(* What a reset leaves.                                                    *)
LEMMA RestartedTyped ==
  ASSUME TypeOK, Restarted
  PROVE  /\ SpmTyped' /\ ProgTyped'
         /\ blocked' \in BOOLEAN /\ whole' \in BOOLEAN
<1>1. SpmTyped'
  BY SpmStepTyped, TypeParts DEF Restarted
<1>2. /\ [i \in 0..PageSize - 1 |-> Old] \in [0..PageSize - 1 -> Byte]
      /\ [i \in 0..ByteWrap - 1 |-> Old] \in [0..ByteWrap - 1 -> Byte]
  BY UartUpdateAssumption
<1>3. message' \in [0..ByteWrap - 1 -> Byte] \X (1..ByteWrap)
  BY <1>2, Addresses DEF Restarted, NoMessage
<1>4. ProgTyped'
  BY <1>2, <1>3, Addresses, TypeParts DEF Restarted, ProgTyped, PC
<1> QED BY <1>1, <1>4, TypeParts DEF Restarted, NoMessage, FlagTyped

(* A page the host sends.                                                  *)
LEMMA MessageTyped ==
  ASSUME NEW c \in Content, NEW l \in Lengths
  PROVE  <<c, Count(l)>> \in [0..ByteWrap - 1 -> Byte] \X (1..ByteWrap)
BY UartUpdateAssumption, Addresses

(* Every step keeps the types.                                             *)
LEMMA TypeStep ==
  ASSUME TypeOK, [Next]_vars
  PROVE  TypeOK'
<1>0. SpmTyped /\ ProgTyped /\ FlagTyped
  BY TypeParts
<1> USE DEF PC
<1>1. CASE Watchdog \/ PowerCycle \/ AppResets
  <2>1. Restarted
    BY <1>1 DEF Watchdog, PowerCycle, AppResets
  <2>2. SpmTyped' /\ ProgTyped' /\ blocked' \in BOOLEAN /\ whole' \in BOOLEAN
    BY <2>1, RestartedTyped
  <2>3. FlagTyped'
    BY <1>0, <1>1, <2>2 DEF Watchdog, PowerCycle, AppResets, FlagTyped
  <2> QED BY <2>2, <2>3, TypePartsNext
<1>2. CASE JumpCheck \/ MainStarts \/ ReadsUdr \/ BlePolled \/ BusyWaited \/ DfuBegins
  <2>1. SpmTyped'
    BY <1>0, <1>2, SpmStepTyped DEF JumpCheck, MainStarts, ReadsUdr, BlePolled, BusyWaited,
       DfuBegins, NoFlash
  <2>2. ProgTyped'
    BY <1>0, <1>2, Addresses DEF JumpCheck, MainStarts, ReadsUdr, BlePolled, BusyWaited,
       DfuBegins, Rest, flagVars, progVars, watchdogConfig, ProgTyped
  <2>3. FlagTyped'
    BY <1>0, <1>2 DEF JumpCheck, MainStarts, ReadsUdr, BlePolled, BusyWaited,
       DfuBegins, Rest, flagVars, progVars, FlagTyped
  <2> QED BY <2>1, <2>2, <2>3, TypePartsNext
<1>3. CASE Enters \/ Constant \/ LoadAddress \/ ReadPage \/ Unknown \/ LeaveProgmode
  <2>1. SpmTyped'
    BY <1>0, <1>3, SpmStepTyped DEF Enters, Constant, LoadAddress, ReadPage, Unknown,
       LeaveProgmode, NoFlash
  <2>2. address' \in Address
    <3>1. CASE ReadPage
      <4>1. PICK l \in Lengths :
              address' = IF pc' = "get" THEN (address + Count(l)) % FlashSize ELSE address
        BY <3>1 DEF ReadPage
      <4>2. address \in Nat /\ Count(l) \in 1..ByteWrap
        BY <1>0, Addresses, UartUpdateAssumption DEF ProgTyped
      <4>3. \A n \in 1..ByteWrap : address + n \in Nat
        BY <4>2, Addresses
      <4> QED BY <1>0, <4>1, <4>2, <4>3, Addresses DEF ProgTyped
    <3>2. CASE ~ReadPage
      BY <1>0, <1>3, <3>2, UartUpdateAssumption DEF Enters, Constant, LoadAddress, Unknown,
         LeaveProgmode, progVars, ProgTyped
    <3> QED BY <3>1, <3>2
  <2>3. ProgTyped'
    BY <1>0, <1>3, <2>2 DEF Enters, Constant, LoadAddress, ReadPage, Unknown,
       LeaveProgmode, Rest, flagVars, progVars, verifySpace, watchdogConfig, ProgTyped
  <2>4. FlagTyped'
    BY <1>0, <1>3 DEF Enters, Constant, LoadAddress, ReadPage, Unknown,
       LeaveProgmode, Rest, flagVars, progVars, WritesFlag, FlagTyped
  <2> QED BY <2>1, <2>3, <2>4, TypePartsNext
<1>4. CASE ProgPage
  <2>1. SpmTyped'
    BY <1>0, <1>4, SpmStepTyped DEF ProgPage, NoFlash, ProgTyped
  <2>2. PICK c \in Content, l \in Lengths : message' = <<c, Count(l)>>
    BY <1>4 DEF ProgPage
  <2>3. message' \in [0..ByteWrap - 1 -> Byte] \X (1..ByteWrap)
    BY <2>2, MessageTyped
  <2>4. pages' \in 0..MaxPages
    BY <1>0, <1>4, UartUpdateAssumption DEF ProgPage, ProgTyped
  <2>5. ProgTyped'
    BY <1>0, <1>4, <2>3, <2>4 DEF ProgPage, ProgTyped
  <2>6. FlagTyped'
    BY <1>0, <1>4 DEF ProgPage, Touched, flagVars, FlagTyped
  <2> QED BY <2>1, <2>5, <2>6, TypePartsNext
<1>5. CASE PageArrives
  <2>1. SpmTyped'
    BY <1>0, <1>5, SpmStepTyped DEF PageArrives, NoFlash, ProgTyped
  <2> DEFINE New(i) == IF i < message[2] THEN message[1][i] ELSE buff[i]
  <2>2. \A i \in 0..PageSize - 1 : New(i) \in Byte
    <3>1. \A i \in 0..PageSize - 1 : i \in 0..ByteWrap - 1
      BY Addresses
    <3> QED BY <1>0, <3>1 DEF ProgTyped
  <2>3. buff' = [i \in 0..PageSize - 1 |-> New(i)]
    BY <1>5 DEF PageArrives
  <2> HIDE DEF New
  <2>4. buff' \in [0..PageSize - 1 -> Byte]
    BY <2>2, <2>3
  <2>5. ProgTyped'
    BY <1>0, <1>5, <2>4 DEF PageArrives, verifySpace, watchdogConfig, ProgTyped
  <2>6. FlagTyped'
    BY <1>0, <1>5 DEF PageArrives, Touched, Noted, flagVars, FlagTyped
  <2> QED BY <2>1, <2>5, <2>6, TypePartsNext
<1>6. CASE FillsWord
  <2>1. /\ (address + 2 * word) % FlashSize \in Address
        /\ buff[2 * word] \in Byte /\ buff[2 * word + 1] \in Byte
    <3>1. 2 * word \in 0..PageSize - 1 /\ 2 * word + 1 \in 0..PageSize - 1
      BY <1>0, Addresses DEF ProgTyped
    <3>2. address \in Nat /\ word \in Nat
      BY <1>0, Addresses DEF ProgTyped
    <3>3. address + 2 * word \in Nat
      BY <3>2
    <3> QED BY <1>0, <3>1, <3>3, Addresses DEF ProgTyped
  <2>2. SpmTyped'
    <3>1. \E a \in Address : \E low, high \in Byte : PageFill(a, low, high)
      BY <1>6, <2>1 DEF FillsWord
    <3> QED BY <1>0, <3>1, SpmStepTyped
  <2>3. word' \in Word
    BY <1>0, <1>6, Addresses DEF FillsWord, More, ProgTyped
  <2>4. ProgTyped'
    BY <1>0, <1>6, <2>3 DEF FillsWord, Rest, ProgTyped
  <2>5. FlagTyped'
    BY <1>0, <1>6 DEF FillsWord, Rest, Noted, flagVars, FlagTyped
  <2> QED BY <2>2, <2>4, <2>5, TypePartsNext
<1>7. CASE WritesPage
  <2>1. SpmTyped'
    BY <1>0, <1>7, SpmStepTyped DEF WritesPage, ProgTyped
  <2>2. ProgTyped'
    BY <1>0, <1>7 DEF WritesPage, ProgTyped
  <2>3. FlagTyped'
    BY <1>0, <1>7 DEF WritesPage, Touched, Noted, flagVars, FlagTyped
  <2> QED BY <2>1, <2>2, <2>3, TypePartsNext
<1>8. CASE PageDone
  <2>1. SpmTyped'
    BY <1>0, <1>8, SpmStepTyped DEF PageDone, Reopens
  <2>2. message' \in [0..ByteWrap - 1 -> Byte] \X (1..ByteWrap) /\ blocked' \in BOOLEAN
    <3>1. [i \in 0..ByteWrap - 1 |-> Old] \in [0..ByteWrap - 1 -> Byte]
      BY UartUpdateAssumption
    <3> QED BY <1>8, <3>1, Addresses DEF PageDone, NoMessage
  <2>3. ProgTyped'
    BY <1>0, <1>8, <2>2 DEF PageDone, Rest, ProgTyped
  <2>4. FlagTyped'
    BY <1>0, <1>8, <2>2 DEF PageDone, Rest, flagVars, FlagTyped
  <2> QED BY <2>1, <2>3, <2>4, TypePartsNext
<1>9. CASE SpmEnds \/ EepromEnds
  <2>1. SpmTyped'
    BY <1>0, <1>9, SpmStepTyped DEF SpmEnds, EepromEnds
  <2>2. ProgTyped'
    BY <1>0, <1>9 DEF SpmEnds, EepromEnds, progVars, flagVars, ProgTyped
  <2>3. FlagTyped'
    BY <1>0, <1>9 DEF SpmEnds, EepromEnds, EepromDone, progVars, flagVars, FlagTyped
  <2> QED BY <2>1, <2>2, <2>3, TypePartsNext
<1>10. CASE UNCHANGED vars
  BY <1>10 DEF vars, progVars, flagVars, TypeOK, SpmTypeOK
<1> QED
  BY <1>1, <1>2, <1>3, <1>4, <1>5, <1>6, <1>7, <1>8, <1>9, <1>10
     DEF Next, Receiving, Computing

(* Variables hold values of their types, for every size of flash and page.  *)
THEOREM UartTypeCorrect == Spec => []TypeOK
<1>1. Init => TypeOK
  <2> SUFFICES ASSUME Init PROVE TypeOK
    OBVIOUS
  <2>1. Old \in Byte /\ Blank \in Byte /\ MaxPages \in Nat
    BY UartUpdateAssumption, SpmAssumption
  <2>2. SpmTyped
    BY <2>1 DEF Init, SpmInit, BlankPage, SpmTyped
  <2>3. ProgTyped
    <3>1. /\ buff = [i \in 0..PageSize - 1 |-> Old]
          /\ message = <<[i \in 0..ByteWrap - 1 |-> Old], 1>>
          /\ pc = "reset" /\ wdt = "16ms" /\ ch = FALSE /\ dfu_mode = FALSE
          /\ address = 0 /\ word = 0 /\ pages = 0
      BY DEF Init
    <3>2. /\ buff \in [0..PageSize - 1 -> Byte]
          /\ [i \in 0..ByteWrap - 1 |-> Old] \in [0..ByteWrap - 1 -> Byte]
      BY <2>1, <3>1
    <3>3. message \in [0..ByteWrap - 1 -> Byte] \X (1..ByteWrap)
      BY <3>1, <3>2, Addresses
    <3>4. pc \in PC /\ address \in Address /\ word \in Word /\ pages \in 0..MaxPages
      <4>1. 0 \in Address /\ 0 \in Word /\ 0 \in 0..MaxPages
        BY <2>1, Addresses
      <4> QED BY <3>1, <4>1 DEF PC
    <3> QED BY <3>1, <3>2, <3>3, <3>4 DEF ProgTyped
  <2>4. FlagTyped
    BY DEF Init, SpmInit, FlagTyped
  <2> QED BY <2>2, <2>3, <2>4, TypeParts
<1>2. TypeOK /\ [Next]_vars => TypeOK'
  BY TypeStep
<1> QED BY <1>1, <1>2, PTL DEF Spec

-----------------------------------------------------------------------------
(* The links exclude each other because only the loop around ble_update     *)
(* sets dfu_mode, and does not end once it did.                            *)
THEOREM OneLinkAtATime == Spec => []OneLink
<1>1. Init => OneLink
  BY DEF Init, OneLink
<1>2. OneLink /\ [Next]_vars => OneLink'
  <2> SUFFICES ASSUME OneLink, [Next]_vars PROVE OneLink'
    OBVIOUS
  <2> USE DEF OneLink
  <2>1. CASE Receiving
    BY <2>1 DEF Receiving, Enters, Constant, LoadAddress, ReadPage, Unknown,
       LeaveProgmode, ProgPage, PageArrives, Receives, Rest
  <2>2. CASE Computing
    BY <2>2 DEF Computing, JumpCheck, MainStarts, ReadsUdr, BlePolled, BleLoopEnds,
       BusyWaited, FillsWord, WritesPage, PageDone, Rest
  <2>3. CASE DfuBegins \/ SpmEnds \/ EepromEnds
    BY <2>3 DEF DfuBegins, SpmEnds, EepromEnds
  <2>4. CASE Watchdog \/ PowerCycle \/ AppResets
    BY <2>4 DEF Watchdog, PowerCycle, AppResets, Restarted
  <2>5. CASE UNCHANGED vars
    BY <2>5 DEF vars
  <2> QED BY <2>1, <2>2, <2>3, <2>4, <2>5 DEF Next
<1> QED BY <1>1, <1>2, PTL DEF Spec

-----------------------------------------------------------------------------
(* Nothing of a page is left in the self-programming hardware.             *)
Idle == ~spm_busy /\ ~rww_busy /\ filled = {}

(* Why flash is readable between commands: a page is the only thing that    *)
(* occupies the hardware, and what a write to EEPROM could keep from being   *)
(* enabled again was kept from starting, as no such write begins while a     *)
(* page is in hand.                                                        *)
FlashInv ==
  /\ pc \notin {"data", "wait", "fill", "write", "written", "spin"} => Idle
  /\ eeprom_busy => Idle

(* With a write to EEPROM going on, the hardware stays as it is.           *)
LEMMA NotTakenIdle ==
  ASSUME eeprom_busy, Idle,
         \/ UNCHANGED spmVars
         \/ \E a \in Address : PageErase(a)
         \/ \E a \in Address : PageWrite(a)
         \/ \E a \in Address : \E low, high \in Byte : PageFill(a, low, high)
         \/ RwwEnable
  PROVE  Idle'
BY DEF Idle, Taken, PageErase, PageWrite, PageFill, RwwEnable, spmVars

(* A step keeps the invariant of the flash.                                *)
LEMMA FlashStep ==
  ASSUME TypeOK, FlashInv, [Next]_vars
  PROVE  FlashInv'
<1>0. /\ SpmTyped /\ address \in Address
      /\ eeprom_busy \in BOOLEAN /\ spm_busy \in BOOLEAN
  BY TypeParts DEF ProgTyped, FlagTyped, SpmTyped
<1>1. CASE Watchdog \/ PowerCycle \/ AppResets
  BY <1>1 DEF Watchdog, PowerCycle, AppResets, Restarted, SpmReset, BufferCleared, Idle,
     FlashInv
<1>2. CASE JumpCheck \/ MainStarts \/ ReadsUdr \/ BlePolled \/ DfuBegins
  BY <1>2 DEF JumpCheck, MainStarts, ReadsUdr, BlePolled, DfuBegins, NoFlash, Rest,
     spmVars, Idle, FlashInv
<1>3. CASE Enters \/ Constant \/ LoadAddress \/ ReadPage \/ Unknown \/ LeaveProgmode
  <2>1. pc \in {"sync", "get"} /\ UNCHANGED spmVars
    BY <1>3 DEF Enters, Constant, LoadAddress, ReadPage, Unknown, LeaveProgmode, Receives,
       NoFlash
  <2>2. Idle /\ Idle'
    BY <2>1 DEF spmVars, Idle, FlashInv
  <2> QED BY <2>2 DEF FlashInv
<1>4. CASE ProgPage
  <2>1. pc' = "data" /\ UNCHANGED eeprom_busy
    BY <1>4 DEF ProgPage
  <2>2. UNCHANGED spmVars \/ \E a \in Address : PageErase(a)
    BY <1>0, <1>4 DEF ProgPage, NoFlash
  <2>3. eeprom_busy => Idle'
    BY <2>2, NotTakenIdle DEF FlashInv
  <2> QED BY <2>1, <2>3 DEF FlashInv
<1>5. CASE PageArrives
  <2>1. pc' \in {"wait", "spin"} /\ UNCHANGED eeprom_busy
    BY <1>5 DEF PageArrives, verifySpace
  <2>2. UNCHANGED spmVars \/ \E a \in Address : PageErase(a)
    BY <1>0, <1>5 DEF PageArrives, NoFlash
  <2>3. eeprom_busy => Idle'
    BY <2>2, NotTakenIdle DEF FlashInv
  <2> QED BY <2>1, <2>3 DEF FlashInv
<1>6. CASE FillsWord
  <2>1. pc' \in {"fill", "write"} /\ UNCHANGED eeprom_busy
    BY <1>6 DEF FillsWord, Rest
  <2>2. eeprom_busy => Idle'
    BY <1>6 DEF FillsWord, PageFill, Taken, spmVars, Idle, FlashInv
  <2> QED BY <2>1, <2>2 DEF FlashInv
<1>7. CASE WritesPage
  <2>1. pc' = "written" /\ UNCHANGED eeprom_busy
    BY <1>7 DEF WritesPage
  <2>2. eeprom_busy => Idle'
    BY <1>0, <1>7, NotTakenIdle DEF WritesPage, FlashInv
  <2> QED BY <2>1, <2>2 DEF FlashInv
<1>8. CASE PageDone
  <2>1. ~spm_busy /\ RwwEnable /\ UNCHANGED eeprom_busy
    BY <1>8 DEF PageDone, SpmIdle, Reopens, Rest
  <2>2. CASE eeprom_busy
    <3>1. Idle'
      BY <2>1, <2>2, NotTakenIdle DEF FlashInv
    <3> QED BY <3>1 DEF FlashInv
  <2>3. CASE ~eeprom_busy
    <3>1. Idle'
      BY <2>1, <2>3 DEF RwwEnable, Taken, BufferCleared, Idle
    <3> QED BY <3>1 DEF FlashInv
  <2> QED BY <2>2, <2>3
<1>9. CASE BusyWaited
  BY <1>9 DEF BusyWaited, NoFlash, Rest, spmVars, Idle, FlashInv
<1>10. CASE SpmEnds \/ EepromEnds
  BY <1>10 DEF SpmEnds, SpmDone, EepromEnds, EepromDone, spmVars, Idle, FlashInv
<1>11. CASE UNCHANGED vars
  BY <1>11 DEF vars, Idle, FlashInv
<1> QED
  BY <1>1, <1>2, <1>3, <1>4, <1>5, <1>6, <1>7, <1>8, <1>9, <1>10, <1>11
     DEF Next, Receiving, Computing

(* READ_PAGE finds the whole flash readable and PROG_PAGE a blank page       *)
(* buffer, whatever pages, resets and writes to EEPROM came before           *)
(* (uart_update, boot.h).                                                  *)
THEOREM FlashReadable == Spec => []ReadableBetweenCommands
<1>1. Init => FlashInv
  BY DEF Init, SpmInit, Idle, FlashInv
<1>2. TypeOK /\ FlashInv /\ [Next]_vars => FlashInv'
  BY FlashStep
<1>3. FlashInv => ReadableBetweenCommands
  BY DEF FlashInv, Idle, ReadableBetweenCommands
<1> QED BY <1>1, <1>2, <1>3, UartTypeCorrect, PTL DEF Spec

-----------------------------------------------------------------------------
(* A command is in hand.                                                   *)
InSession == pc \in {"get", "data", "wait", "fill", "write", "written"}

(* Why a torn application runs only if it was declared valid: a session     *)
(* begins by clearing the flag, no page changes until that has reached       *)
(* EEPROM, because self-programming waits for nothing but is not taken       *)
(* before, and from then on a reset, or a loss of power, finds the flag      *)
(* cleared, or set by the host's declaration.                              *)
FlagInv ==
  /\ ~eeprom_busy => was_valid = valid_app
  /\ InSession /\ valid_app => declared
  /\ ~whole => (valid_app => declared) /\ (was_valid => declared)
  /\ pc = "app" => valid_app

(* A page changes only when no write to EEPROM goes on.                    *)
LEMMA TouchedTaken ==
  ASSUME \/ UNCHANGED spmVars
         \/ \E a \in Address : PageErase(a)
         \/ \E a \in Address : PageWrite(a),
         eeprom_busy
  PROVE  flash' = flash
BY DEF PageErase, PageWrite, Taken, spmVars

(* A step of a session that may change a page.                             *)
LEMMA PageStepKeepsFlag ==
  ASSUME TypeOK, FlagInv, InSession, Touched,
         \/ UNCHANGED spmVars
         \/ \E a \in Address : PageErase(a)
         \/ \E a \in Address : PageWrite(a),
         UNCHANGED flagVars, UNCHANGED eeprom_busy, pc' # "app"
  PROVE  FlagInv'
<1>1. /\ UNCHANGED <<valid_app, was_valid, declared>>
  BY DEF flagVars
<1>2. eeprom_busy \in BOOLEAN /\ whole \in BOOLEAN
  BY TypeParts DEF FlagTyped
<1>3. valid_app => declared
  BY DEF FlagInv
<1>4. ~whole' => (was_valid => declared)
  <2>1. CASE whole /\ ~whole'
    <3>1. ~eeprom_busy
      BY <2>1, TouchedTaken DEF Touched
    <3> QED BY <1>3, <3>1 DEF FlagInv
  <2>2. CASE ~whole
    BY <2>2 DEF FlagInv
  <2> QED BY <2>1, <2>2
<1> QED BY <1>1, <1>3, <1>4 DEF FlagInv

(* A step keeps the invariant of the flag.                                 *)
LEMMA FlagStep ==
  ASSUME TypeOK, FlagInv, [Next]_vars
  PROVE  FlagInv'
<1>0. /\ address \in Address /\ eeprom_busy \in BOOLEAN /\ whole \in BOOLEAN
      /\ valid_app \in BOOLEAN /\ was_valid \in BOOLEAN /\ declared \in BOOLEAN
  BY TypeParts DEF ProgTyped, FlagTyped
<1>1. CASE Watchdog \/ AppResets
  <2>1. /\ pc' = "reset"
        /\ UNCHANGED <<valid_app, was_valid, declared, eeprom_busy, whole>>
    BY <1>1 DEF Watchdog, AppResets, Restarted
  <2> QED BY <2>1 DEF FlagInv, InSession
<1>2. CASE PowerCycle
  <2>1. /\ pc' = "reset" /\ was_valid' = valid_app' /\ UNCHANGED <<declared, whole>>
        /\ valid_app' \in {valid_app, was_valid}
    BY <1>2 DEF PowerCycle, Restarted
  <2> QED BY <2>1 DEF FlagInv, InSession
<1>3. CASE JumpCheck
  <2>1. /\ UNCHANGED <<valid_app, was_valid, declared, whole, eeprom_busy>>
        /\ pc' = "start" \/ (pc' = "app" /\ valid_app)
    BY <1>3 DEF JumpCheck
  <2> QED BY <2>1 DEF FlagInv, InSession
<1>4. CASE MainStarts \/ ReadsUdr \/ BlePolled \/ DfuBegins
  <2>1. /\ UNCHANGED <<valid_app, was_valid, declared, whole, eeprom_busy>>
        /\ pc' \in {"main", "ble", "sync"}
    BY <1>4 DEF MainStarts, ReadsUdr, BlePolled, DfuBegins, Rest, flagVars
  <2> QED BY <2>1 DEF FlagInv, InSession
<1>5. CASE Enters
  <2>1. CASE pc' = "get"
    <3>1. /\ valid_app' = FALSE /\ was_valid' = valid_app /\ eeprom_busy' = TRUE
          /\ UNCHANGED <<declared, whole>>
      BY <1>5, <2>1 DEF Enters, WritesFlag
    <3> QED BY <2>1, <3>1 DEF FlagInv
  <2>2. CASE pc' # "get"
    <3>1. pc' = "spin" /\ UNCHANGED <<valid_app, was_valid, declared, whole, eeprom_busy>>
      BY <1>5, <2>2 DEF Enters, verifySpace
    <3> QED BY <3>1 DEF FlagInv, InSession
  <2> QED BY <2>1, <2>2
<1>6. CASE Unknown
  <2>1. /\ valid_app' = TRUE /\ was_valid' = valid_app /\ eeprom_busy' = TRUE
        /\ declared' = TRUE /\ pc' # "app"
    BY <1>6 DEF Unknown, WritesFlag, verifySpace
  <2> QED BY <2>1 DEF FlagInv
<1>7. CASE Constant \/ LoadAddress \/ ReadPage \/ BusyWaited \/ FillsWord \/ PageDone
  <2>1. /\ UNCHANGED <<valid_app, was_valid, declared, whole, eeprom_busy>>
        /\ InSession /\ pc' # "app"
    BY <1>7 DEF Constant, LoadAddress, ReadPage, BusyWaited, FillsWord, PageDone, Receives,
       verifySpace, Rest, flagVars, InSession
  <2> QED BY <2>1 DEF FlagInv
<1>8. CASE LeaveProgmode
  <2>1. /\ UNCHANGED <<valid_app, was_valid, declared, eeprom_busy>>
        /\ whole' = TRUE \/ whole' = whole
        /\ InSession /\ pc' # "app"
    BY <1>8 DEF LeaveProgmode, Receives, flagVars, InSession
  <2> QED BY <2>1 DEF FlagInv
<1>9. CASE ProgPage \/ PageArrives \/ WritesPage
  <2>1. /\ InSession /\ Touched /\ UNCHANGED <<flagVars, eeprom_busy>> /\ pc' # "app"
    BY <1>9 DEF ProgPage, PageArrives, WritesPage, Receives, verifySpace, InSession
  <2>2. \/ UNCHANGED spmVars
        \/ \E a \in Address : PageErase(a)
        \/ \E a \in Address : PageWrite(a)
    BY <1>0, <1>9 DEF ProgPage, PageArrives, WritesPage, NoFlash
  <2> QED BY <2>1, <2>2, PageStepKeepsFlag
<1>10. CASE SpmEnds
  <2>1. UNCHANGED <<pc, valid_app, was_valid, declared, whole, eeprom_busy>>
    BY <1>10 DEF SpmEnds, flagVars
  <2> QED BY <2>1 DEF FlagInv, InSession
<1>11. CASE EepromEnds
  <2>1. /\ was_valid' = valid_app /\ declared' = (declared /\ valid_app)
        /\ UNCHANGED <<pc, valid_app, whole>>
    BY <1>11 DEF EepromEnds
  <2> QED BY <1>0, <2>1 DEF FlagInv, InSession
<1>12. CASE UNCHANGED vars
  BY <1>12 DEF vars, flagVars, FlagInv, InSession
<1> QED
  BY <1>1, <1>2, <1>3, <1>4, <1>5, <1>6, <1>7, <1>8, <1>9, <1>10, <1>11, <1>12
     DEF Next, Receiving, Computing

(* A torn application is started only if the host declared it valid: not    *)
(* by a reset or a loss of power at any point of a session, the two writes   *)
(* of the flag to EEPROM included (uart_update, jump_app_key_clear,          *)
(* jump_check).                                                            *)
THEOREM TornOnlyIfDeclared == Spec => []TornRunsOnlyIfDeclared
<1>1. Init => FlagInv
  BY DEF Init, SpmInit, FlagInv, InSession
<1>2. TypeOK /\ FlagInv /\ [Next]_vars => FlagInv'
  BY FlagStep
<1>3. FlagInv => TornRunsOnlyIfDeclared
  BY DEF FlagInv, TornRunsOnlyIfDeclared
<1> QED BY <1>1, <1>2, <1>3, UartTypeCorrect, PTL DEF Spec
=============================================================================
