----------------------------- MODULE UartUpdate -----------------------------
(***************************************************************************)
(* Firmware update over the UART (optiboot.c): the choice main makes       *)
(* between the two links, uart_update with every STK500 command it knows,  *)
(* getch, putch and verifySpace, and the self-programming of flash         *)
(* (Spm.tla) with its waits; around it jump_check, the watchdog, power     *)
(* losses, and a host that sends any commands in any order, out of step    *)
(* and with framing errors.                                                *)
(*                                                                         *)
(* Two pieces of history are kept: what the host sent for the page in hand,*)
(* and how much it has declared.                                           *)
(***************************************************************************)
EXTENDS Spm

CONSTANTS Content,     \* the firmware pages the host may send
          Lengths,     \* the length bytes it may send with them
          ByteWrap,    \* 256: length is a uint8_t
          Old,         \* the bytes of the application in flash at first
          StackBytes,  \* what address may hold before it is assigned
          MaxPages     \* bound: pages the host sends

Count(length) == IF length = 0 THEN ByteWrap ELSE length

ASSUME UartUpdateAssumption ==
  /\ ByteWrap \in Nat /\ PageSize <= ByteWrap
  /\ Content \subseteq [0..ByteWrap - 1 -> Byte]
  /\ Content # {}
  /\ Lengths \subseteq 0..ByteWrap - 1
  /\ Old \in Byte
  /\ StackBytes \subseteq Address /\ StackBytes # {}
  /\ MaxPages \in Nat

VARIABLES
  pc,         \* where the program is, see PC
  wdt,        \* the period of the watchdog
  ch,         \* what main read from UART_UDR is STK_GET_SYNC
  dfu_mode,
  address, buff,
  word,       \* the next word of the page to be put into the page buffer
  pages,      \* how many pages the host has begun to send
  wdrf, boot_key, valid_app,
  was_valid,  \* valid_app before the write to EEPROM that goes on
  message,    \* history: the page and the count of bytes the host sent
  blocked,    \* history: a self-programming command for it was not taken
  whole,      \* history: no page was touched since the host said it is done
  declared    \* history: the host's last word on the flag, after a completed
              \*   clearing of it, declared the application valid

progVars == <<address, buff, word, message, blocked, pages>>
flagVars == <<wdrf, boot_key, valid_app, was_valid, declared>>
vars == <<flash, page_buff, filled, spm_busy, rww_busy, eeprom_busy, pc, wdt,
          ch, dfu_mode, progVars, flagVars, whole>>

(* "get" and what follows is uart_update; "get" waits for a command.       *)
PC == {"reset", "app", "start", "main", "ble", "sync", "get", "data", "wait",
       "fill", "write", "written", "enable", "spin"}

Init ==
  /\ SpmInit
  /\ flash = [a \in Address |-> Old]
  /\ pc = "reset"
  /\ wdt = "16ms"
  /\ ch = FALSE
  /\ dfu_mode = FALSE
  /\ address = 0
  /\ word = 0
  /\ buff = [i \in 0..PageSize - 1 |-> Old]
  /\ wdrf = FALSE /\ boot_key \in BOOLEAN /\ valid_app = TRUE /\ was_valid = TRUE
  /\ message = <<[i \in 0..ByteWrap - 1 |-> Old], 1>>
  /\ blocked = FALSE
  /\ pages = 0
  /\ whole = TRUE
  /\ declared = FALSE

-----------------------------------------------------------------------------
(* Resets, and what comes before uart_update.                              *)
NoMessage == message' = <<[i \in 0..ByteWrap - 1 |-> Old], 1>> /\ blocked' = FALSE

Restarted ==
  /\ SpmReset
  /\ pc' = "reset"
  /\ wdt' = "16ms"
  /\ ch' = FALSE
  /\ dfu_mode' = FALSE
  /\ address' = 0
  /\ word' = 0
  /\ buff' = [i \in 0..PageSize - 1 |-> Old]
  /\ NoMessage
  /\ UNCHANGED <<whole, pages>>

(* Start-up, up to where main sets the watchdog and the boot key, is far    *)
(* shorter than the watchdog's period.                                     *)
InBootloader == pc \notin {"reset", "app", "start"}

(* A reset does not stop a write to EEPROM.                                *)
Watchdog ==
  /\ InBootloader
  /\ Restarted
  /\ wdrf' = TRUE
  /\ UNCHANGED <<boot_key, valid_app, was_valid, declared, eeprom_busy>>

(* A loss of power does: the flag is the one before or the one after.      *)
PowerCycle ==
  /\ Restarted
  /\ wdrf' = FALSE
  /\ boot_key' \in BOOLEAN
  /\ valid_app' \in {valid_app, was_valid}
  /\ was_valid' = valid_app'
  /\ eeprom_busy' = FALSE
  /\ UNCHANGED declared

(* The application resets through the watchdog, its own key not set.       *)
AppResets ==
  /\ pc = "app"
  /\ Restarted
  /\ wdrf' = TRUE
  /\ boot_key' = FALSE
  /\ UNCHANGED <<valid_app, was_valid, declared, eeprom_busy>>

(* jump_check.                                                             *)
JumpCheck ==
  /\ pc = "reset"
  /\ IF wdrf /\ boot_key /\ valid_app
       THEN pc' = "app" /\ wdrf' = FALSE /\ boot_key' = FALSE /\ wdt' = "off"
       ELSE pc' = "start" /\ UNCHANGED <<wdrf, boot_key, wdt>>
  /\ UNCHANGED <<spmVars, eeprom_busy, ch, dfu_mode, progVars,
                 valid_app, was_valid, declared, whole>>

watchdogConfig(period) == wdt' = period

(* What most steps of the program leave alone.                             *)
Rest == UNCHANGED <<eeprom_busy, dfu_mode, flagVars, whole>>
NoFlash == UNCHANGED spmVars

(* main up to its loop.  Mutation: without jump_boot_key_set.              *)
MainStartsWithoutKey ==
  /\ pc = "start"
  /\ watchdogConfig("4s")
  /\ pc' = "main"
  /\ NoFlash
  /\ Rest
  /\ UNCHANGED <<ch, progVars>>

MainStarts ==
  /\ pc = "start"
  /\ watchdogConfig("4s")
  /\ boot_key' = TRUE
  /\ pc' = "main"
  /\ NoFlash
  /\ UNCHANGED <<eeprom_busy, ch, dfu_mode, progVars, wdrf, valid_app,
                 was_valid, declared, whole>>

(* The loop reads the UART without waiting, then lets ble_update run; only  *)
(* afterwards does it look at what it read.                                 *)
ReadsUdr ==
  /\ pc = "main"
  /\ ch' \in BOOLEAN
  /\ pc' = "ble"
  /\ NoFlash
  /\ Rest
  /\ UNCHANGED <<wdt, progVars>>

(* A packet on a DFU pipe; what the procedure does is in Dfu.tla.          *)
DfuBegins ==
  /\ pc = "ble"
  /\ ~dfu_mode
  /\ dfu_mode' = TRUE
  /\ NoFlash
  /\ UNCHANGED <<eeprom_busy, pc, wdt, ch, progVars, flagVars, whole>>

(* Mutation: ble_update runs once, whatever it found.                      *)
BleLoopEndsAlways == TRUE

BleLoopEnds == ~dfu_mode

BlePolled ==
  /\ pc = "ble"
  /\ BleLoopEnds
  /\ pc' = IF ch THEN "sync" ELSE "main"
  /\ NoFlash
  /\ Rest
  /\ UNCHANGED <<wdt, ch, progVars>>

-----------------------------------------------------------------------------
(* Characters.                                                             *)

(* getch.  The host may send anything, or garble it: a character with a     *)
(* framing error is passed on all the same, only the watchdog is not kicked.*)
getch == pc \in {"sync", "get", "data"}

(* verifySpace: a command that does not end as it should ends the session;  *)
(* else the host is told that it is in step, and the program goes on.       *)
verifySpace(next) ==
  \/ /\ pc' = next
     /\ UNCHANGED wdt
  \/ /\ pc' = "spin"
     /\ watchdogConfig("16ms")

(* eeprom_write_byte to the application flag, for which the write before    *)
(* must be over.                                                            *)
WritesFlag(value) == /\ valid_app' = value
                     /\ was_valid' = valid_app
                     /\ eeprom_busy' = TRUE

(* Mutation: the flag is left as it is.                                    *)
EntersWithFlag ==
  /\ pc = "sync"
  /\ getch
  /\ verifySpace("get")
  /\ ch' = FALSE
  /\ address' \in StackBytes
  /\ NoFlash
  /\ Rest
  /\ UNCHANGED <<buff, word, message, blocked, pages>>

(* main's verifySpace and the entry of uart_update: jump_app_key_clear, for *)
(* which a write to EEPROM must be over.  address holds anything.           *)
Enters ==
  /\ pc = "sync"
  /\ ~eeprom_busy
  /\ getch
  /\ verifySpace("get")
  /\ ch' = FALSE
  /\ address' \in StackBytes
  /\ IF pc' = "get" THEN WritesFlag(FALSE)
                    ELSE UNCHANGED <<valid_app, was_valid, eeprom_busy>>
  /\ NoFlash
  /\ UNCHANGED <<dfu_mode, buff, word, message, blocked, pages, wdrf, boot_key,
                 declared, whole>>

EepromEnds ==
  /\ EepromDone
  /\ was_valid' = valid_app
  /\ declared' = (declared /\ valid_app)
  /\ UNCHANGED <<spmVars, pc, wdt, ch, dfu_mode, progVars, wdrf, boot_key,
                 valid_app, whole>>

-----------------------------------------------------------------------------
(* The commands.                                                           *)
Receives == pc = "get" /\ getch

(* GET_PARAMETER, SET_DEVICE, SET_DEVICE_EXT, UNIVERSAL and READ_SIGN: the  *)
(* answer does not depend on the state.                                     *)
Constant ==
  /\ Receives
  /\ verifySpace("get")
  /\ NoFlash
  /\ Rest
  /\ UNCHANGED <<ch, progVars>>

LoadAddress ==
  /\ Receives
  /\ \E newAddress \in Address :
       /\ newAddress % 2 = 0
       /\ address' = newAddress
  /\ verifySpace("get")
  /\ NoFlash
  /\ Rest
  /\ UNCHANGED <<ch, buff, word, message, blocked, pages>>

(* READ_PAGE, which moves address on; the bits of it beyond the flash are   *)
(* not looked at.                                                           *)
ReadPage ==
  /\ Receives
  /\ verifySpace("get")
  /\ \E l \in Lengths :
       address' = IF pc' = "get" THEN (address + Count(l)) % FlashSize ELSE address
  /\ NoFlash
  /\ Rest
  /\ UNCHANGED <<ch, buff, word, message, blocked, pages>>

(* Any command uart_update does not know, STK_GET_SYNC among them:          *)
(* jump_app_key_set.                                                        *)
Unknown ==
  /\ Receives
  /\ ~eeprom_busy
  /\ verifySpace("get")
  /\ WritesFlag(TRUE)
  /\ declared' = TRUE
  /\ NoFlash
  /\ UNCHANGED <<dfu_mode, ch, progVars, wdrf, boot_key, whole>>

(* LEAVE_PROGMODE: the watchdog's period is cut short in any case.         *)
LeaveProgmode ==
  /\ Receives
  /\ watchdogConfig("16ms")
  /\ \/ pc' = "get" /\ whole' = TRUE
     \/ pc' = "spin" /\ UNCHANGED whole
  /\ NoFlash
  /\ UNCHANGED <<eeprom_busy, dfu_mode, ch, progVars, flagVars>>

(* A page changes: the application is not the host's whole one any more.   *)
Touched == whole' = (whole /\ flash' = flash)

(* PROG_PAGE: the header; a page below NRWWSTART is erased while the bytes  *)
(* of it arrive.                                                            *)
ProgPage ==
  /\ Receives
  /\ pages < MaxPages
  /\ pages' = pages + 1
  /\ \E c \in Content, l \in Lengths : message' = <<c, Count(l)>>
  /\ IF Rww(address)
       THEN PageErase(address) /\ blocked' = eeprom_busy
       ELSE NoFlash /\ blocked' = FALSE
  /\ Touched
  /\ pc' = "data"
  /\ UNCHANGED <<eeprom_busy, dfu_mode, flagVars, wdt, ch, address, buff, word>>

Noted == blocked' = (blocked \/ eeprom_busy)

(* The bytes arrive, over those of the page before; those beyond a page are  *)
(* not used.  A page from NRWWSTART on is erased now.                       *)
PageArrives ==
  /\ pc = "data"
  /\ getch
  /\ buff' = [i \in 0..PageSize - 1 |->
                IF i < message[2] THEN message[1][i] ELSE buff[i]]
  /\ IF Rww(address) THEN NoFlash /\ UNCHANGED blocked
                     ELSE PageErase(address) /\ Noted
  /\ Touched
  /\ verifySpace("wait")
  /\ UNCHANGED <<eeprom_busy, dfu_mode, flagVars, ch, address, word, message, pages>>

(* Mutation: the page is filled while it may still be erasing.             *)
MayFillAtOnce == TRUE

(* boot_spm_busy_wait before the buffer is filled.                         *)
MayFill == SpmIdle

BusyWaited ==
  /\ pc = "wait"
  /\ MayFill
  /\ pc' = "fill"
  /\ word' = 0
  /\ NoFlash
  /\ Rest
  /\ UNCHANGED <<wdt, ch, address, buff, message, blocked, pages>>

(* Mutation: one word more than a page has.                                *)
MoreThanAll(w) == w \in Word

(* The page has words after w.                                             *)
More(w) == w + 1 \in Word

(* The buffer is filled word by word, from buff and from the word of        *)
(* address on.                                                              *)
FillsWord ==
  /\ pc = "fill"
  /\ PageFill((address + 2 * word) % FlashSize, buff[2 * word], buff[2 * word + 1])
  /\ Noted
  /\ word' = IF More(word) THEN word + 1 ELSE 0
  /\ pc' = IF More(word) THEN "fill" ELSE "write"
  /\ Rest
  /\ UNCHANGED <<wdt, ch, address, buff, message, pages>>

WritesPage ==
  /\ pc = "write"
  /\ PageWrite(address)
  /\ Noted
  /\ Touched
  /\ pc' = "written"
  /\ UNCHANGED <<eeprom_busy, dfu_mode, flagVars, wdt, ch, address, buff, word, message,
                 pages>>

(* Mutation: the read-while-write section stays closed.                    *)
ReopensNot == UNCHANGED spmVars

Reopens == RwwEnable

(* The wait after the write, boot_rww_enable and the answer.               *)
PageDone ==
  /\ pc = "written"
  /\ SpmIdle
  /\ Reopens
  /\ pc' = "get"
  /\ NoMessage
  /\ Rest
  /\ UNCHANGED <<wdt, ch, address, buff, word, pages>>

-----------------------------------------------------------------------------
Receiving == Enters \/ Constant \/ LoadAddress \/ ReadPage \/ Unknown
               \/ LeaveProgmode \/ ProgPage \/ PageArrives

Computing == JumpCheck \/ MainStarts \/ ReadsUdr \/ BlePolled \/ BusyWaited
               \/ FillsWord \/ WritesPage \/ PageDone

SpmEnds == /\ SpmDone
           /\ UNCHANGED <<eeprom_busy, pc, wdt, ch, dfu_mode, progVars,
                          flagVars, whole>>

Next == \/ Receiving \/ Computing \/ DfuBegins
        \/ SpmEnds \/ EepromEnds
        \/ Watchdog \/ PowerCycle \/ AppResets

Spec == Init /\ [][Next]_vars

(* The program runs, what the hardware began it ends, and a watchdog that   *)
(* nobody kicks fires.                                                      *)
FairSpec == Spec /\ WF_vars(Computing) /\ WF_vars(SpmEnds) /\ WF_vars(EepromEnds)
                 /\ WF_vars(Watchdog)

-----------------------------------------------------------------------------
(* The variables hold values of their types.                               *)
TypeOK ==
  /\ SpmTypeOK
  /\ pc \in PC
  /\ wdt \in {"16ms", "4s", "off"}
  /\ ch \in BOOLEAN /\ dfu_mode \in BOOLEAN
  /\ address \in Address
  /\ buff \in [0..PageSize - 1 -> Byte]
  /\ word \in Word /\ pages \in 0..MaxPages
  /\ wdrf \in BOOLEAN /\ boot_key \in BOOLEAN
  /\ valid_app \in BOOLEAN /\ was_valid \in BOOLEAN
  /\ message \in [0..ByteWrap - 1 -> Byte] \X (1..ByteWrap)
  /\ blocked \in BOOLEAN /\ whole \in BOOLEAN /\ declared \in BOOLEAN

(* The bytes of the page the host sent, where they belong: from the word of *)
(* address on, round the page.  What it sent beyond a page, as a length of   *)
(* 0 makes it do where a page is shorter than 256 bytes, is dropped.        *)
HoldsMessage ==
  \A i \in 0..PageSize - 1 : i < message[2] =>
    flash[PageOf(address) * PageSize + ((2 * WordOf(address) + i) % PageSize)]
      = message[1][i]

(* A page the host is told is programmed holds what it sent, however long   *)
(* an erase takes, whatever the pages before left behind and wherever in a  *)
(* page address points, unless a write to EEPROM was still going on when    *)
(* the page was erased or filled (uart_update, boot.h).                     *)
AcknowledgedPageHolds ==
  [][pc = "written" /\ pc' = "get" /\ ~blocked /\ ~eeprom_busy => HoldsMessage]_vars

(* READ_PAGE, which may be the next command at any time, finds the whole    *)
(* flash readable, and the page buffer is blank for the next page           *)
(* (uart_update, boot.h).                                                   *)
ReadableBetweenCommands ==
  pc = "get" => ~spm_busy /\ ~rww_busy /\ filled = {}

(* The device runs an application of which a page was touched by a session  *)
(* that did not come to its end only if the host declared it valid, by any  *)
(* command uart_update does not know, after the flag was cleared: neither a *)
(* reset nor a loss of power at any point, the writes to EEPROM included,   *)
(* does it (uart_update, jump_app_key_clear, jump_check).                   *)
TornRunsOnlyIfDeclared == pc = "app" /\ ~whole => declared

(* Once a packet of a firmware transfer was seen on the BLE link, no        *)
(* character read from the UART, before it or after, starts a session there *)
(* (main).                                                                  *)
OneLink == dfu_mode => pc = "ble"

(* A host that leaves programming mode with the flag set gets the           *)
(* application started, if it then keeps quiet and power comes to stay; no   *)
(* order of resets on the way prevents it, unless one of them catches the    *)
(* flag being written, or the host begins anew (uart_update, main,          *)
(* jump_check).                                                             *)
HostQuiet == <>[][~Receiving]_vars
PowerStays == <>[][~PowerCycle]_vars
Left == pc = "get" /\ wdt = "16ms" /\ valid_app

LeaveRunsApplication ==
  HostQuiet /\ PowerStays => (Left ~> pc = "app" \/ ~valid_app)
=============================================================================
