-------------------------------- MODULE Spm --------------------------------
(***************************************************************************)
(* Self-programming of the flash memory, as boot.h starts it: pages, the   *)
(* temporary page buffer, and the operations that go on while the program  *)
(* does.  The lower part of flash, the read-while-write section, cannot be *)
(* read from the start of an operation on it until it is enabled again;    *)
(* for the upper part the processor is halted until an operation is done.  *)
(* The control register does not take a command while another, or a write  *)
(* to EEPROM, is going on: the command has no effect.                      *)
(*                                                                         *)
(* An erase or a write takes its effect on flash when it begins: nothing   *)
(* can read the page before it is over.                                    *)
(***************************************************************************)
EXTENDS Integers

CONSTANTS PageSize,   \* SPM_PAGESIZE, in bytes
          FlashSize,  \* and of the flash, in bytes
          NRWWSTART,  \* the first address that is not read-while-write
          Byte,       \* what a byte can hold
          Blank       \* an erased byte, 0xFF

ASSUME SpmAssumption ==
  /\ PageSize \in Nat /\ PageSize >= 2 /\ PageSize % 2 = 0
  /\ FlashSize \in Nat \ {0} /\ FlashSize % PageSize = 0
  /\ NRWWSTART \in 0..FlashSize
  /\ Blank \in Byte

VARIABLES
  flash,        \* by address
  page_buff,    \* the temporary page buffer
  filled,       \* the words of it that were written
  spm_busy,     \* an erase or a write of a read-while-write page goes on
  rww_busy,     \* the read-while-write section cannot be read
  eeprom_busy   \* a write to EEPROM goes on

spmVars == <<flash, page_buff, filled, spm_busy, rww_busy>>

-----------------------------------------------------------------------------
Address == 0..FlashSize - 1
Word == 0..(PageSize \div 2) - 1

(* The page of an address, and the word of its page: the low bits of Z.    *)
PageOf(a) == a \div PageSize
WordOf(a) == (a % PageSize) \div 2
Rww(a) == a < NRWWSTART

BlankPage == [i \in 0..PageSize - 1 |-> Blank]

(* The control register takes a command.                                   *)
Taken == ~spm_busy /\ ~eeprom_busy

(* An operation on the page of a has begun.                                *)
Begun(a) == /\ spm_busy' = Rww(a)
            /\ rww_busy' = (rww_busy \/ Rww(a))

PageErase(a) ==
  IF Taken
    THEN /\ flash' = [b \in Address |-> IF PageOf(b) = PageOf(a) THEN Blank
                                                                  ELSE flash[b]]
         /\ Begun(a)
         /\ UNCHANGED <<page_buff, filled>>
    ELSE UNCHANGED spmVars

(* A word is written to the buffer once; to write it again has no effect.  *)
PageFill(a, low, high) ==
  IF Taken /\ WordOf(a) \notin filled
    THEN /\ page_buff' = [i \in 0..PageSize - 1 |->
                            IF i = 2 * WordOf(a) THEN low
                            ELSE IF i = 2 * WordOf(a) + 1 THEN high
                            ELSE page_buff[i]]
         /\ filled' = filled \cup {WordOf(a)}
         /\ UNCHANGED <<flash, spm_busy, rww_busy>>
    ELSE UNCHANGED spmVars

BufferCleared == page_buff' = BlankPage /\ filled' = {}

(* A page that is not blank keeps what a blank byte is written over, and is *)
(* spoilt by any other: Spoilt of the two bytes.                            *)
Spoilt(old, new) == IF new = Blank THEN old ELSE IF old = Blank THEN new
                                                 ELSE CHOOSE b \in Byte \ {new} : TRUE

(* The buffer is written to the page and is blank afterwards.              *)
PageWrite(a) ==
  IF Taken
    THEN /\ flash' = [b \in Address |->
                        IF PageOf(b) = PageOf(a)
                          THEN Spoilt(flash[b], page_buff[b % PageSize])
                          ELSE flash[b]]
         /\ BufferCleared
         /\ Begun(a)
    ELSE UNCHANGED spmVars

RwwEnable ==
  IF Taken
    THEN /\ rww_busy' = FALSE
         /\ BufferCleared
         /\ UNCHANGED <<flash, spm_busy>>
    ELSE UNCHANGED spmVars

(* boot_spm_busy_wait is passed.                                           *)
SpmIdle == ~spm_busy

(* What ends by itself (external).                                         *)
SpmDone == /\ spm_busy
           /\ spm_busy' = FALSE
           /\ UNCHANGED <<flash, page_buff, filled, rww_busy>>

EepromDone == eeprom_busy /\ eeprom_busy' = FALSE

(* A reset ends a command and clears the register and the buffer.          *)
SpmReset == /\ spm_busy' = FALSE
            /\ rww_busy' = FALSE
            /\ BufferCleared
            /\ UNCHANGED flash

(* Whatever is in flash.                                                   *)
SpmInit == /\ page_buff = BlankPage
           /\ filled = {}
           /\ spm_busy = FALSE
           /\ rww_busy = FALSE
           /\ eeprom_busy = FALSE

(* The variables hold values of their types.                               *)
SpmTypeOK == /\ flash \in [Address -> Byte]
             /\ page_buff \in [0..PageSize - 1 -> Byte]
             /\ filled \subseteq Word
             /\ spm_busy \in BOOLEAN
             /\ rww_busy \in BOOLEAN
             /\ eeprom_busy \in BOOLEAN
=============================================================================
