# ble-optiboot in TLA+

ble-optiboot is a bootloader for AVR boards with an nRF8001 Bluetooth Low
Energy radio. After a reset it decides whether to start the application or to
stay; while it stays it takes a new application over the radio or over the
UART, writes it to flash page by page, and leaves by a watchdog reset. This
directory holds TLA+ models of it, the TLC runs that check them, and proofs
checked by TLAPS. Paths below are relative to the repository.

## The system

| Part | Source | State it keeps | Operations |
|---|---|---|---|
| Boot decision | `jump.c`, `jump.h` | `boot_key` in memory no reset clears, the application flag in EEPROM, `MCUSR.WDRF` | `jump_check`, set and clear of key and flag |
| Main loop, event dispatch | `optiboot.c` `main`, `ble_update` | `dfu_mode`, `aci_state` (pipes, credits), watchdog period | start-up, one radio event per turn |
| DFU procedure | `BLE/dfu.c` | `m_dfu_state`, counts, page address, page buffer, notification counters | `dfu_update` and its eight handlers |
| ACI library | `BLE/lib_aci.c` | pipe bitmaps, credits, both shared with the dispatcher and the DFU procedure | init, reset, connect, disconnect, send data, get event |
| ACI transport | `BLE/hal_aci_tl.c` | command and event queue, the lines REQN and RDYN | send, event check, SPI transfer |
| Message queue | `BLE/aci_queue.c` | `head`, `tail`, two slots | init, enqueue, dequeue, is empty, is full |
| Bond restore | `BLE/bonding.c` | a message counter, an EEPROM address | one blocking loop inside DEVICE_STARTED |
| UART update | `optiboot.c` `uart_update` | `address`, page buffer, the application flag | the STK500 commands |
| UART and LED I/O, pin tables, SPM macros | `optiboot.c`, `BLE/pins_arduino.c`, `boot.h` | registers | |

How they interact. There are no interrupts and no threads: `main` calls
`ble_update` in a loop, which takes one event through `lib_aci_event_get` and
`hal_aci_tl_event_get` and handles it to the end. Answers go the other way as
commands in the transmit queue; they reach the radio one by one, each time
`ble_update` polls again. What makes the system hard is around it: the radio
and the central run on their own, the radio is not reset together with the
processor, and the processor may be reset by the watchdog, the power supply or
a button between any two steps. Three cells of different lifetimes decide what
runs next.

What makes each part correct:

- the queue is a bounded FIFO, and a refused message leaves it alone;
- the DFU procedure puts every byte of the stream in its place, touches nothing
  else, tells the central the truth, and loses no credit;
- the boot decision starts only a complete application, and starts it in the
  end;
- the dispatcher keeps the radio advertising as long as the bootloader runs, and
  never stops for good;
- the transport delivers each command and event once, in order, and never
  waits for the radio while the radio waits for it;
- the UART update programs what it was sent where it was told to, and the flag
  says so only afterwards.

`PROJECT.json` lists the hazards line by line.

## Modules

- **BoundedFifo** - the abstract queue: messages are accepted at one end while
  there is room and delivered at the other.
- **AciQueue** - `aci_queue.c`. `head` and `tail` are counters modulo `Wrap`
  (256); `is_full` compares without wrapping, as C promotes to int; a message
  is its payload, and a slot keeps what an earlier, longer message left behind,
  as the `memcpy` of `length + 1` bytes does. `Spec` has any caller,
  `CarefulSpec` one that does not enqueue in the one situation where the full
  test fails (`FullAcrossWrap`).
- **QueueSend** - what a send leaves in the command queue, as far as its callers
  can tell, for the modules that do not keep the counters: a message goes behind
  the others while there is room; a full queue refuses it, or takes it over the
  oldest, as it does when its counters straddle the wrap (`Overrun`).
- **Dfu** - `dfu.c`. An action is one call of `dfu_update`; a firmware packet is
  handled in steps, `DataPacket`, one `StoreByte` per byte, `PacketDone`. The
  flash is an array of cells, each a byte of firmware (a number), or blank,
  zero, old or mixed; erase and program work on the page that contains an
  address, and programming without an erase mixes. The transmit queue is that of
  QueueSend; `CarefulSpec` leaves out the steps that send into a full queue and
  are not refused. The page index is a byte (`IndexWrap`), so a page must be
  smaller than 256 bytes. The central is arbitrary: any packet or opcode in any
  state. In `Spec` the k-th byte of the stream is the number k.
- **Firmware** - what the owner of a device is promised: at most one complete
  application installed, only that one running, none installed in between.
- **Bootloader** - the composition: `jump_check`, `main`, `ble_update`, an
  instance of Dfu, the radio as two queues and a link state, and a central. A
  byte of the image of version v is `v * Stride + p`, so flash shows whose
  bytes it holds. External parts are marked so in `PROJECT.json`: the radio
  (it survives a processor reset; a power loss restarts it; RadioReset drops
  the link), the application (it resets by itself or hands over), and the
  central, which follows `performValidTest` of
  `tests/system_tests/test_ble/memu/memu_OTA_DFU_base.py`: size packet,
  optionally an init packet, RECEIVE_FW, the firmware, VALIDATE, ACTIVATE, each
  opcode that has one after the answer to the message before. It gives up on an
  answer it did not expect, may send SYS_RESET at any point, may vanish and
  come back with another version. `misled` remembers that a central once went on
  in reply to an answer while the bootloader lagged behind (`LagsBehind`: it had
  still to handle, or to answer with a Connect, a notice of before the
  connection). Memory is cleared at a reset
  rather than in start-up code, which nothing can observe. Data for BLE is
  assumed to be in EEPROM (`valid_ble == 1`), and credits are left to Dfu.
- **AciChannel** - what the transport promises: two first-in first-out
  channels, the one for commands bounded.
- **HalAciTl** - `hal_aci_tl.c`: the two queues (that of the commands as in
  QueueSend), REQN, RDYN and the transfer. A message is a value with a length; a
  command that is too long is refused (`Fits`), `MaxBytes` computes how often the
  byte loop turns and a message of which not all bytes were clocked arrives as
  `Cut`. `HalSpec` allows any processor and any radio, `HalCarefulSpec` any
  processor for which the queue never takes a command over its oldest.
- **Layouts** - data without control: the structures of `aci.h`, `aci_cmds.h`
  and `aci_evts.h`, the offsets and lengths of `aci_protocol_defines.h` and
  `acilib.h`, the EEPROM record and the pins. That they agree is stated as
  assumptions, which TLC evaluates whenever it checks AciLink. A structure's
  offset is the sum of the sizes before it; a header's is the number it gives.
- **AciLink** - `ble_update`, `lib_aci.c` and `bonding.c` over HalAciTl, with a
  radio and a central. One action per event that `ble_update` handles; the two
  loops of `bond_data_restore` are the program counters "bond" and "waiting",
  those of `dfu_image_activate` and `dfu_reset` "activate" and "stuck". What
  `dfu_update` does with a packet is reduced to the messages it may send, at most
  two for the packet that completes an image and one for any other, and to the
  application flag, which RECEIVE_FW clears and ACTIVATE sets. The
  radio restarts by a RadioReset command only; the processor may be reset at
  any time, and `jump_check` then starts the application ("app", where the model
  ends) if the flag is set and the key is. The key is not kept: up to where
  `main` sets it, it may be set or not. EEPROM holds a bond of `Chunks` messages and a status byte that
  need not agree with it.
- **Spm** - self-programming as the macros of `boot.h` start it: pages, the page
  buffer, the read-while-write section, and the condition under which the
  hardware takes a command.
- **UartUpdate**, **MCUartUpdate** - `uart_update` over Spm with `main`'s choice
  between the links, `jump_check`, the watchdog, power losses and a host that
  sends anything. `getch` and `verifySpace` are what they do to the session and
  the watchdog. A write of the flag to EEPROM takes time: the module keeps the
  value before it, which a loss of power may bring back. `address` starts with
  whatever was on the stack; a length of 0 means `ByteWrap` bytes. BLE is
  reduced to the moment `dfu_mode` is set.
- **AciQueueProofs**, **DfuProofs**, **DfuCreditProofs**, **BootloaderProofs**,
  **HalAciTlProofs**, **AciLinkProofs**, **UartUpdateProofs**,
  **UartPageProofs** - the theorems.

Operators whose comment begins with "Mutation" are not part of the models: each
is a definition with a plausible bug in it, with which the property it is meant
for fails.

## Runs

| Run | Checks | Shows |
|---|---|---|
| `aci_queue` | TypeOK, NeverOverfilled, IsBoundedFifo | with `ACI_QUEUE_SIZE` 2 and counters taken through their wrap, the queue implements BoundedFifo under a careful caller |
| `aci_queue_wrap` | FalseWhenNoSpace | violated: a full queue with `head` 254 accepts a message over the oldest |
| `dfu` | TypeOK, StreamFaithful, NothingBeyond, CreditConservation, SuccessMeansImage | the assembly of pages, reports and credits under an arbitrary central |
| `dfu_credit` | CreditChecked | violated: responses are sent without credit and the counter wraps |
| `dfu_final_page` | FinalPageOfImage | violated: an image of whole pages has a page behind it programmed |
| `dfu_activate` | FlagMeansVerified | violated: VALIDATE and ACTIVATE make an incomplete image valid |
| `bootloader` | TypeOK, ValidatedIsInFlash, RunsWhatIsInstalled, LoadsApplication | whatever is reset or lost, only a complete application runs, and it does in the end; an image that a central is told is valid is in flash, unless a central was misled |
| `bootloader_radio` | ToldIsInFlash | violated: with a radio that holds five messages a central is misled, and told that an image is valid that is not in flash |
| `bootloader_activate` | FastResetOnDisconnect | violated: `dfu_image_activate` looks at the wrong event |
| `bootloader_button` | NeverRunsTrash | violated: with the reset button, RECEIVE_FW without its braces starts a half-overwritten application |
| `aci_link` | TypeOK, ReadsWithinBuffer, RoomForCommands, NoCreditLost, BondedMeansRestored, IsChannel, RestoreNotCutShort, AdvertisesAgain, CommandsReach | the transport is a pair of channels, always has room for a command and never waits for itself; credit survives connections; a restored bond is a whole one; a radio in standby comes to advertise, or the watchdog starts a valid application |
| `uart_update` | TypeOK, ReadableBetweenCommands, TornRunsOnlyIfDeclared, OneLink, AcknowledgedPageHolds, LeaveRunsApplication | a page the host is told is programmed is in flash; a torn application is not started unless declared valid; leaving programming mode starts the application |

The reason for every violated property, with the comment, header or
test it quotes, is under "findings" in `PROJECT.json`.

Bounds. The queue's state is finite: its counters have 64 values instead of
256 (the proof covers every width) and a message two payload bytes at most, which is enough for a shorter message to leave a longer one's bytes
behind. In `Dfu.cfg` a page has two bytes and the flash four pages; `MaxBytes`
(5) lets the stream cross two page boundaries and go past the larger image
size (4, two whole pages) and the smaller (3, a partial page); packets have 0,
1 or 3 bytes, so a page begins and ends inside a packet; the credit counter
has two bits instead of eight, so that it wraps. Once the address
has passed `MaxBytes` no more firmware is taken, as is the case after a few
empty packets have each repeated the final write. In
`Bootloader.cfg` a page has four bytes, the image six (a whole and a partial
page), chunks three, so that a chunk crosses pages and the counts of an
interrupted and a later session can add up to the image size; there are two
versions, an old application, and three connections (`MaxSessions`): one to
interrupt, one to confuse, one to succeed. The radio holds three messages, so
that a reset finds some waiting and central and bootloader may be apart by a
whole step of the procedure. Resets and power losses are not bounded.
`BootloaderRadio.cfg` has a radio of five messages and six connections, with
pages of two bytes, a flash of four and an image of one: the smallest in which
the counterexample of `bootloader_radio` was found, which takes 77 states.

In `AciLink.cfg` messages have their real lengths, 31 for a command of a full
buffer, 24 for the longest event, so that either may be the longer in a
transfer; the queues have their two slots, the radio holds two events, the bond
has two messages and the status byte says two or none, and the counters are
narrowed (`CountWrap`, `CreditWrap`) so that they wrap. Two connections and one
packet are enough to let credits of one connection come back in the next.
The safety properties hold with two packets as well (2.9 million states, not a
run); for RoomForCommands the theorem has any number of them.
Resets of the processor are not bounded. In `UartUpdate.cfg` a page has four
bytes and the flash two pages, one on either side of `NRWWSTART`; a command has
a length of two bytes, half a page, or of 0, which is more than a page;
`address` is unset at word 3, in the middle of a page, and any even address can
be loaded; two pages with contents that differ everywhere may be sent, in any
order of commands, with resets and power losses unbounded.

Deadlock is checked except in the runs of Dfu, where the loop of
`dfu_reset` on a full queue stops the processor. That module has no radio that
takes a command for every event it gives; on the link the queue has room for
the command, as RoomForCommands says. In AciLink the application, once started,
goes on without a change ("app").

Fairness. `LiveSpec` assumes that the processor goes on (a step it can take is
taken) and that the watchdog fires if, from some point on, nothing that kicks
it is waiting to be handled, or the processor is in a loop that handles
nothing. Both are what the hardware does. Nothing is assumed of the radio or
the central. The central makes finitely many connections (`MaxSessions`), which
is the assumption that it does not keep the device for ever; the property
itself assumes that the power supply is stable from some point on.

AciLink: the processor and the radio go on, and the watchdog fires when
nothing can kick it (`Stalled`). AdvertisesAgain has two premises. The watchdog
waits, from some point on, until the program is stalled (`WatchdogPatient`):
its four seconds are long against a handshake. And the radio does not answer
the REQN that `m_spi_init` leaves low before `lib_aci_init` has looked at RDYN
(`RdynTells`); without this premise the property fails, see below.
CommandsReach needs the patient watchdog only. UartUpdate: the program and the
hardware go on and the watchdog fires; LeaveRunsApplication assumes a host that
keeps quiet and a power supply that is stable from some point on. Start-up, up
to where `main` sets the watchdog, is taken to be shorter than the watchdog's
16 ms.

What the runs above do not say as a property, and a reader should know:

- ValidatedIsInFlash and RunsWhatIsInstalled say nothing once a central was
  misled. The radio is not reset with the processor, so the more messages it
  holds the longer those of one session are handled in the next: in
  `bootloader_radio` answers come to lag behind a session, a leftover start
  response makes the next session's central go on, and its image is called valid
  though flash holds another. What an nRF8001 holds is not to be seen in the
  code. With three messages, the other sizes as in `Bootloader.cfg`, TLC found no
  counterexample to ToldIsInFlash itself.
- An application that hands over as `README.TXT` says, with the key set and a
  watchdog reset, is started again by `jump_check` while its flag is set: the
  bootloader is reached only if it does not set the key. No property is about it.
- AdvertisesAgain is about a radio whose bootloader runs. When the watchdog has
  started the application, the radio is the application's.
- At power-up the answer to the RadioReset of `lib_aci_init` is usually still
  to come when Device Started is handled. `bond_data_restore` takes it for the
  answer to its first message, counts it, and gives up one message early with
  an error; the device advertises without a bond. RestoreNotCutShort is
  therefore about restores that meet no such answer.
- NoCreditLost says no credit is lost, not that none is gained: a PIPE_ERROR of
  the connection before adds one.
- Without `RdynTells` a radio that is quick to grant the transfer makes
  `lib_aci_init` skip the reset, and a radio left in standby is not told to
  advertise.
- `aci.h:45-47` asks that no command be sent before the answer to the one
  before; `ble_update` does not wait.
- A page is acknowledged even when its self-programming commands came while
  the flag was being written to EEPROM and were not taken;
  AcknowledgedPageHolds leaves those out (`blocked`). The example in `boot.h`
  waits for EEPROM first, `uart_update` does not; whether the commands come too
  early depends on the baud rate.
- A session that begins and ends without a page leaves the flag cleared, though
  the application is intact; any unknown command, STK_ENTER_PROGMODE included,
  sets it before the first page is programmed. TornRunsOnlyIfDeclared says
  just that.
- `buff` lies at RAMSTART over the variables of the BLE side (their more than
  256 bytes keep it away from `boot_key`): a session must not begin during a
  transfer (OneLink), and none returns to the loop.
- `lib_aci.h:47` calls `hal_aci_evt_t` as large as `hal_aci_data_t`; it is one
  byte longer, which no one relies on (BuffersAssumption).

## Proofs

For every value of the constants the assumptions of each module allow
(`QueueAssumption`, `DfuAssumption`, `BootloaderAssumption`, `HalAssumption`,
`AciLinkAssumption`, `SpmAssumption`, `UartUpdateAssumption`):

- `AciQueueProofs`: TypeCorrect, NoOverwrite and Refinement, all three under
  the careful caller. The argument for the refinement is that the contents of the
  abstract queue are the slots from `head` on, `Outstanding` of them; an
  enqueue writes the one slot that is not among them, as their indices are
  distinct modulo the size, and the wrap of the counters preserves indices
  because the size divides it.
- `DfuProofs`: TypeCorrect; StreamIsFaithful, NothingBeyondIsTouched and
  SuccessIsTrue from one inductive invariant, `StreamInv`. StreamFaithful alone is
  not inductive: the packet in hand must be known to be the next piece of the
  stream (`PacketIsStream`), the page address must never be behind the count
  and must be a page boundary while the two are in step (`AddressAhead`), and
  the cells ahead must be blank for a program to give the byte (`NothingBeyond`).
  After the first final write address and count are out of step and nothing
  more is claimed. The numbers of bytes are bounded by `MaxBytes < FlashSize`:
  a stream longer than the flash would wrap around onto itself.
- `DfuCreditProofs`: CreditConserved, under `CarefulSpec`: a message taken over
  the oldest would take its credit along. The sum of credits is invariant only up to
  a multiple of the counter's width (`CreditInv`); that a command queued or
  taken changes the number of data packets by one is a fact about cardinalities.
- `BootloaderProofs`: TypesHold, ValidatedImageIsInFlash,
  DeviceImplementsFirmware and TrashIsNeverRun, for any sizes, versions and
  number of sessions and a radio that holds any number of messages. The last
  three speak of a device none of whose centrals was misled, which the run
  `bootloader_radio` shows to be needed. They rest on one inductive invariant,
  `DeviceInv`, in layers, of which those behind `WorldInv` are under that
  premise. `ProcInv` relates the processor's modes to its memory
  and the flag. `WorldInv` says what may be on its way
  (`Incoming`: the event in hand, then those the radio holds): what belongs to
  a session that is over comes before the notice that ends it, no packet or
  opcode of consequence is left when a new session can begin, and the chunks
  that follow a RECEIVE_FW continue each other up to where the central has come
  (`Streaming`). `SessionInv` is about the counters of `dfu.c`, which survive a
  session: when it waits for the next one they are cleared and there is no
  application to lose (`Loose`), or the processor is about to start the
  application (`Leaves`), or the radio is about to be reset (`Doomed`), or no
  session is far enough to be harmed (`Calm`). `FlashInv` compares what
  the processor has counted (`Taken`) with what it is going to be sent next
  (`Due`): a count left by an earlier session is ahead and is never made up
  for, so that validation fails; where they agree the page buffer and flash
  hold the stream; and from the moment the central is told of its success
  nothing writes to flash (`Vouched`). The pages' lemmas are those of
  `DfuProofs`, instantiated. The refinement needs ValidatedImageIsInFlash, as
  ACTIVATE sets the flag on the central's word.
- `HalAciTlProofs`: TransportIsChannel, for any radio and any processor that
  does not send into a full queue at the wrap of its counters
  (`HalCarefulSpec`; the run `aci_queue_wrap` shows what happens to one that
  does). The heart is ArrivesWhole, arithmetic on the lengths of the two messages; that
  the receive queue is always emptied by the call that filled it (HalTypeOK)
  makes the abstract channel of events the radio's own.
- `AciLinkProofs`: LinkHasRoom comes first. Every event reaches the program in a
  transfer that takes a command along, so that at most one waits when its handler
  starts, and that only after the packet that completes an image, which alone has
  two answers (`RoomInv`: what may wait at each program counter); two slots are enough for the handlers, the packet that
  completes an image included. Hence every step of AciLink is a step of
  HalAciTl's specification under its careful processor (LinkUsesTransport), and
  the transport's theorems hold of the composition without a premise
  (LinkIsChannel, LinkReadsWithinBuffer; `AciLinkAssumption` has no event as
  long as a message may be). BeliefIsTrue rests on `BondInv`: an answer that
  says the bond is complete, under way or in hand, and the belief itself, exist
  only when the radio has the whole bond. LinkTypeCorrect has to bound what the
  radio owes: by `Budget`, a packet of the central's, until it is answered, stands
  for two credits, each answer for one, in the queue, the radio or the event that
  returns it. CreditIsKept counts the same over four sequences (`KeptInv`): while
  the program knows of a connection, credit and credits under way are the total
  plus a surplus that `Budget` bounds, up to a multiple of the counter's width. It
  is inductive only with two facts about the order of events: the last word
  on the link in the radio's queue is what is the case (`LatestInv`), so that the
  program does not take its credit back for a disconnection older than the
  connection; and before the restore of the bond is over no Connect is under
  way (`SilentInv`, `BeginInv`), so that the loop of `bond_data_restore`, which
  drops events, drops no credit. RestoreEndsWhole follows the answers that ask
  for the next message of the bond (`RestoreInv`): those under way and those the
  restore has counted are together no more than the radio gave, one for each
  message it stored but the last, so the counter, which has gone down by as many
  from the status byte, modulo its width, cannot be at zero when another comes.
  It needs a bond of no more messages than the counter has values
  (`Chunks <= CountWrap`; the status byte has seven bits for their number).
- `UartUpdateProofs`: UartTypeCorrect; OneLinkAtATime; FlashReadable from
  `FlashInv` (outside PROG_PAGE the hardware is idle, and a write to EEPROM
  only ever goes on over idle hardware, since none begins within a page);
  TornOnlyIfDeclared from `FlagInv` (within a session a set flag was declared;
  a page changes only when no write of the flag goes on, so that power lost at
  any time brings back no undeclared flag).
- `UartPageProofs`: PageHolds from `PageInv`: the page is blank from its erase on,
  `buff` holds what the host sent, and the words before `word` are in the page
  buffer, each in its place and in no other's, so that none is refused as
  written before. That the words go round the page (FillGoesTo, RotatedOnce)
  follows from the uniqueness of quotient and remainder (Division).

Only model-checked: all liveness (the prover has no support for fairness
arguments or ENABLED). No module has recursive operators.

## Not modelled

The software UART's bit timing and the baud-rate check, `flash_led`, the SPI
registers, `pin_defs.h`, RAMPZ, the `VIRTUAL_BOOT_PARTITION` and ATmega8
variants of the build, lock bits and fuses, and the tests' hardware set-up:
pure input and output, or not part of the program that is built. The values of
the enumerations of the ACI headers are left out, their order and the layouts
are in Layouts. Pipe bitmaps are kept (one bit, for the control point) but no
code consults them; PIPE_STATUS, which sets them anew, and TIMING, which is
noted and not used, are left out. The bytes an image size is read from are not
modelled: a size is one of a set. Pages of 256 bytes, with which
`m_page_buff_index` never says that a page is full, are excluded by
`DfuAssumption`: some AVRs the Makefile has targets for have such pages
(atmega644p, 1280, 1284p), the atmega328p has pages of 128.

AciLink takes for granted that the bond messages in EEPROM fit a command
(`bond_data_restore` copies as many bytes as their length byte says), that the
total of credits DEVICE_STARTED reports is the number the application left in
EEPROM, and that firmware packets are not empty, so that a complete image is
reported once; what a central does with empty packets is in Dfu. What the radio
does while the application runs is not modelled there.

## Plan

1. Done: all components of the table but input and output, with the
   compositions Bootloader (boot decision, DFU, radio), AciLink (dispatch,
   library, transport, radio) and UartUpdate (UART, flash, boot decision).
2. Done: the proofs of every safety property a run checks, and of the
   refinements.
3. Done: the queue's overwrite where the callers meet it (QueueSend), with the
   proof that they do not; the theorems of Bootloader for a radio of any size.
4. Next: the hand-over from the application, as a property; ToldIsInFlash without
   its premise for a radio that holds three messages and four.
