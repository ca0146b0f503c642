# TLA+ models of the SummerCart64 firmware

SummerCart64 is a flashcart for the Nintendo 64. Its behaviour is spread over an FPGA
(`fw/rtl`), the controller that polls the FPGA's registers in one endless loop
(`sw/controller`), the program on the N64 (`sw/bootloader` and the games), and the tool on
the PC (`sw/deployer`). This directory holds TLA+ models of the parts where these four act
on shared state at the same time, TLC runs on small instances, and proofs, checked by TLAPS,
for instances of every size.

Paths below are relative to the root of the repository (`src/` in `PROJECT.json`).
`PROJECT.json` maps every definition to the lines it models.

Contents: [inventory](#inventory) - [modules](#modules-and-the-code) - [runs](#runs) -
[fairness](#fairness) - [proofs](#proofs) - [findings](#findings) -
[limits](#what-the-models-leave-out) - [plan](#plan)

## Inventory

### How the parts interact

* The main loop (`sw/controller/src/app.c:38-50`) calls `button`, `cfg`, `cic`, `dd`, `flashram`,
  `isv`, `led`, `rtc`, `sd`, `usb` and `writeback` in turn. Each `*_process` looks at its
  registers, moves its state machine as far as it can without waiting, and returns. Nothing
  preempts it but the SysTick interrupt, which only counts timers down. So a call of a
  `*_process` function is atomic towards the other ones, but **not** towards the FPGA, the N64,
  the DMA engine, the SD card, the USB link or the power switch, which move between any two of
  its register accesses.
* Components of the controller call one another: `cfg.c` (commands of the N64) and `usb.c`
  (commands of the PC) both end in the setters and operations of `cfg`, `sd`, `dd`, `isv`,
  `flashram`, `rtc` and `writeback`.
* Data to the PC goes through **one packet slot** of `usb.c` (`usb_enqueue_packet`). A full slot
  makes the producer try again in its next turn. Two producers (`isv.c`, and `cfg.c` for debug
  data of the N64) also get a callback when the packet has left, or when the link is lost.
* The SD card has **one lock** for two users, the N64 and the PC (`sd_try_lock`).
* Commands of the N64 pass through a pair of registers of `n64_cfg.sv` with one pending bit.

### Components

| Component | State | Operations | Hard behaviours | What makes it correct |
|---|---|---|---|---|
| Countdown timers, `timer.c` | per timer: pending, running, value | start, abort, elapsed; interrupt | interrupt between any two steps; rounding | lasts what was asked, to one period; ends |
| USB controller, `usb.c` | rx and tx machines, response, packet slot, read window, DMA engine | `usb_process`, enqueue, prepare read, reset, flush | one DMA engine for two machines; reset or suspension in mid-transfer; refused payloads; timeouts | framing, responses in order, one callback per packet, no transfer disturbed |
| Save writeback, `writeback.c`, with the lock of `sd.c` | enabled, pending, mode, last count, timer; lock; save counter of the FPGA | enable, disable, process, save sectors | writes while the save runs; power off; card out; the PC wants the card | no write forgotten, lock kept until saved, released in the end |
| IS-Viewer 64, `isv.c` | address, ready flag, ring buffer in memory | set address, process, callback | N64 writes between two reads; early callbacks; address changes | text in order, complete, all of it arrives |
| N64 commands, `cfg.c`, `n64_cfg.sv` | command registers, pending, error, interrupt; queued command | call, execute, refuse, retry, answer | console reset with a command pending; retries; interrupt or polling | own answer, honest error, at most one effect |
| FlashRAM, `flashram.c`, `n64_flashram.sv` | command state, status, request, page buffer, erase timer | the game's register writes; write, erase | the game writes while the controller works | reads see what the commands made of the chip |
| 64DD drive, `dd.c`, `n64_dd.sv`, `disk.rs` | drive and buffer manager states, block request, seek and spin-up, sectors | commands, block reads and writes on the card or in the PC | late answers, transfers given up, disks changed in the middle, a register written between two looks | the block read is the one asked for; a write ends on its disk; every transfer ends |
| Real-time clock, `rtc.c`, `n64_si.sv` | time in the chip, century cell, joybus clock | set by either side, read, refresh, days, power | leap years the chip does not count, a century it has no digits for; refresh against a set of the N64 | the clock shows the true date; a set is never taken back |
| SD card, `sd.c` | initialized, addressing, selected; the card's own states | init, deinit, read, write, optimise | card pulled or swapped at any step; lost commands and responses; timeouts | sectors in place; the card ready for the next request; an end |
| Update and loader, `update.c`, `loader.c`, `lcmxo2.c` | images, what is in which chip, parameters over the reset | backup, check and start, perform | power loss or a failing chip between two of three chips; the game writes to the file | one chip at risk at a time; no false success; an end |
| DMA, arbiter, `fw/rtl/memory` | engine, lanes, grants | transfers of any alignment, four clients of three memories | three machines that count bytes apart; addresses that change before the grant | bytes in place, each access once |
| USB bus, `fw/rtl/usb` | two FIFOs, a byte beside each, modem lines | transactions with the FT232H, flush | full FIFOs at either end, reset in mid-transfer | order of bytes; the reset gets through |
| N64 PI bus, `n64_pi.sv` | address decoder, prefetch and write FIFO, save report | reads and writes of the N64, console reset | strobes that cannot be made to wait; an address that changes while words are on their way; a reset in an access | every word from and to its place in time, every save reported once |
| Button, LED, CIC, `button.c`, `led.c`, `cic.c`, `n64_cic.sv` | debounce counter, blink state, region | process | trigger while the slot is full | *not modelled* |
| Bootloader, `sw/bootloader` | none that stays | start-up, menus | - | its command calls are the program of CfgCommand |
| PC tool, `sw/deployer` | link, packet queue | commands, debug, server | reset, retry, order | the host of UsbController, UsbPath, DiskDrive and Update |
| Third-party RTL, tools, boards, documents | - | - | - | not modelled |

`PROJECT.json` lists these with their sources and the reason when a part is not modelled, and
under `hazards` what each is exposed to, at the line where it bites. Three of these have no
property, because the code loses there what it would need to promise anything: their notes and "Findings" say what goes wrong.

## Modules and the code

Names of states and variables follow the code; a state machine's step is an action of its own;
calls, guards, early returns and their order are kept. Each module describes its abstraction
in its header. Definitions marked `Bug:` are not used by the specification: each is a plausible
error in the definition below it that some property has to notice.

**Timer** - `timer.c`. `Start`, `Abort` and `Tick` are `timer_countdown_start`,
`timer_countdown_abort` and `timer_update`. Two history variables record what was asked and the
interrupts seen since, so that the duration can be spoken of.

**UsbController** - `usb.c` with the FIFOs and the DMA engine of the FPGA and the host of
`sw/deployer/src/sc64/link.rs`. `pc` is the place of the single thread in its loop (`poll`, `rx`,
`tx`, `other`). A step is one pass over one state of `usb_rx_process` or `usb_tx_process`; it
keeps `pc` where the C code falls through to the next state. Streams are sequences of items
(command, arguments, header, unit of payload). Commands fall into four classes: answered at
once, read (`m`), write (`M`, which may be refused with its payload still to come) and debug
write (`U`, which waits for the N64). The reset is a handshake between the host's DTR, `host`,
and `last_reset_state`; a suspension may come and go at any step.

**SaveWriteback** - `writeback.c`, the lock of `sd.c:632-651`, its release in
`cfg_cmd_check` and `usb_process`, and `n64_save_counter.sv`. `pc` follows the loop of `app.c`
through the components that matter. `promised` is the set of sectors that the game has written
under an enabled writeback with the lock in the hands of the N64 and that the card does not have.

**Isv** - `isv.c`, with the program on the N64 that fills the ring buffer, and `usb.c` reduced
to what UsbController shows: the callback comes once, after the last unit, or early when the
link is lost. Text is numbered per buffer, so that what the host gets of each can be told apart when
the address is set, cleared and set again; `astray` is the set of buffers whose callback found
another address.

**CommandService** - what the command registers promise: one call at a time, at most one effect,
an error flag that tells whether there was one. **CfgCommand** - the registers, `cfg_process`
and a program that calls as `sc64_execute_cmd` does; it implements CommandService with

    open <- IF cfgPending THEN cfgCmd.n ELSE 0,  effects <- effects,  failed <- cmdError

**FlashRam** - `n64_flashram.sv` and `flashram.c`. `flash` is the chip the game believes in,
changed at the moment of the command; `mem` is the save in SDRAM, changed page by page.

**N64Pi** - `n64_pi.sv` with its FIFOs (`n64_pi_fifo.sv`). `PiTick` is one clock edge of all its `always_ff`
blocks; `line` is the event (`aleh_op` ... `end_op`) that the synchronized pins have given. The console
(`con`) puts an address there, strobes one way and ends the access; it waits for nobody, so that its
timing (`Gap`, `Pulse`, `Rest`, in clocks) is a constant, as is the `Latency` of a memory. The arbiter is
reduced to what matters here: others keep a memory busy only while the N64's window is not in it.
`TimesAssumption` is what the hardware relies on: the other clients have left a memory when the address
is complete (`Latency <= Gap + 1`), a word that is asked for is there before the strobe that takes it
ends (`Serve + 2 <= Gap + Pulse`, where `Serve` is the longest time of a request), and before
the next access begins (`Serve <= Rest`).

**Rtc** - `rtc.c` with the chip and the joybus clock. The chip's calendar (year 00 is a common
year) and the true one are two functions of a date; `RawToReal` and `RealToRaw` are the shifts
of the code, month lengths included. A reading, a set and a refresh go access by access, each of
which may fail; a day and a power cycle fall between any two.

**DiskDrive** - `dd.c` and `n64_dd.sv`. A turn of `dd_process` is `Scan` (the status register) and
`Work` (everything else); the game follows the protocol of a 64DD driver: it asks for a transfer,
looks at the status when the interrupt comes, moves sectors through the buffer, or gives up. A
block goes to the card or, as a packet, to the PC, whose answer comes when it likes. `late` marks a
transfer that began with an older request unanswered, and each request keeps the mark of its
transfer: its answer may be the one that was meant for another. That the game abides by the protocol is
in its guards; the properties are proved of such games.

**SdCard** - `sd.c`, one command to the card per step, with the card's own state machine and with
**Timer**, whose interrupts fall between any two steps: the timeouts are those of the code.

**MemoryDma**, **MemoryArbiter**, **UsbFt1248** - the three RTL parts. Each clock edge (each phase
of a USB transaction) is one step, as in an `always_ff` block: all primed values from the old ones.
**UsbPath** puts them together: host, FT232H, FIFOs, engine, arbiter, a memory, the N64, and
of the controller what starts and ends transfers and clears the way on a reset.

**Update** - the two commands of `usb.c`, `update.c`, `lcmxo2.c`, the reset and the loader that carry
an update over, and the host. `UpdInit`, `UpdNext`, `UpdSpec` and the rest have names of their
own, since a run composes the module with CfgCommand.

`MC*` modules only give TLC its instances; `*Proofs` modules hold the proofs, and
DiskInvariant, PathInvariant and PiInvariant the invariants of DiskDrive, UsbPath and N64Pi, which are long
enough for modules of their own. MCCfg is a **sum**: a
behaviour of it is one of CfgCommand or one of Update. These two meet only where a program turns
`ROM_WRITE_ENABLE` on, which Update has as an action of its own (`GameOpens`). MCFlash is the sum of
FlashRam, which is behind the register bus, and N64Pi, whose names start with `Pi` for that.

How the modules compose: SdCard EXTENDS Timer; UsbPath EXTENDS MemoryDma and UsbFt1248 and is
checked against MemoryArbiter's rules for its clients (`UsesArbiter`), which ArbiterProofs assumes
of every client; CfgCommand implements CommandService. What one module takes from another is
stated where it is used: the callbacks of Isv, CfgCommand and SaveWriteback are what UsbController's
`CallbackOwed` promises, the clients of SdCard hold the lock of SaveWriteback.

## Runs

"States" are distinct states, to show that the instance is not empty of interesting cases; all
runs are exhaustive and take from seconds to four minutes with two workers.

| Run | Question | Bounds | States |
|---|---|---|---|
| `usb` | Do framing, responses and callbacks survive resets and suspensions at any step, and do responses and reports get through once the link stays up? | a read, a write, a refused write and a debug write; a producer with a callback and events without; FIFOs of 1; 1 response owed | 506 k |
| `save` | Is a write ever forgotten, or the lock lost while a save is pending? Is all saved in the end, and the card given back? | 1 sector, counter modulo 2, all commands of both sides, power, card, link | 413 k |
| `save_lost` | Is a promised save ever refused for want of the lock? (**yes**) | 1 sector | - |
| `isv` | Is the text in order, complete, and does all of it arrive? | ring of 4, 6 units of text, 3 settings of the address, 2 losses of the link, 1 foreign packet | 686 k |
| `cfg` | Does a program get its own answer, and do the registers keep the promise of CommandService? Does an update put at most one chip at risk, and is a success one? | 3 calls, 2 console resets, 2 foreign packets; or 2 updates from 4 files, 2 blocks per chip, 1 fault, 1 write of the game, power failures at any step | 344 k |
| `cfg_retry` | Does a valid USB command succeed when it has to wait? (**no**) | 3 calls, 2 foreign packets | - |
| `flash` | Does the game read what its commands made of the chip, and does every operation end? Does each word of the N64's bus come from and get to its place, in time? | 2 sectors of 2 pages, 1 bit, both save types, changed at any time; or 2 accesses of 2 words to ROM and save, pages of 3 words, FIFOs of 2, memory of 1 or 2 clocks, a switch that changes at any clock, 1 reset | 1.16 M |
| `rtc` | Does the clock show the true date, and does a refresh spare what the N64 sets? | the ends of February and of the year in years 0, 1, 3, 4, 99 of all eight centuries; 5 days, 1 set, 1 failing access, power cycles | 1.03 M |
| `rtc_feb29` | Does the clock ever show a date that does not exist? (**yes**) | a set before the end of February 2025 | - |
| `disk` | Does the game get the block it asked for, and do its writes reach the disk? | a track and a block to read, a track to write, 2 sectors a block, 2 disks, card and PC, 2 transfers, 1 fault | 877 k |
| `sd` | Are sectors where they belong, is the card ready afterwards, and does every request end? | both kinds of cards, 3 tables (neighbours, chunks, a gap, a sector named twice), chunks of 2, 2 faults or changes of the card | 202 k |
| `usb_path` | Do bytes keep their order and places from the host to the memory and back? | memory of 4 bytes, lengths 2 and 3 at odd and even addresses, FIFOs of 2; 1 command; 1 reset or 1 access of the N64 at any step | 144 k |

Why the bounds are enough to be interesting:

* USB: FIFOs of 1 fill up after every item, so that every wait of the code occurs; the debug write
  of 2 needs two reads of the N64, and a refused write a flush for each chunk. One owed response is
  the deployer's own behaviour: `link.rs` waits for the response before the next command. FIFOs
  of 2 and 1, two producers and payloads of 2 (2.2 M states) gave the same results.
* Save: the game writes its sector before it is copied and behind the copy; the counter wraps
  around at every other write. `N64Write` assumes that fewer than `CountMod` writes come between
  two looks of the controller, which polls far more often than 65536 writes take. Two sectors
  and a counter modulo 3 (1.9 M states) gave the same results.
* IS-Viewer: six units in a ring of four (three usable) wrap around; two losses of the link hit a
  packet in the slot and one in flight; three settings take the buffer away and bring it back while
  the packet is anywhere. Seven units (1.4 M states) gave the same results; the invariant of the
  proof was checked for two buffers (13 M).
* Commands: three calls with two resets let a program find the command of the program before the
  last one still pending.
* Updates: the four files are one that is accepted whole, one in another order with a part
  twice and an FPGA image of a length its pages do not divide, one that is too long for its chip,
  and one with an unknown chunk. Two blocks let a chip be half written; a second update repairs
  what the first has left; the room for status packets is either one or all five. Without the
  bound on the game's writes (943 k states) nothing changes.
* FlashRAM: two sectors of two pages tell a page from its sector and the sector from the chip;
  one bit tells "programs only clear bits" from "programs replace".
* PI bus: the hardware's times are tens of clocks for a strobe and about ten for a memory; the instance
  keeps their order: a strobe (4) lasts longer than a memory takes (2), and a first strobe (after 2) may come
  before the first word has been fetched, so that `read_fifo_wait` is used. A console that is faster than
  that (strobes of 3) gets wrong words, as `ReadsTheWord` then shows: the second bound of
  `TimesAssumption` holds with equality here, and there it fails. Two words go around the end
  of a page of three and fill a FIFO of two. A write never waits for room in these times.
* Rtc: each date is two to four days before a month, a year or a century ends, and the clock runs
  for five days; 2699 is left out because its days run into 2700, which the code cannot show.
* Disk: a whole track has the change from block 0 to block 1 and a single block has not; two
  transfers let the answer to the first fall into the second. Three transfers, two of them given
  up, on one disk of one-sector blocks (9.3 M states) gave the same results.
* SD: the longest table makes two chunks of neighbours and a gap, the shortest runs backwards, and
  one writes a sector twice (the later entry counts);
  two faults hit a command and the one that is to clean up after it.
* USB path: 2 and 3 bytes at odd and even addresses give each combination of whole and half words
  at both ends. Two commands (837 k states), every address and length, and a reset with an access
  of the N64 (4.5 M) were checked too, and gave the same results.

Deadlock is checked in `usb`, `save`, `rtc`, `disk`, `sd` and `usb_path`. It is off where programs
end: Isv (the text is written, `MaxText`), CfgCommand (`MaxCalls`) and Update (`MaxUpdates`), and
FlashRam (a game that stays in a state where all is done).

The properties, by what could go wrong:

* **UsbController** - `CallbackOwed` (a producer gets exactly one callback per packet),
  `ResponsesInOrder` (nothing lost, doubled, reordered, or left over from before a reset),
  `InFrame` (neither side ever takes payload for a header), `GivenUpAfterTimeout`,
  `ResponsesArrive`, `FlushReported`. Proved but not run: `DmaOwned` and `DmaUndisturbed` (each
  machine takes an idle engine for the end of its own transfer, which only works if no other
  machine starts it), `ReadHandshake` (the window of a debug read is computed twice, so that it
  must not change in between).
* **SaveWriteback** - `NothingForgotten`, `LockKeptWhilePending`, `SavedInTheEnd`, `LocksReleased`;
  proved but not run: `SaveHoldsLock`.
* **Isv** - `TextInOrder` (of each buffer, order and completeness), `TextArrives`.
* **CfgCommand** - `AnswerIsOwn`, `OutputBufferFree`, `CallsEnd`, `ImplementsService`; proved but not
  run: `NoStrayInterrupt`, and `ErrorTellsEffect`, which `ImplementsService` says of each call.
* **FlashRam** - `ReadsSeeFlash`, `EraseTakesItsTime`, `OperationsEnd`; proved but not run:
  `StatusIsHonest`.
* **N64Pi** - `ReadsTheWord` (what a strobe ends with is the word at its address, whatever was fetched
  ahead for another), `WritesTakeEffect` (a word that is written gets to its place, nothing else
  changes, and a save is reported once).
* **Rtc** - `ClockIsRight` (what a reading shows is the date that has come, after any days and
  power cycles), `N64SetKept` (what the N64 set is what its clock goes on with).
* **DiskDrive** - `ReadsTheBlock`, `WritesReachTheDisk` (a block the game was told is written is on
  the disk), `WritesStayInPlace` (nothing else is), `DriveAnswers`.
* **SdCard** - `TransfersAreRight`, `CardIsSelected` (after any failure the driver and the card agree
  on the card's state), `OnlyTheTableIsWritten`, `RequestsEnd`; and of **Timer** `ElapsesInTime`.
* **UsbPath** - `BytesInOrder` (both ways), `PayloadInPlace` (no byte lost, doubled,
  reordered or misplaced), `UsesArbiter`, `TransfersEnd`, `ResetEnds`.
* **Update** - `OneAtRisk` (a chip is begun only when those before it hold what the file has for
  them), `DoneIsTrue` (a success that is told is one), `UpdateEnds`.

Type invariants are proved where the component has proofs (`UsbTyped`, `SaveTyped`, `CfgTyped`,
`UpdTyped`, `FlashTyped`, `RtcTyped`, `DiskTyped`); those of CfgCommand, which includes
`effects \in [Calls -> 0..1]`, of FlashRam, where no page outside the chip is ever touched, and of DiskDrive, where
the cursor never leaves the block buffer, have content.

## Fairness

* The main loop never stops: weak fairness of the controller's steps, taken together where one
  thread runs them (`Controller` of SaveWriteback, `CfgProcess`, `FlashramProcess`, `Scan \/ Work` of
  DiskDrive, `Step` of SdCard, `Resets` of UsbPath, `Perform` of Update) and by place in the loop in
  UsbController, where `pc` makes at most one group enabled at a time. In UsbController the
  producers (`Enqueue`, `PrepareRead`) get no fairness: they may never act.
* The SysTick interrupt keeps coming: weak fairness of `Tick` or `TimerElapses`.
* The hardware goes on: the DMA engine (`DmaRead`, `DmaWrite`; every clock edge in UsbPath), the
  FT1248 machine, a memory that answers (`Tick(TRUE)`), an SD card that ends its busy time
  (`Programmed`). An access of the N64 ends (`Tick(FALSE) /\ ~n64'.active`).
* A host that stays connected goes on: weak fairness of `HostSend`, `HostReceive`, `HostRelease`,
  `HostUp`, `HostReads`, in UsbPath taken together (`HostGoesOn`). The liveness properties say so in their premise `<>[]Connected`; in Update
  the host may leave. DiskDrive has strong fairness for `HostAnswers`: an answer is taken between two
  calls of `dd_process`, so it is enabled in every turn but not continuously.
* `ResponsesArrive` and `FlushReported` also have the premise that events stop coming (`NoEvents`):
  both fail without it, see below.
* Isv has strong fairness for `TakePacket`, `PacketDone` and `OtherLeaves`: `pc` leaves "idle"
  within each call of `isv_process`, so these are enabled in every turn but not continuously;
  `usb_process` runs once per turn.
* SaveWriteback has strong fairness for `UsbActive /\ slotFull' = FALSE`: a link that
  stays up keeps taking packets from the slot, as in UsbController.
* CfgCommand: the program keeps polling (`ReadAnswer`). DiskDrive: the game goes on with a
  transfer it has begun. FlashRam: the game gets none.

No safety property relies on fairness, and no property on fairness of the power switch, of the
user with the card and the button, or of the PC's commands.

## Proofs

All theorems hold for every value of the constants that meets the named assumptions of the
module, whose justification is: durations, bounds and counts are naturals; a save has sectors and the
counter more than one value; producers with and without callbacks are different parts of the code; a
memory command of length 0 is refused (`usb_validate_address_length`); a flush chunk, a sector, a
ring and a chip are not empty; a sector table names sectors of the card, which is not the empty slot;
transfers of the USB stay within a memory of whole words (`MemoryAssumption`); update files are made
of chunks; a block has sectors, disks are on the card or in the PC; the board starts with a whole image; dates that are set exist and end before 2700; the
console gives a memory the time it needs (`TimesAssumption` of N64Pi; the code cannot make it wait, so
that its design depends on this: a strobe is tens of clocks and an access of SDRAM about ten). TLC
evaluates the assumptions in each run.

| Module | Theorems | Argument |
|---|---|---|
| LoopProofs: Timer | `CountdownCorrect`, `TimersNeverOverdue`, `TimersElapseInTime`, `WaitsElapseInTime` | `Countdown` ties the value to the periods asked for and the ticks seen; the pending flag is what is needed for a duration of at most one period. `PeriodsForBounds` is the rounding. SdCard takes each step of Timer as it is, which carries the result to the driver's waits |
| LoopProofs: SdCard | `SectorsInPlace`, `NothingElseWritten`, `CardReady` | `SdInv`. `Doing` and `Known` say which card the driver speaks to and in which state that card must be, `Running` and `Aligned` how far each of the two is in a chunk, `SoFar` what is done of the table: that a chunk is a run of neighbours (`RunIsNeighbours`) is what makes one start address enough, and `Lasting` that no later entry of a table undoes an earlier one |
| LoopProofs: Isv | `TextKeepsOrder` | cells are placed by their `Distance` behind the read pointer, modulo the ring. `Ring`: the cells from there to the write pointer hold the units that the host has not got, in order; `Got`: what it has got is what came before them. `Turns` ties the packet to these. All are claimed of buffers that are not `astray` only |
| UsbProofs | `CallbackExactlyOnce`, `DmaAlwaysOwned`, `ReadWindowSafe`, `TransfersUndisturbed`, `UsbTyped` | the three invariants are proved together with `Shape`: which machine owns the engine decides whether the window may change, and a callback may only sit in the slot or in a busy tx machine |
| UsbProofs | `StreamsFramed` | each item of a stream says how many units of which kind must follow it: `Chain` goes from item to item and must end at what the sender has left, for both streams; `Stopped` is the time of a reset, when both sides throw away what they have |
| UsbProofs | `ResponsesKeepOrder` | what the host waits for is, in order, what is in the tx FIFO, in the response, in the rx machine and in the rx FIFO (`Ordered`). `Outcomes` picks these out of a stream by a recursive function; since no induction scheme is at hand, each of its laws is proved by the least counterexample (`LeastNat`) |
| UsbProofs | `OnlyAfterTimeout` | `TimeoutStarted`: a debug write that waits has its timer started for it |
| SaveProofs: SaveWriteback | `NoSaveForgotten`, `SaveIsExclusive`, `LockKept`, `SaveTyped` | `PendingEnabled` (pending implies enabled) is what `writeback.c:178` relies on when it tests `pending` alone. `LockKept` is an action property that follows from the invariant step by step |
| SaveProofs: N64Pi | `PiKeeps`, `WordsRead`, `WordsWritten` | nothing in the code makes the console wait, so the invariant counts clocks. `Remaining` is how long a request takes yet; each edge brings it one nearer to its end (`RemainingEdge`), and `Prompt`, `FetchOk` and `QueueOk` bound it by what the console's times leave: a word is there before the strobe ends, and a word to write has left its FIFO before the next one comes. `Alone` is why others cannot be in the way of that. On this the rest is built: the words fetched ahead are, one by one, those at the addresses to come (`FetchOk`, which needs that nothing is written while words are fetched), the oldest word that is not written goes to the place of its own strobe (`PlaceOk`, by `Owed`, the number of words behind), and all that is not owed is in place (`Written`). `Strays` says which words a reset may spoil, and `Ages` that no word in memory is as new as those of the next access, so that a place is `Touched` once it is written. TLC has checked each part on the run's instance and on four others before it was proved |
| CfgProofs: CfgCommand | `OwnAnswers`, `ErrorsAreHonest`, `NoStrays`, `BufferReusable`, `ServiceImplemented`, `CfgTyped` | `Held`: what `cfg_process` holds is what the registers hold; `Accounted`: where the one effect of a call is; `Owned`: whose command the registers hold; `Buffer`: who knows what of the debug buffer. The refinement maps each step to one of CommandService or to a stutter |
| CfgProofs: Update | `OneChipAtRisk`, `DoneIsHonest`, `UpdTyped` | `Ahead` and `Behind`: a chip whose turn has not come holds what it held, one whose turn has passed what the file has for it; `McuInStep` and `Ending` carry this over the reset, when the loader reads the parameters; `AsChecked` and `InFile` say that the images are those of the file the check saw; `Reported`: what the host was told |
| MediaProofs: FlashRam | `SaveIsFlash`, `ErasesLast`, `BusyIsPending`, `FlashTyped` | `WriteLeft` and `EraseLeft` say, for every point of an operation, what is left to do until `mem` is `flash`; `Quiet`: the chip is in status mode meanwhile, so that the buffer, which the pending bit does **not** protect (`n64_flashram.sv:147`), holds still. `Waited`: an erase that is under way has its timer, or has had it |
| MediaProofs: DiskDrive | `DiskStays`, `DiskReads`, `DiskWrites`, `DiskInPlace`, `DiskTyped` | the invariant is in DiskInvariant, and TLC has checked it on small instances before it was proved. Its first half is the handshake and does not look at the data: `Noted` is what a snapshot of the status register is still good for, `AtRest` and `InTransfer` say, phase by phase of the game, where the drive can be, and `Shaped` where its cursor is. With it every turn is one of nine kinds (`WorkKinds`). The second half is kept kind by kind: `Owed` (a transfer that began with nothing owed has at most one request on its way, the one the drive waits for), `Filled` and `Sent` (a sector from the game to the PC), `Read` (from the medium to the game) and `Wrote` (from the block buffer to the medium) |
| RtcProofs | `ClockShowsTheDate`, `N64ClockKept`, `RtcTyped` | `Ahead(t)` is the date the chip holds when the true date is `t`: it is what a set writes (`SetShifts`), a midnight of both calendars leads from it to the `Ahead` of the next day (`DayShifts`), and a reading shifts it back (`ReadingShifts`), for each pair of month ends around which the offsets change. The invariant carries this through every half-done set, reading and power cut; `JoyInv` and `N64Inv` do so for the joybus clock |
| ArbiterProofs | `ArbiterServes`, `ArbiterReads` | what a memory works on is an access its source asks for and has not got (`ServesItsClient`), for which clients must hold their requests: `UsesArbiter` shows that the DMA engine does |
| PathProofs | `PathUsesArbiter`, `EngineStaysInside`, `EngineServed` | the engine keeps the arbiter's rules only if it is never acknowledged out of turn, and the arbiter promises that only to clients which keep its rules: both invariants are proved together, edge by edge, the arbiter's part by the lemmas of ArbiterProofs. `Counted`: what its three machines have left ends where the transfer ends |
| PathProofs | `BytesAccounted`, `PayloadArrives`, `BytesKeepOrder` | `FlowInv` of PathInvariant, which TLC has checked on the run's instance and on three larger ones (up to 4.0 M states) before it was proved. Neither order is inductive: that the next byte of the FIFO is the one a machine expects depends on where all the bytes before it are. `Handshake` and `Commands` say how far a reset or a command is and that the engine is quiet where it must be; `Gathers` and `Spreads` in which states the machines at the FIFOs can be for each state of the bus; `GatheredOk` and `WrittenOk` which byte of the host each lane of the word being put together, of the word on the bus and each cell of the memory holds; `SpreadOk` the same for what is read. `UpstreamOk` and `DownstreamOk` then are the two sequences with the bytes in the engine's hands (`ToGather`, `InTx`, `InBuffer`, `OnBus`) added to those in the FIFOs. The steps of the host, the USB interface and the controller take a byte from one piece of a sequence and put it on the next (`OldestTaken`, `NewestGiven`, on the library's SequenceTheorems); the clock edge is proved machine by machine |

What the proofs showed of the models: the first `TextInOrder` held only while the address stayed
where it was, the first `WritesStayInPlace` of DiskDrive only for two transfers, and the first
`TransfersAreRight` only for tables that name no sector twice. They now say what holds in all cases.

Only model-checked:

* All liveness properties: TLAPS has no ENABLED.

Nothing else: each invariant, action property and refinement that a passing run checks is stated by
a theorem.

The RTC's calendar arithmetic is proved for every date, not only those of the run.

## Findings

Disagreements between code and documents, each shown by a run:

* `save_lost` - `cfg.c:135`. The console goes off after a save write but before
  `writeback_process` has seen the counter: nothing is *pending* yet, so `cfg_cmd_check` gives
  the lock back; then the write is seen, and a second later the save finds no lock
  (`writeback.c:87`) and writeback is disabled. `README.md:13` promises automatic writeback.
  `NothingForgotten` and `LockKeptWhilePending` hold all the same: the write is known and its
  lock is kept from the moment it is pending; what is lost is lost before.
* `cfg_retry` - `cfg.c:622` (and 604). A `USB_WRITE` that finds the packet slot full, or a
  `USB_READ` while a debug read runs, is tried again with an address that was already translated
  in place; the second try finds it in no window and answers an error.
* `rtc_feb29` - `rtc.c:150`. `rtc_get_days_in_month` takes all years of the centuries 20xx and 24xx
  for leap years (the condition has no test of the year), so that a clock set before the end of
  February 2025 shows a February 29. `ClockIsRight` excepts exactly these days (`FebruaryGap`).

Seen while reading, without a run of their own:

* Commands. A command written while another is pending is ignored (`n64_cfg.sv:147`), against
  `docs/01_memory_map.md:125`, and line 221 calls the check of CMD_BUSY optional. It can happen
  after a console reset, which leaves a command pending. `WrittenIsStarted` of CfgCommand says it,
  and fails for programs that do not look; the run has programs that do (`CheckBusy = TRUE`).
* IS-Viewer. A callback after the address was set to 0 writes the read pointer to SDRAM address 4, in
  the header of the ROM (`isv.c:44`, against `docs/04_config_options.md:99`; `OffMeansOff` of Isv).
  The same callback uses whatever address is set when it comes: when the host has set another buffer
  in the meantime, the read pointer of that one is moved past text that was never sent, and the text
  of the first is sent twice. `TextInOrder` excepts the buffers this happens to (`astray`).
* USB. A **suspended** link calls the callback of a packet that is still being sent (`usb.c:179-182`),
  and the transfer goes on when the link does. Until then the N64 may reuse the buffer:
  IS-Viewer text can be sent twice and out of order, and debug data can be mixed. `TextInOrder` and
  `OutputBufferFree` state this exception (`early`, `"orphan"`); without it both fail.
* USB. Events that refill the packet slot every turn keep `DATA_FLUSHED` (`usb.c:616`) waiting for
  ever, since `usb_rx_process` comes before the tx machine frees the slot; and with it wait all
  responses behind it. `ResponsesArrive` and `FlushReported` fail without `NoEvents`.
* USB. A debug write of datatype 0 starts no timeout (`usb.c:245`) and may be thrown away at once,
  against the second of `docs/03_usb_interface.md:469`; hence `rxCmd.typed` in `GivenUpAfterTimeout`.
* USB. A host that restarts its reset after a timeout of its own, while the acknowledgement of the
  previous one is on its way, can take the link for up too early and lose its first command. The
  timeouts of the host are not modelled.
* DMA. An odd address with two bytes to write works only because the FIFO's output register
  still holds the last byte it gave (`memory_dma.sv:145-215`).
* Arbiter. The data that an acknowledgement brings with it is chosen by where the N64's address is *now*
  (`memory_arbiter.sv:219-230`): a client other than the N64 that reads flash gets the data of
  SDRAM when the N64 moves in between. `ReadsItsMemory` excepts it; `ReadsItsMemoryAlways` fails.
* PI bus. A request of the N64 that is pending when the console is reset is dropped without an
  acknowledgement (`n64_pi.sv:431-432`), so that the address stays where it is, and the write FIFO is not
  flushed (`n64_pi.sv:374`): the next word of a burst that was cut off is written when the console starts again,
  over the word before it. Of an access that a reset falls in, or whose rest it falls in, `WritesTakeEffect`
  says only that it changes no words but its own: any of these may hold anything, and its save may go
  unreported (`torn`).
* Writeback stays enabled across a power cycle with the sector table of the last game
  (`writeback.c:127`): it relies on the PC not to change the card, and on the first program to set the
  save type.
* 64DD. The late answer to a request that was given up is taken for that of the next one
  (`dd.c:190`): `ReadsTheBlock` fails without `~late`. With three transfers, two of them given up,
  the late answer makes the drive go on before the sectors of its own block are in the buffer's
  memory, and a write puts those of another block into its place: `WritesStayInPlace` excepts the
  requests of such transfers. A block write that fails goes on as if it had
  not (`dd.c:520`): `WritesReachTheDisk` fails without `~failed`. A look at the status in the middle of a
  block write ends `bm_running` early (`dd.c:449`). When the game moves a sector and the interrupt is
  acknowledged in the same turn, the interrupt for the gap is skipped. The button changes the
  disk in the middle of a transfer (`dd.c:282`).
* RTC. Power loss, or a failing transfer, between the century and the date of a set leaves
  the clock wrong until the next set; one failing read of the magic number at power-on resets it;
  a second set of the N64 that comes while the first is being taken is cleared with it
  (`rtc.c:455`). `sc64_set_time` of the bootloader shifts before it masks
  (`sc64.c:390-398`); the bootloader does not call it.
* SD. A lost response to CMD18, CMD25 or CMD12 leaves the card in its transfer until `deinit`
  (`stuck` in `CardIsSelected`); `sd_card_init` answers OK for a card that was swapped (`sd.c:348`);
  the busy wait of R1b has no timeout (`sd.c:152-156`); `sd.c:619` keeps an error code in a
  `bool`, so that every failure is reported as code 1. The numbers of the byte-swap operations in
  `docs/03_usb_interface.md:518-519` differ from `sd.h:56-57`.
* Update. Nothing looks at the checksums again after the reset: a game that turns
  `ROM_WRITE_ENABLE` on again, or loads from the SD card, between the check and the start can change
  what is flashed (`~disturbed` in `DoneIsTrue`). A second `F` that comes before the response to
  the first has left changes `parameters`; the PC tool waits. `vendor_update` refuses a length
  of 0 or no multiple of 16 only when the MCU is already flashed. `update_backup` sees whether the
  file fits after it has written it, and counts its length twice (`update.c:226`). A partly written
  MCU image can be started, since its magic number is among its first words. The status packet
  `DONE` has a second to be read before the FPGA is reconfigured. Busy polls of the chips have no
  timeout.

## What the models leave out

* Contents of memory, addresses within a window and packet formats, except where a property
  tells them apart. The AUX channel is a ping-pong register (`docs/01_memory_map.md:195`).
* The bits of the unlock sequence: it either succeeds or is not finished (`Unlock`).
* Commands that only set a field are one class that succeeds and one that is refused.
* Writeback that is enabled again forgets what was pending (`writeback.c:137`), and a card error in
  the middle of a save gives the rest up (`writeback.c:91`): `promised` is cleared there, by the
  design of the code.
* A read of a register and the memory access behind it are one step; two reads are two steps.
* Sector tables, addresses and lengths of SD requests are checked for their order and place, not
  for their arithmetic modulo 2^32. CRCs are the sector that "goes wrong".
  A card that gives a wrong answer to CMD8 is one of the faults.
* Hosts send whole commands: bytes without the token (`usb.c:144-147`) are thrown away before anything
  depends on them, and the third word of `s` and `S` is one of the arguments. An update file out of range
  (`update.c:239-244`) and one without a token are the same refusal, a length of 0 and one that is no
  multiple of 16 (`vendor_update`) are the same failure.
* In N64Pi a window is one page, and the console never strobes across the end of a page (its own
  PI gives a new address there, `n64_pi.sv:469` counts 17 bits). The synchronization of the pins, setup and
  hold times, the banks of a banked SRAM and the debug counters are left out; the reset is synchronous.
  An event that is registered in the very clock in which the reset begins (`n64_pi.sv:103-109`) has no
  step of its own: a half of an address or the end of an access is ignored then, as if the reset had
  come before it, and a word to write enters its FIFO, as if the reset had come after it.
* In UsbPath one memory (SDRAM) serves; `byte_swap`, tied to 0 for USB, and lengths of 0 are left out.
* In Update a checksum is the sameness of two images.

### Not modelled

The map covers 5.5 % of the implementation's 45 000 lines. About 33 000 of these are
not this program's own: the tables and code of FatFs (`sw/bootloader/src/fatfs`, 24 000 lines), the
headers of CMSIS and of the STM32 (11 000), the SERV core. Of the 12 000 lines that are left, those with
state that several actors share are modelled. What is not:

* **Button and LED** (`button.c`, `led.c`): a debounce counter and a blinking sequence that only
  the same function reads; their timer is in Timer and the button's effects, a packet, a disk
  change and an interrupt, are in UsbController (`EventSources`), DiskDrive (the change) and CfgCommand.
* **CIC** (`sw/cic`, `n64_cic.sv`): a lock-step dialogue of serial bits with the console's PIF, timed in
  cycles; what it computes is a fixed algorithm whose reference is the console.
* **Hardware access** (`hw.c`, `fpga.c`, SPI, I2C, UART, clocks): straight-line register programming
  of a chip that is documented elsewhere; a transfer is one step.
* **Bootloader** (`sw/bootloader`): start-up code, drawing, FAT files and calls, one after the other;
  the calls themselves are the program of CfgCommand.
* **PC tool** (`sw/deployer`): its side of each protocol is the host of the models. Arguments,
  formats and printing have no state. The TCP server and the retries of `link.rs` are
  a second transport of the same packets.
* **Board bring-up** (`primer.c`, `primer.py`, `vendor_initial_configuration`): a dialogue of
  request and answer over a serial line, once in the life of a board.

## Plan

Written, in this order: Timer; UsbController; SaveWriteback; Isv; CommandService and CfgCommand;
FlashRam; Rtc; DiskDrive; SdCard; MemoryDma, MemoryArbiter, UsbFt1248 and UsbPath; Update; N64Pi;
and eight proof modules.

Next: an abstract one-slot packet service, implemented by UsbController and used by Isv, CfgCommand,
SaveWriteback and DiskDrive in place of their own; the PC tool's retries and server with the timeouts of the host.
