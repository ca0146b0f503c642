--------------------------- MODULE SaveWriteback ---------------------------
(***************************************************************************)
(* The automatic writeback of game saves, sw/controller/src/writeback.c,   *)
(* with what decides whether a save can reach the SD card: the lock that   *)
(* the N64 and the PC share (sd.c), its release when the console is off    *)
(* (cfg.c), the presence of the card and the save counter of the FPGA.     *)
(*                                                                         *)
(* "pc" follows the main loop of app.c through the components concerned:   *)
(* cfg_cmd_check ("cfg"), the command of the N64 ("cmd"), sd_process       *)
(* ("sd"), usb_process ("usb") and the three tests of writeback_process    *)
(* ("card", "count", "due"), with the blocking save of the sectors         *)
(* ("save").  The N64, the card, the timer and the USB link move between   *)
(* any two of them.                                                        *)
(*                                                                         *)
(* Save data has no contents here: "promised" is the set of sectors that   *)
(* the game has written, with writeback to the card enabled and the N64    *)
(* holding the card, and that the card does not have yet.                  *)
(***************************************************************************)
EXTENDS Naturals

CONSTANTS
  NSectors,     \* sectors of the save
  CountMod      \* the save counter counts modulo CountMod (2^16)

ASSUME SectorsAssumption == NSectors \in Nat \ {0}
ASSUME CountAssumption == CountMod \in Nat /\ CountMod > 1

Sectors  == 1..NSectors
Counts   == 0..(CountMod - 1)
\* the commands that matter here, of either side
Commands == {"init", "deinit", "enable", "type"}

VARIABLES
  n64,                     \* the console is "on" or "off"
  request,                 \* command of the N64 that waits for the controller
  saveType,                \* a save type is set
  saveCount,               \* save counter of the FPGA
  cardIn, cardReady, lock, \* slot, p.card_initialized and p.lock of sd.c
  link, slotFull,          \* USB link, and its slot for packets
  enabled, pending, mode, lastCount, timer,
  pc, next,                \* next: sector that is saved next
  promised

n64Vars == <<n64, request>>
sdVars  == <<cardIn, cardReady, lock>>
usbVars == <<link, slotFull>>
wbVars  == <<enabled, pending, mode, lastCount, timer>>
vars == <<n64Vars, saveType, saveCount, sdVars, usbVars, wbVars, pc, next, promised>>

Init ==
  /\ n64 = "off" /\ request = "none"
  /\ saveType = FALSE /\ saveCount = 0
  /\ cardIn \in BOOLEAN /\ cardReady = FALSE /\ lock = "none"
  /\ link \in BOOLEAN /\ slotFull = FALSE
  /\ enabled = FALSE /\ pending = FALSE /\ mode = "sd" /\ lastCount = 0
  /\ timer = FALSE
  /\ pc = "cfg" /\ next = 1 /\ promised = {}

-----------------------------------------------------------------------------
(* The lock and the state of the card (sd.c).                               *)

CanLock(side) == lock \in {"none", side}

ReleaseLock(side) == lock' = IF lock = side THEN "none" ELSE lock

\* SD_OP_INIT: an initialized card is not touched again; a failure, an empty
\* slot included, gives the lock back.
SdInit(side) ==
  IF CanLock(side)
    THEN \/ lock' = side /\ cardReady' = TRUE /\ (cardReady \/ cardIn)
         \/ lock' = "none" /\ cardReady' = FALSE /\ ~cardReady
    ELSE UNCHANGED <<lock, cardReady>>

\* SD_OP_DEINIT
SdDeinit(side) ==
  IF CanLock(side)
    THEN lock' = "none" /\ cardReady' = FALSE
    ELSE UNCHANGED <<lock, cardReady>>

-----------------------------------------------------------------------------
(* writeback.c                                                              *)

Disable == enabled' = FALSE /\ pending' = FALSE /\ timer' = FALSE /\ UNCHANGED <<mode, lastCount>>

Enable(m) ==
  /\ enabled' = TRUE /\ pending' = FALSE /\ mode' = m /\ lastCount' = saveCount
  /\ UNCHANGED timer

WritebackPending == enabled /\ pending

\* writeback_process: a save to the card without a card is given up.
CheckCard ==
  /\ pc = "card" /\ pc' = "count"
  /\ IF enabled /\ mode = "sd" /\ ~cardIn
       THEN Disable /\ promised' = {}
       ELSE UNCHANGED <<wbVars, promised>>
  /\ UNCHANGED <<n64Vars, saveType, saveCount, sdVars, usbVars, next>>

Unseen == enabled /\ saveCount # lastCount

\* Bug: the delay starts again in every turn, not only for a new write.
CheckCountRestarts ==
  /\ pc = "count" /\ pc' = "due"
  /\ IF Unseen \/ pending
       THEN /\ pending' = TRUE /\ lastCount' = saveCount /\ timer' = TRUE
            /\ UNCHANGED <<enabled, mode>>
       ELSE UNCHANGED wbVars
  /\ UNCHANGED <<n64Vars, saveType, saveCount, sdVars, usbVars, next, promised>>

\* ... every write seen starts the delay again.
CheckCount ==
  /\ pc = "count" /\ pc' = "due"
  /\ IF Unseen
       THEN /\ pending' = TRUE /\ lastCount' = saveCount /\ timer' = TRUE
            /\ UNCHANGED <<enabled, mode>>
       ELSE UNCHANGED wbVars
  /\ UNCHANGED <<n64Vars, saveType, saveCount, sdVars, usbVars, next, promised>>

Due == pc = "due" /\ pending /\ ~timer

NotDue ==
  /\ pc = "due" /\ ~(pending /\ ~timer)
  /\ pc' = "cfg"
  /\ UNCHANGED <<n64Vars, saveType, saveCount, sdVars, usbVars, wbVars, next, promised>>

\* writeback_save_to_sd without a save type or without the lock.
SaveRefused ==
  /\ Due /\ mode = "sd" /\ (~saveType \/ lock # "n64")
  /\ Disable
  /\ pc' = "cfg" /\ promised' = {}
  /\ UNCHANGED <<n64Vars, saveType, saveCount, sdVars, usbVars, next>>

SaveStart ==
  /\ Due /\ mode = "sd" /\ saveType /\ lock = "n64"
  /\ pc' = "save" /\ next' = 1
  /\ UNCHANGED <<n64Vars, saveType, saveCount, sdVars, usbVars, wbVars, promised>>

\* sd_optimize_sectors: the sectors of the table, in order.
SaveSector ==
  /\ pc = "save" /\ next <= NSectors /\ cardReady /\ cardIn
  /\ promised' = promised \ {next}
  /\ next' = next + 1
  /\ UNCHANGED <<n64Vars, saveType, saveCount, sdVars, usbVars, wbVars, pc>>

\* The card fails, is gone, or has been removed since it was initialized.
SaveFailed ==
  /\ pc = "save" /\ next <= NSectors
  /\ Disable
  /\ pc' = "cfg" /\ promised' = {}
  /\ UNCHANGED <<n64Vars, saveType, saveCount, sdVars, usbVars, next>>

\* Bug: what was counted while the sectors were written is taken for saved.
SaveDoneForgets ==
  /\ pc = "save" /\ next > NSectors
  /\ pending' = FALSE /\ lastCount' = saveCount
  /\ pc' = "cfg"
  /\ UNCHANGED <<n64Vars, saveType, saveCount, sdVars, usbVars, enabled, mode,
                 timer, next, promised>>

SaveDone ==
  /\ pc = "save" /\ next > NSectors
  /\ pending' = FALSE
  /\ pc' = "cfg"
  /\ UNCHANGED <<n64Vars, saveType, saveCount, sdVars, usbVars, enabled, mode,
                 lastCount, timer, next, promised>>

\* writeback_save_to_usb: retried every turn while the slot is full.
SaveToUsb ==
  /\ Due /\ mode = "usb"
  /\ pc' = "cfg"
  /\ slotFull' = TRUE /\ pending' = slotFull
  /\ UNCHANGED <<n64Vars, saveType, saveCount, sdVars, link, enabled, mode,
                 lastCount, timer, next, promised>>

WritebackProcess ==
  \/ CheckCard \/ CheckCount \/ NotDue
  \/ SaveRefused \/ SaveStart \/ SaveSector \/ SaveFailed \/ SaveDone \/ SaveToUsb

-----------------------------------------------------------------------------
(* The rest of the main loop.                                               *)

\* Bug: the lock is released whatever is pending.
CmdCheckReleases ==
  /\ pc = "cfg" /\ pc' = "cmd"
  /\ IF n64 = "off" THEN ReleaseLock("n64") ELSE UNCHANGED lock
  /\ UNCHANGED <<n64Vars, saveType, saveCount, cardIn, cardReady, usbVars, wbVars, next, promised>>

\* Bug: the lock is kept for as long as writeback is enabled.
CmdCheckKeeps ==
  /\ pc = "cfg" /\ pc' = "cmd"
  /\ IF ~enabled /\ n64 = "off" THEN ReleaseLock("n64") ELSE UNCHANGED lock
  /\ UNCHANGED <<n64Vars, saveType, saveCount, cardIn, cardReady, usbVars, wbVars, next, promised>>

\* cfg_cmd_check
CmdCheck ==
  /\ pc = "cfg" /\ pc' = "cmd"
  /\ IF ~WritebackPending /\ n64 = "off" THEN ReleaseLock("n64") ELSE UNCHANGED lock
  /\ UNCHANGED <<n64Vars, saveType, saveCount, cardIn, cardReady, usbVars, wbVars, next, promised>>

\* cfg_set_save_type
SetSaveType(t) == saveType' = t /\ Disable

\* A command of either side; the N64 enables writeback to the card, the PC
\* enables writeback through USB packets.
Execute(side, c) ==
  \/ /\ c = "init" /\ SdInit(side)
     /\ UNCHANGED <<saveType, wbVars, promised>>
  \/ /\ c = "deinit" /\ SdDeinit(side)
     /\ promised' = IF side = "n64" /\ CanLock(side) THEN {} ELSE promised
     /\ UNCHANGED <<saveType, wbVars>>
  \/ /\ c = "enable" /\ Enable(IF side = "n64" THEN "sd" ELSE "usb")
     /\ promised' = {}
     /\ UNCHANGED <<saveType, lock, cardReady>>
  \/ /\ c = "type" /\ \E t \in BOOLEAN : SetSaveType(t)
     /\ promised' = {}
     /\ UNCHANGED <<lock, cardReady>>

\* cfg_process: at most one command of the N64.
N64Command ==
  /\ pc = "cmd" /\ pc' = "sd"
  /\ IF request = "none"
       THEN UNCHANGED <<lock, cardReady, saveType, wbVars, promised>>
       ELSE Execute("n64", request)
  /\ request' = "none"
  /\ UNCHANGED <<n64, saveCount, cardIn, usbVars, next>>

\* sd_process: a card that is gone is not initialized; its lock stays.
SdProcess ==
  /\ pc = "sd" /\ pc' = "usb"
  /\ cardReady' = (cardReady /\ cardIn)
  /\ UNCHANGED <<n64Vars, saveType, saveCount, cardIn, lock, usbVars, wbVars, next, promised>>

\* usb_process on an inactive link: a reset also drops the packet that waits.
UsbInactive ==
  /\ pc = "usb" /\ pc' = "card" /\ ~link
  /\ ReleaseLock("usb")
  /\ slotFull' \in {FALSE, slotFull}
  /\ UNCHANGED <<n64Vars, saveType, saveCount, cardIn, cardReady, link, wbVars, next, promised>>

\* The 'R' command: cfg_reset_state and the release of the lock.
StateReset ==
  /\ SetSaveType(FALSE) /\ ReleaseLock("usb")
  /\ promised' = {}
  /\ UNCHANGED cardReady

\* usb_process on an active link: it may execute a command, and its transmit
\* machine may take the packet from the slot.
UsbActive ==
  /\ pc = "usb" /\ pc' = "card" /\ link
  /\ \/ UNCHANGED <<saveType, lock, cardReady, wbVars, promised>>
     \/ \E c \in Commands : Execute("usb", c)
     \/ StateReset
  /\ slotFull' \in BOOLEAN
  /\ UNCHANGED <<n64Vars, saveCount, cardIn, link, next>>

\* The other producers of packets come before usb_process.
OtherPacket ==
  /\ pc \in {"cfg", "cmd", "sd"} /\ ~slotFull /\ slotFull' = TRUE
  /\ UNCHANGED <<n64Vars, saveType, saveCount, sdVars, link, wbVars, pc, next, promised>>

Controller ==
  \/ CmdCheck \/ N64Command \/ SdProcess
  \/ UsbInactive \/ UsbActive
  \/ WritebackProcess

-----------------------------------------------------------------------------
(* The console, the card, the link and the timer.                           *)

Bump(c) == IF c = CountMod - 1 THEN 0 ELSE c + 1

\* The game writes a sector: the FPGA counts the end of the write.  It makes
\* fewer than CountMod writes between two looks at the counter.
N64Write(s) ==
  /\ n64 = "on" /\ saveType
  /\ enabled => Bump(saveCount) # lastCount
  /\ saveCount' = Bump(saveCount)
  /\ promised' = IF enabled /\ mode = "sd" /\ lock = "n64" THEN promised \cup {s} ELSE promised
  /\ UNCHANGED <<n64Vars, saveType, sdVars, usbVars, wbVars, pc, next>>

N64Request(c) ==
  /\ n64 = "on" /\ request = "none" /\ request' = c
  /\ UNCHANGED <<n64, saveType, saveCount, sdVars, usbVars, wbVars, pc, next, promised>>

\* A command that waits survives the power: only the controller answers it.
PowerSwitch ==
  /\ n64' = IF n64 = "on" THEN "off" ELSE "on"
  /\ UNCHANGED <<request, saveType, saveCount, sdVars, usbVars, wbVars, pc, next, promised>>

CardMoves ==
  /\ cardIn' = ~cardIn
  /\ UNCHANGED <<n64Vars, saveType, saveCount, cardReady, lock, usbVars, wbVars, pc, next, promised>>

LinkMoves ==
  /\ link' = ~link
  /\ UNCHANGED <<n64Vars, saveType, saveCount, sdVars, slotFull, wbVars, pc, next, promised>>

TimerElapses ==
  /\ timer /\ timer' = FALSE
  /\ UNCHANGED <<n64Vars, saveType, saveCount, sdVars, usbVars, enabled, pending, mode,
                 lastCount, pc, next, promised>>

Environment ==
  \/ \E s \in Sectors : N64Write(s)
  \/ \E c \in Commands : N64Request(c)
  \/ PowerSwitch \/ CardMoves \/ LinkMoves \/ TimerElapses

Next == Controller \/ OtherPacket \/ Environment

Spec == Init /\ [][Next]_vars

\* The main loop and the timer never stop; a link that stays up keeps taking
\* packets from the slot (usb.c:626-697).
FairSpec ==
  /\ Spec /\ WF_vars(Controller) /\ WF_vars(TimerElapses)
  /\ SF_vars(UsbActive /\ slotFull' = FALSE)

-----------------------------------------------------------------------------
N64Type ==
  /\ n64 \in {"on", "off"} /\ request \in Commands \cup {"none"}
  /\ saveType \in BOOLEAN /\ saveCount \in Counts

SdType ==
  /\ cardIn \in BOOLEAN /\ cardReady \in BOOLEAN /\ lock \in {"none", "n64", "usb"}
  /\ link \in BOOLEAN /\ slotFull \in BOOLEAN

WbType ==
  /\ enabled \in BOOLEAN /\ pending \in BOOLEAN /\ mode \in {"sd", "usb"}
  /\ lastCount \in Counts /\ timer \in BOOLEAN

LoopType ==
  /\ pc \in {"cfg", "cmd", "sd", "usb", "card", "count", "due", "save"}
  /\ next \in 1..(NSectors + 1) /\ promised \subseteq Sectors

TypeOK == N64Type /\ SdType /\ WbType /\ LoopType

\* No write is forgotten: as long as the card lacks a sector the game wrote,
\* the writeback still knows it, as an unread count, as a pending save or as a
\* sector that the running save has yet to copy; in particular a write that
\* arrives while the sectors are being copied is not taken for saved
\* (writeback.c:163-196, n64_save_counter.sv:10-18).
NothingForgotten ==
  promised # {} =>
    /\ enabled /\ mode = "sd"
    /\ \/ Unseen
       \/ pending /\ pc # "save"
       \/ pc = "save" /\ promised \subseteq next..NSectors

\* While a save is pending, the N64 only loses the card by its own command:
\* not by the power going off, nor to the PC (cfg.c:134-137, sd.c:632-651).
LockKeptWhilePending ==
  [][WritebackPending /\ lock = "n64" /\ lock' # "n64" =>
       pc = "cmd" /\ request \in {"init", "deinit"}]_vars

\* The card is written for the N64 only while the N64 has it: the PC, which
\* may then know nothing of the card's file system, cannot get it before the
\* last sector (writeback.c:78-98, sd.c:632-651).
SaveHoldsLock == pc = "save" => lock = "n64" /\ enabled /\ pending /\ mode = "sd"

Quiet == <>[][saveCount' = saveCount]_vars

\* Once the game stops writing, what it wrote is on the card, unless writeback
\* was turned off on the way (writeback.c:163-196).
SavedInTheEnd == Quiet => (promised # {} ~> promised = {})

\* Neither side keeps the card from the other for ever: a console that stays
\* off gives it back, whatever save was pending, and so does a link that stays
\* down (cfg.c:134-137, usb.c:751-759).
LocksReleased ==
  /\ <>[](n64 = "off" /\ link) => []<>(lock # "n64")
  /\ <>[]~link => []<>(lock # "usb")

\* What the game wrote while it had the card and writeback was on is never
\* thrown away for want of the lock.
NeverLockedOut == [][SaveRefused => promised = {}]_vars
=============================================================================
