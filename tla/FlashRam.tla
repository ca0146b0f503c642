------------------------------ MODULE FlashRam ------------------------------
(***************************************************************************)
(* The emulated FlashRAM: the command registers and status of              *)
(* fw/rtl/n64/n64_flashram.sv and the controller that does the work,       *)
(* sw/controller/src/flashram.c.  A page holds a set of bits that are one: *)
(* erasing sets all, programming clears those that are not in the buffer.  *)
(* The game writes registers between any two steps of the controller.      *)
(*                                                                         *)
(* "flash" is the chip the game believes in, which erases and programs at  *)
(* the moment of the command; "mem" is the save in SDRAM.                  *)
(***************************************************************************)
EXTENDS Naturals

CONSTANTS
  Sectors,          \* FLASHRAM_SIZE in sectors
  SectorSize,       \* FLASHRAM_SECTOR_SIZE in pages
  Bits              \* of a page

ASSUME SizeAssumption == Sectors \in Nat \ {0} /\ SectorSize \in Nat \ {0}

Pages    == 0..(Sectors * SectorSize - 1)
Values   == SUBSET Bits
Erased   == Bits
Commands == {"status", "id", "read", "eraseSector", "eraseChip", "buffer", "eraseStart", "writeStart"}
Status   == {"writeBusy", "eraseBusy", "writeDone", "eraseDone"}

VARIABLES
  full,                                          \* save type FLASHRAM, not FLASHRAM_FAKE
  state, cmd, eraseEnabled, status,              \* n64_flashram.sv
  pending, writeOrErase, sectorOrAll, page,      \* its request to the controller
  buffer,                                        \* memory_bram.sv
  mem,                                           \* the save, in SDRAM
  pc, todo, pageBuffer,                          \* where flashram_process is
  erasing, timer,                                \* p.pending and its countdown
  flash,                                         \* the chip of the game
  waited                                         \* the erase has waited its time

gameVars  == <<state, cmd, eraseEnabled, buffer>>
reqVars   == <<pending, writeOrErase, sectorOrAll, page>>
workVars  == <<pc, todo, pageBuffer>>
waitVars  == <<erasing, timer>>
ghostVars == <<flash, waited>>
vars == <<full, gameVars, status, reqVars, mem, workVars, waitVars, ghostVars>>

\* A save type is set before the game starts.
Init ==
  /\ full \in BOOLEAN
  /\ state = "status" /\ cmd \in Commands /\ eraseEnabled = FALSE /\ status = {}
  /\ pending = FALSE /\ writeOrErase = FALSE /\ sectorOrAll = FALSE /\ page = 0
  /\ buffer = {} /\ mem \in [Pages -> {{}, Erased}]
  /\ pc = "idle" /\ todo = {} /\ pageBuffer = {}
  /\ erasing = FALSE /\ timer = "elapsed"
  /\ flash = mem /\ waited = FALSE

-----------------------------------------------------------------------------
(* The game.  Every write is ignored while an operation is pending.         *)

SetCommand(c) ==
  /\ ~pending /\ cmd' = c
  /\ UNCHANGED <<full, state, eraseEnabled, buffer, status, reqVars, mem, workVars, waitVars, ghostVars>>

SetMode(c) ==
  /\ ~pending /\ cmd = c /\ c \in {"status", "id", "read", "buffer"}
  /\ state' = c /\ eraseEnabled' = FALSE
  /\ UNCHANGED <<full, cmd, buffer, status, reqVars, mem, workVars, waitVars, ghostVars>>

EraseSetup(p) ==
  /\ ~pending /\ cmd \in {"eraseSector", "eraseChip"}
  /\ state' = "status" /\ eraseEnabled' = TRUE
  /\ sectorOrAll' = (cmd = "eraseChip")
  /\ page' = IF cmd = "eraseChip" THEN 0 ELSE p
  /\ UNCHANGED <<full, cmd, buffer, status, pending, writeOrErase, mem, workVars, waitVars, ghostVars>>

\* The pages an erase is about.
FirstOfSector(p) == p - (p % SectorSize)

Erasable == IF sectorOrAll THEN Pages
            ELSE FirstOfSector(page)..(FirstOfSector(page) + SectorSize - 1)

EraseStart ==
  /\ ~pending /\ cmd = "eraseStart"
  /\ state' = "status" /\ eraseEnabled' = FALSE
  /\ IF eraseEnabled
     THEN /\ status' = (status \ {"eraseDone"}) \cup {"eraseBusy"}
          /\ pending' = TRUE /\ writeOrErase' = TRUE
          /\ flash' = [q \in Pages |-> IF q \in Erasable THEN Erased ELSE flash[q]]
          /\ waited' = FALSE
     ELSE UNCHANGED <<status, pending, writeOrErase, ghostVars>>
  /\ UNCHANGED <<full, cmd, buffer, sectorOrAll, page, mem, workVars, waitVars>>

\* What programming makes of a page: real flash only clears bits.
Programmed(old, new) == IF full THEN old \cap new ELSE new

\* Bug: the mode stays, and the game may fill the buffer while it is used.
WriteStartKeepsMode(p) ==
  /\ ~pending /\ cmd = "writeStart"
  /\ eraseEnabled' = FALSE
  /\ status' = (status \ {"writeDone"}) \cup {"writeBusy"}
  /\ pending' = TRUE /\ writeOrErase' = FALSE /\ sectorOrAll' = FALSE /\ page' = p
  /\ flash' = [flash EXCEPT ![p] = Programmed(@, buffer)]
  /\ UNCHANGED <<full, state, cmd, buffer, mem, workVars, waitVars, waited>>

WriteStart(p) ==
  /\ ~pending /\ cmd = "writeStart"
  /\ state' = "status" /\ eraseEnabled' = FALSE
  /\ status' = (status \ {"writeDone"}) \cup {"writeBusy"}
  /\ pending' = TRUE /\ writeOrErase' = FALSE /\ sectorOrAll' = FALSE /\ page' = p
  /\ flash' = [flash EXCEPT ![p] = Programmed(@, buffer)]
  /\ UNCHANGED <<full, cmd, buffer, mem, workVars, waitVars, waited>>

\* Data writes go into the buffer in buffer mode, also while an operation is
\* pending (n64_flashram.sv:147); in status mode they clear the status.
WriteBuffer(v) ==
  /\ state = "buffer" /\ buffer' = v
  /\ UNCHANGED <<full, state, cmd, eraseEnabled, status, reqVars, mem, workVars, waitVars, ghostVars>>

ClearStatus ==
  /\ ~pending /\ state = "status" /\ status' = status \ {"eraseDone", "writeDone"}
  /\ UNCHANGED <<full, gameVars, reqVars, mem, workVars, waitVars, ghostVars>>

Game ==
  \/ \E c \in Commands : SetCommand(c) \/ SetMode(c)
  \/ \E p \in Pages : EraseSetup(p) \/ WriteStart(p)
  \/ \E v \in Values : WriteBuffer(v)
  \/ EraseStart \/ ClearStatus

-----------------------------------------------------------------------------
(* flashram_process.                                                        *)

\* FLASHRAM_SCR_DONE: the end of the operation shows in the status.
Done ==
  /\ pending' = FALSE
  /\ status' = IF writeOrErase THEN (status \ {"eraseBusy"}) \cup {"eraseDone"}
               ELSE (status \ {"writeBusy"}) \cup {"writeDone"}

\* The page to program is read with what it is programmed with.
StartWrite ==
  /\ pc = "idle" /\ pending /\ ~erasing /\ ~writeOrErase
  /\ pc' = "write" /\ pageBuffer' = Programmed(mem[page], buffer)
  /\ UNCHANGED <<full, gameVars, status, reqVars, mem, todo, waitVars, ghostVars>>

WritePage ==
  /\ pc = "write" /\ pc' = "end"
  /\ mem' = [mem EXCEPT ![page] = pageBuffer]
  /\ UNCHANGED <<full, gameVars, status, reqVars, todo, pageBuffer, waitVars, ghostVars>>

\* Bug: the timer of the erase before is taken for this one's.
StartEraseNoTimer ==
  /\ pc = "idle" /\ pending /\ ~erasing /\ writeOrErase
  /\ pc' = "erase" /\ todo' = Erasable /\ erasing' = full
  /\ UNCHANGED <<full, gameVars, status, reqVars, mem, pageBuffer, timer, ghostVars>>

\* Bug: an erase that waits is started again every turn.
StartEraseAgain ==
  /\ pc = "idle" /\ pending /\ writeOrErase
  /\ pc' = "erase" /\ todo' = Erasable
  /\ IF full THEN erasing' = TRUE /\ timer' = "running" ELSE UNCHANGED waitVars
  /\ UNCHANGED <<full, gameVars, status, reqVars, mem, pageBuffer, ghostVars>>

StartErase ==
  /\ pc = "idle" /\ pending /\ ~erasing /\ writeOrErase
  /\ pc' = "erase" /\ todo' = Erasable
  /\ IF full THEN erasing' = TRUE /\ timer' = "running" ELSE UNCHANGED waitVars
  /\ UNCHANGED <<full, gameVars, status, reqVars, mem, pageBuffer, ghostVars>>

\* The pages are erased in their order.
ErasePage(p) ==
  /\ pc = "erase" /\ p \in todo /\ \A q \in todo : p <= q
  /\ mem' = [mem EXCEPT ![p] = Erased] /\ todo' = todo \ {p}
  /\ UNCHANGED <<full, gameVars, status, reqVars, pc, pageBuffer, waitVars, ghostVars>>

\* With full emulation the erase lasts: flashram_process returns.
Erasing ==
  /\ pc = "erase" /\ todo = {} /\ full /\ pc' = "idle"
  /\ UNCHANGED <<full, gameVars, status, reqVars, mem, todo, pageBuffer, waitVars, ghostVars>>

EraseEnds ==
  /\ pc = "idle" /\ pending /\ erasing /\ timer = "elapsed"
  /\ erasing' = FALSE /\ Done
  /\ UNCHANGED <<full, gameVars, writeOrErase, sectorOrAll, page, mem, workVars, timer, ghostVars>>

OperationEnds ==
  /\ \/ pc = "end"
     \/ pc = "erase" /\ todo = {} /\ ~full
  /\ pc' = "idle" /\ Done
  /\ UNCHANGED <<full, gameVars, writeOrErase, sectorOrAll, page, mem, todo, pageBuffer, waitVars, ghostVars>>

\* cfg_set_save_type, by the host or the game, between two turns: an erase goes
\* on as it began, and a page that waits is programmed as the new type says.
\* Any other save type works like FLASHRAM, with a game that does nothing.
SetSaveType ==
  /\ pc = "idle" /\ full' = ~full
  /\ UNCHANGED <<gameVars, status, reqVars, mem, workVars, waitVars, waited>>
  /\ flash' = IF pending /\ ~writeOrErase
                THEN [mem EXCEPT ![page] = Programmed(mem[page], buffer)'] ELSE flash

FlashramProcess ==
  \/ StartWrite \/ WritePage \/ StartErase \/ Erasing \/ EraseEnds \/ OperationEnds
  \/ \E p \in Pages : ErasePage(p)

TimerElapses ==
  /\ timer = "running" /\ timer' = "elapsed" /\ waited' = TRUE
  /\ UNCHANGED <<full, gameVars, status, reqVars, mem, workVars, erasing, flash>>

Next == Game \/ SetSaveType \/ FlashramProcess \/ TimerElapses

Spec == Init /\ [][Next]_vars

\* The main loop and the interrupt of the timer go on.
FairSpec == Spec /\ WF_vars(FlashramProcess) /\ WF_vars(TimerElapses)

-----------------------------------------------------------------------------
TypeOK ==
  /\ full \in BOOLEAN
  /\ state \in {"status", "id", "read", "buffer"} /\ cmd \in Commands
  /\ eraseEnabled \in BOOLEAN /\ status \subseteq Status
  /\ pending \in BOOLEAN /\ writeOrErase \in BOOLEAN /\ sectorOrAll \in BOOLEAN /\ page \in Pages
  /\ buffer \in Values /\ mem \in [Pages -> Values] /\ flash \in [Pages -> Values]
  /\ pc \in {"idle", "write", "erase", "end"} /\ todo \subseteq Pages /\ pageBuffer \in Values
  /\ erasing \in BOOLEAN /\ timer \in {"running", "elapsed"} /\ waited \in BOOLEAN

\* A game that reads, or whose operation has ended, sees what its commands
\* made of the chip: the operation takes several writes to memory, and the
\* request, the buffer and the mode must hold still for them
\* (flashram.c:72-123, n64_flashram.sv:77-144).
ReadsSeeFlash == state = "read" \/ ~pending => mem = flash

\* The chip is busy exactly while an operation is pending, with the one it
\* was asked for (n64_flashram.sv:66-75, 115-133).
StatusIsHonest ==
  /\ "eraseBusy" \in status <=> pending /\ writeOrErase
  /\ "writeBusy" \in status <=> pending /\ ~writeOrErase

\* With full emulation an erase is over only when the time that started with
\* this erase, not with another one, is over (flashram.c:72-77, 100-103).
EraseTakesItsTime == [][full /\ pending /\ writeOrErase /\ ~pending' => waited]_vars

\* Every operation ends (flashram.c:58-124).
OperationsEnd == pending ~> ~pending
=============================================================================
