---------------------------- MODULE MediaProofs ----------------------------
(***************************************************************************)
(* Proofs about what a game stores: the FlashRAM (FlashRam.tla) and the    *)
(* 64DD (DiskDrive.tla), for chips, blocks and disks of any size.          *)
(*                                                                         *)
(* FlashRAM: the invariant says, for every point of an operation, what is  *)
(* left to do until the save in memory is the chip the game believes in.   *)
(*                                                                         *)
(* 64DD: DiskInvariant.tla holds the invariant.  Its first half            *)
(* (ControlInv) is the handshake, and is kept without looking at the data. *)
(* Then every turn is sorted by what it does to the data (WorkKinds), and  *)
(* the second half (DataInv) is kept kind by kind.                         *)
(***************************************************************************)
EXTENDS FlashRam, DiskInvariant, SequenceTheorems, FiniteSetTheorems, TLAPS

-----------------------------------------------------------------------------
\* The FlashRAM.

ChipType ==
  /\ full \in BOOLEAN
  /\ mem \in [Pages -> Values] /\ flash \in [Pages -> Values]
  /\ buffer \in Values /\ pageBuffer \in Values /\ page \in Pages
  /\ pending \in BOOLEAN /\ writeOrErase \in BOOLEAN /\ erasing \in BOOLEAN
  /\ status \subseteq Status /\ pc \in {"idle", "write", "erase", "end"}

\* Between operations the controller does nothing; during one the chip is in
\* status mode, which keeps the buffer as it is.
Quiet ==
  /\ ~pending => pc = "idle" /\ ~erasing /\ mem = flash
  /\ pending => state = "status"

\* What is left of programming a page.
WriteLeft ==
  pending /\ ~writeOrErase =>
    /\ pc \in {"idle", "write", "end"} /\ ~erasing
    /\ pc = "idle"  => flash = [mem EXCEPT ![page] = Programmed(mem[page], buffer)]
    /\ pc = "write" => flash = [mem EXCEPT ![page] = pageBuffer]
    /\ pc = "end"   => flash = mem

\* What is left of an erase.
EraseLeft ==
  pending /\ writeOrErase =>
    /\ pc \in {"idle", "erase"}
    /\ pc = "idle" /\ ~erasing =>
         flash = [q \in Pages |-> IF q \in Erasable THEN Erased ELSE mem[q]]
    /\ pc = "idle" /\ erasing => flash = mem
    /\ pc = "erase" =>
         /\ erasing = full
         /\ flash = [q \in Pages |-> IF q \in todo THEN Erased ELSE mem[q]]

FlashInv == ChipType /\ Quiet /\ StatusIsHonest /\ WriteLeft /\ EraseLeft

\* There is a first page.
LEMMA ZeroIsPage == 0 \in Pages
<1>1. Sectors * SectorSize \in Nat \ {0}
  BY SizeAssumption
<1>2. QED BY <1>1 DEF Pages

\* A sector lies inside the chip, whichever of its pages names it.
LEMMA SectorInside == page \in Pages => Erasable \subseteq Pages
<1> SUFFICES ASSUME page \in Pages, ~sectorOrAll PROVE Erasable \subseteq Pages
  BY DEF Erasable
<1> DEFINE f == FirstOfSector(page)  q == page \div SectorSize
<1>1. SectorSize \in Nat \ {0} /\ Sectors \in Nat \ {0} /\ page \in Nat /\ page < Sectors * SectorSize
  BY SizeAssumption DEF Pages
<1>2. q \in Nat /\ page = q * SectorSize + (page % SectorSize) /\ page % SectorSize \in Nat
  BY <1>1
<1>3. f = q * SectorSize
  BY <1>1, <1>2 DEF FirstOfSector
<1>4. q < Sectors
  <2>1. SUFFICES ASSUME q >= Sectors PROVE FALSE
    BY <1>1, <1>2
  <2>2. q * SectorSize >= Sectors * SectorSize
    BY <2>1, <1>1, <1>2
  <2>3. QED BY <2>2, <1>1, <1>2
<1>5. (q + 1) * SectorSize <= Sectors * SectorSize
  BY <1>4, <1>1, <1>2
<1>6. f + SectorSize <= Sectors * SectorSize /\ f \in Nat
  BY <1>5, <1>3, <1>1, <1>2
<1>7. QED BY <1>6, <1>1 DEF Erasable, Pages

\* Nothing is pending when the chip is powered, and the game knows what is saved.
LEMMA FlashStarts == Init => FlashInv
<1> SUFFICES ASSUME Init PROVE FlashInv
  OBVIOUS
<1>1. 0 \in Pages
  BY ZeroIsPage
<1>2. {{}, Erased} \subseteq Values
  BY DEF Erased, Values
<1>3. ChipType
  BY <1>1, <1>2 DEF Init, ChipType, Values, Status
<1>4. Quiet /\ StatusIsHonest /\ WriteLeft /\ EraseLeft
  BY DEF Init, Quiet, StatusIsHonest, WriteLeft, EraseLeft
<1>5. QED BY <1>3, <1>4 DEF FlashInv

\* Every step of the game and of the controller keeps the invariant.
LEMMA FlashStep == FlashInv /\ [Next]_vars => FlashInv'
<1> SUFFICES ASSUME FlashInv, [Next]_vars PROVE FlashInv'
  OBVIOUS
<1> USE DEF gameVars, reqVars, workVars, waitVars, ghostVars, vars, Status
<1>1. ASSUME NEW c \in Commands, SetCommand(c) PROVE FlashInv'
  <2>1. ChipType'
    BY <1>1 DEF SetCommand, FlashInv, ChipType, Values, Erased, Programmed, WriteLeft
  <2>2. Quiet'
    BY <1>1 DEF SetCommand, FlashInv, Quiet
  <2>3. StatusIsHonest'
    BY <1>1 DEF SetCommand, FlashInv, Quiet, ChipType, StatusIsHonest
  <2>4. WriteLeft'
    BY <1>1 DEF SetCommand, FlashInv, ChipType, Quiet, WriteLeft, EraseLeft, Programmed, Erasable, FirstOfSector
  <2>5. EraseLeft'
    BY <1>1 DEF SetCommand, FlashInv, ChipType, Quiet, WriteLeft, EraseLeft, Erasable, FirstOfSector
  <2>6. QED BY <2>1, <2>2, <2>3, <2>4, <2>5 DEF FlashInv
<1>2. ASSUME NEW c \in Commands, SetMode(c) PROVE FlashInv'
  <2>1. ChipType'
    BY <1>2 DEF SetMode, FlashInv, ChipType, Values, Erased, Programmed, WriteLeft
  <2>2. Quiet'
    BY <1>2 DEF SetMode, FlashInv, Quiet
  <2>3. StatusIsHonest'
    BY <1>2 DEF SetMode, FlashInv, Quiet, ChipType, StatusIsHonest
  <2>4. WriteLeft'
    BY <1>2 DEF SetMode, FlashInv, ChipType, Quiet, WriteLeft, EraseLeft, Programmed, Erasable, FirstOfSector
  <2>5. EraseLeft'
    BY <1>2 DEF SetMode, FlashInv, ChipType, Quiet, WriteLeft, EraseLeft, Erasable, FirstOfSector
  <2>6. QED BY <2>1, <2>2, <2>3, <2>4, <2>5 DEF FlashInv
<1>3. ASSUME NEW p \in Pages, EraseSetup(p) PROVE FlashInv'
  <2>1. ChipType'
    BY <1>3, ZeroIsPage DEF EraseSetup, FlashInv, ChipType
  <2>2. Quiet'
    BY <1>3 DEF EraseSetup, FlashInv, Quiet
  <2>3. StatusIsHonest'
    BY <1>3 DEF EraseSetup, FlashInv, Quiet, ChipType, StatusIsHonest
  <2>4. WriteLeft'
    BY <1>3 DEF EraseSetup, FlashInv, ChipType, Quiet, WriteLeft, EraseLeft, Programmed, Erasable, FirstOfSector
  <2>5. EraseLeft'
    BY <1>3 DEF EraseSetup, FlashInv, ChipType, Quiet, WriteLeft, EraseLeft, Erasable, FirstOfSector
  <2>6. QED BY <2>1, <2>2, <2>3, <2>4, <2>5 DEF FlashInv
<1>4. ASSUME NEW p \in Pages, WriteStart(p) PROVE FlashInv'
  <2>1. ChipType'
    BY <1>4 DEF WriteStart, Programmed, FlashInv, ChipType, Values, Erased, Programmed, WriteLeft
  <2>2. Quiet'
    BY <1>4 DEF WriteStart, Programmed, FlashInv, Quiet
  <2>3. StatusIsHonest'
    BY <1>4 DEF WriteStart, Programmed, FlashInv, Quiet, ChipType, StatusIsHonest
  <2>4. WriteLeft'
    BY <1>4 DEF WriteStart, Programmed, FlashInv, ChipType, Quiet, WriteLeft, EraseLeft, Programmed, Erasable, FirstOfSector
  <2>5. EraseLeft'
    BY <1>4 DEF WriteStart, Programmed, FlashInv, ChipType, Quiet, WriteLeft, EraseLeft, Erasable, FirstOfSector
  <2>6. QED BY <2>1, <2>2, <2>3, <2>4, <2>5 DEF FlashInv
<1>5. ASSUME NEW v \in Values, WriteBuffer(v) PROVE FlashInv'
  <2>1. ChipType'
    BY <1>5 DEF WriteBuffer, Values, FlashInv, ChipType, Values, Erased, Programmed, WriteLeft
  <2>2. Quiet'
    BY <1>5 DEF WriteBuffer, Values, FlashInv, Quiet
  <2>3. StatusIsHonest'
    BY <1>5 DEF WriteBuffer, Values, FlashInv, Quiet, ChipType, StatusIsHonest
  <2>4. WriteLeft'
    BY <1>5 DEF WriteBuffer, Values, FlashInv, ChipType, Quiet, WriteLeft, EraseLeft, Programmed, Erasable, FirstOfSector
  <2>5. EraseLeft'
    BY <1>5 DEF WriteBuffer, Values, FlashInv, ChipType, Quiet, WriteLeft, EraseLeft, Erasable, FirstOfSector
  <2>6. QED BY <2>1, <2>2, <2>3, <2>4, <2>5 DEF FlashInv
<1>6. ASSUME EraseStart PROVE FlashInv'
  <2>1. ChipType'
    BY <1>6 DEF EraseStart, FlashInv, ChipType, Values, Erased, Programmed, WriteLeft
  <2>2. Quiet'
    BY <1>6 DEF EraseStart, FlashInv, Quiet
  <2>3. StatusIsHonest'
    BY <1>6 DEF EraseStart, FlashInv, Quiet, ChipType, StatusIsHonest
  <2>4. WriteLeft'
    BY <1>6 DEF EraseStart, FlashInv, ChipType, Quiet, WriteLeft, EraseLeft, Programmed, Erasable, FirstOfSector
  <2>5. EraseLeft'
    BY <1>6 DEF EraseStart, FlashInv, ChipType, Quiet, WriteLeft, EraseLeft, Erasable, FirstOfSector
  <2>6. QED BY <2>1, <2>2, <2>3, <2>4, <2>5 DEF FlashInv
<1>7. ASSUME ClearStatus PROVE FlashInv'
  <2>1. ChipType'
    BY <1>7 DEF ClearStatus, FlashInv, ChipType, Values, Erased, Programmed, WriteLeft
  <2>2. Quiet'
    BY <1>7 DEF ClearStatus, FlashInv, Quiet
  <2>3. StatusIsHonest'
    BY <1>7 DEF ClearStatus, FlashInv, Quiet, ChipType, StatusIsHonest
  <2>4. WriteLeft'
    BY <1>7 DEF ClearStatus, FlashInv, ChipType, Quiet, WriteLeft, EraseLeft, Programmed, Erasable, FirstOfSector
  <2>5. EraseLeft'
    BY <1>7 DEF ClearStatus, FlashInv, ChipType, Quiet, WriteLeft, EraseLeft, Erasable, FirstOfSector
  <2>6. QED BY <2>1, <2>2, <2>3, <2>4, <2>5 DEF FlashInv
<1>8. ASSUME StartWrite PROVE FlashInv'
  <2>1. ChipType'
    BY <1>8 DEF StartWrite, Programmed, FlashInv, ChipType, Values, Erased, Programmed, WriteLeft
  <2>2. Quiet'
    BY <1>8 DEF StartWrite, Programmed, FlashInv, Quiet
  <2>3. StatusIsHonest'
    BY <1>8 DEF StartWrite, Programmed, FlashInv, Quiet, ChipType, StatusIsHonest
  <2>4. WriteLeft'
    BY <1>8 DEF StartWrite, Programmed, FlashInv, ChipType, Quiet, WriteLeft, EraseLeft, Programmed, Erasable, FirstOfSector
  <2>5. EraseLeft'
    BY <1>8 DEF StartWrite, Programmed, FlashInv, ChipType, Quiet, WriteLeft, EraseLeft, Erasable, FirstOfSector
  <2>6. QED BY <2>1, <2>2, <2>3, <2>4, <2>5 DEF FlashInv
<1>9. ASSUME WritePage PROVE FlashInv'
  <2>1. ChipType'
    BY <1>9 DEF WritePage, FlashInv, ChipType, Values, Erased, Programmed, WriteLeft
  <2>2. Quiet'
    BY <1>9 DEF WritePage, FlashInv, Quiet
  <2>3. StatusIsHonest'
    BY <1>9 DEF WritePage, FlashInv, Quiet, ChipType, StatusIsHonest
  <2>4. WriteLeft'
    BY <1>9 DEF WritePage, FlashInv, ChipType, Quiet, WriteLeft, EraseLeft, Programmed, Erasable, FirstOfSector
  <2>5. EraseLeft'
    BY <1>9 DEF WritePage, FlashInv, ChipType, Quiet, WriteLeft, EraseLeft, Erasable, FirstOfSector
  <2>6. QED BY <2>1, <2>2, <2>3, <2>4, <2>5 DEF FlashInv
<1>10. ASSUME StartErase PROVE FlashInv'
  <2>1. ChipType'
    BY <1>10 DEF StartErase, FlashInv, ChipType, Values, Erased, Programmed, WriteLeft
  <2>2. Quiet'
    BY <1>10 DEF StartErase, FlashInv, Quiet
  <2>3. StatusIsHonest'
    BY <1>10 DEF StartErase, FlashInv, Quiet, ChipType, StatusIsHonest
  <2>4. WriteLeft'
    BY <1>10 DEF StartErase, FlashInv, ChipType, Quiet, WriteLeft, EraseLeft, Programmed, Erasable, FirstOfSector
  <2>5. EraseLeft'
    <3>1. pc' = "erase" /\ todo' = Erasable /\ mem' = mem /\ flash' = flash
      BY <1>10 DEF StartErase
    <3>2. flash = [q \in Pages |-> IF q \in Erasable THEN Erased ELSE mem[q]]
      BY <1>10 DEF StartErase, FlashInv, EraseLeft
    <3>3. erasing' = full'
      <4>1. CASE full
        <5>1. full' = TRUE
          BY <1>10, <4>1 DEF StartErase, FlashInv, ChipType
        <5>2. erasing' = TRUE
          BY <1>10, <4>1 DEF StartErase
        <5>3. QED BY <5>1, <5>2
      <4>2. CASE ~full
        <5>1. erasing' = erasing /\ ~erasing
          BY <1>10, <4>2 DEF StartErase
        <5>2. erasing = FALSE
          BY <5>1 DEF FlashInv, ChipType
        <5>3. full' = FALSE
          BY <1>10, <4>2 DEF StartErase, FlashInv, ChipType
        <5>4. QED BY <5>1, <5>2, <5>3
      <4>3. QED BY <4>1, <4>2
    <3>4. QED BY <3>1, <3>2, <3>3 DEF EraseLeft
  <2>6. QED BY <2>1, <2>2, <2>3, <2>4, <2>5 DEF FlashInv
<1>11. ASSUME NEW p \in Pages, ErasePage(p) PROVE FlashInv'
  <2>1. ChipType'
    BY <1>11 DEF ErasePage, FlashInv, ChipType, Values, Erased, Programmed, WriteLeft
  <2>2. Quiet'
    BY <1>11 DEF ErasePage, FlashInv, Quiet
  <2>3. StatusIsHonest'
    BY <1>11 DEF ErasePage, FlashInv, Quiet, ChipType, StatusIsHonest
  <2>4. WriteLeft'
    BY <1>11 DEF ErasePage, FlashInv, ChipType, Quiet, WriteLeft, EraseLeft, Programmed, Erasable, FirstOfSector
  <2>5. EraseLeft'
    BY <1>11 DEF ErasePage, FlashInv, ChipType, Quiet, WriteLeft, EraseLeft, Erasable, FirstOfSector
  <2>6. QED BY <2>1, <2>2, <2>3, <2>4, <2>5 DEF FlashInv
<1>12. ASSUME Erasing PROVE FlashInv'
  <2>1. ChipType'
    BY <1>12 DEF Erasing, FlashInv, ChipType, Values, Erased, Programmed, WriteLeft
  <2>2. Quiet'
    BY <1>12 DEF Erasing, FlashInv, Quiet
  <2>3. StatusIsHonest'
    BY <1>12 DEF Erasing, FlashInv, Quiet, ChipType, StatusIsHonest
  <2>4. WriteLeft'
    BY <1>12 DEF Erasing, FlashInv, ChipType, Quiet, WriteLeft, EraseLeft, Programmed, Erasable, FirstOfSector
  <2>5. EraseLeft'
    BY <1>12 DEF Erasing, FlashInv, ChipType, Quiet, WriteLeft, EraseLeft, Erasable, FirstOfSector
  <2>6. QED BY <2>1, <2>2, <2>3, <2>4, <2>5 DEF FlashInv
<1>13. ASSUME EraseEnds PROVE FlashInv'
  <2>1. ChipType'
    BY <1>13 DEF EraseEnds, Done, FlashInv, ChipType, Values, Erased, Programmed, WriteLeft
  <2>2. Quiet'
    <3>1. flash = mem
      BY <1>13 DEF EraseEnds, FlashInv, ChipType, WriteLeft, EraseLeft
    <3>2. QED BY <1>13, <3>1 DEF EraseEnds, Done, Quiet
  <2>3. StatusIsHonest'
    BY <1>13 DEF EraseEnds, Done, FlashInv, Quiet, ChipType, StatusIsHonest
  <2>4. WriteLeft'
    BY <1>13 DEF EraseEnds, Done, FlashInv, ChipType, Quiet, WriteLeft, EraseLeft, Programmed, Erasable, FirstOfSector
  <2>5. EraseLeft'
    BY <1>13 DEF EraseEnds, Done, FlashInv, ChipType, Quiet, WriteLeft, EraseLeft, Erasable, FirstOfSector
  <2>6. QED BY <2>1, <2>2, <2>3, <2>4, <2>5 DEF FlashInv
<1>14. ASSUME OperationEnds PROVE FlashInv'
  <2>1. ChipType'
    BY <1>14 DEF OperationEnds, Done, FlashInv, ChipType, Values, Erased, Programmed, WriteLeft
  <2>2. Quiet'
    <3>1. CASE pc = "end"
      <4>1. pending /\ ~writeOrErase
        BY <3>1 DEF FlashInv, ChipType, Quiet, EraseLeft
      <4>2. flash = mem /\ ~erasing
        BY <3>1, <4>1 DEF FlashInv, WriteLeft
      <4>3. QED BY <1>14, <4>2 DEF OperationEnds, Done, Quiet
    <3>2. CASE pc = "erase" /\ todo = {} /\ ~full
      <4>1. pending /\ writeOrErase
        BY <3>2 DEF FlashInv, ChipType, Quiet, WriteLeft
      <4>2. flash = [q \in Pages |-> mem[q]] /\ ~erasing
        BY <3>2, <4>1 DEF FlashInv, ChipType, EraseLeft
      <4>3. flash = mem
        BY <4>2 DEF FlashInv, ChipType
      <4>4. QED BY <1>14, <4>2, <4>3 DEF OperationEnds, Done, Quiet
    <3>3. QED BY <1>14, <3>1, <3>2 DEF OperationEnds
  <2>3. StatusIsHonest'
    BY <1>14 DEF OperationEnds, Done, FlashInv, Quiet, ChipType, StatusIsHonest
  <2>4. WriteLeft'
    BY <1>14 DEF OperationEnds, Done, FlashInv, ChipType, Quiet, WriteLeft, EraseLeft, Programmed, Erasable, FirstOfSector
  <2>5. EraseLeft'
    BY <1>14 DEF OperationEnds, Done, FlashInv, ChipType, Quiet, WriteLeft, EraseLeft, Erasable, FirstOfSector
  <2>6. QED BY <2>1, <2>2, <2>3, <2>4, <2>5 DEF FlashInv
<1>15. ASSUME TimerElapses PROVE FlashInv'
  <2>1. ChipType'
    BY <1>15 DEF TimerElapses, FlashInv, ChipType, Values, Erased, Programmed, WriteLeft
  <2>2. Quiet'
    BY <1>15 DEF TimerElapses, FlashInv, Quiet
  <2>3. StatusIsHonest'
    BY <1>15 DEF TimerElapses, FlashInv, Quiet, ChipType, StatusIsHonest
  <2>4. WriteLeft'
    BY <1>15 DEF TimerElapses, FlashInv, ChipType, Quiet, WriteLeft, EraseLeft, Programmed, Erasable, FirstOfSector
  <2>5. EraseLeft'
    BY <1>15 DEF TimerElapses, FlashInv, ChipType, Quiet, WriteLeft, EraseLeft, Erasable, FirstOfSector
  <2>6. QED BY <2>1, <2>2, <2>3, <2>4, <2>5 DEF FlashInv
<1>18. ASSUME SetSaveType PROVE FlashInv'
  <2>1. ChipType'
    <3>1. full' \in BOOLEAN /\ Programmed(mem[page], buffer)' \in Values
      BY <1>18 DEF SetSaveType, FlashInv, ChipType, Values, Programmed
    <3>2. flash' \in [Pages -> Values]
      BY <1>18, <3>1 DEF SetSaveType, FlashInv, ChipType
    <3>3. QED BY <1>18, <3>1, <3>2 DEF SetSaveType, FlashInv, ChipType
  <2>2. Quiet'
    BY <1>18 DEF SetSaveType, FlashInv, Quiet
  <2>3. StatusIsHonest'
    BY <1>18 DEF SetSaveType, FlashInv, StatusIsHonest
  <2>4. WriteLeft'
    BY <1>18 DEF SetSaveType, FlashInv, ChipType, WriteLeft, Programmed
  <2>5. EraseLeft'
    BY <1>18 DEF SetSaveType, FlashInv, ChipType, EraseLeft, Erasable, FirstOfSector
  <2>6. QED BY <2>1, <2>2, <2>3, <2>4, <2>5 DEF FlashInv
<1>16. CASE UNCHANGED vars
  <2>1. ChipType' /\ Quiet' /\ StatusIsHonest'
    BY <1>16 DEF FlashInv, ChipType, Quiet, StatusIsHonest
  <2>2. WriteLeft'
    BY <1>16 DEF FlashInv, WriteLeft, Programmed
  <2>3. EraseLeft'
    BY <1>16 DEF FlashInv, EraseLeft, Erasable, FirstOfSector
  <2>4. QED BY <2>1, <2>2, <2>3 DEF FlashInv
<1>17. QED
  BY <1>1, <1>2, <1>3, <1>4, <1>5, <1>6, <1>7, <1>8, <1>9, <1>10, <1>11, <1>12, <1>13, <1>14, <1>15, <1>16, <1>18
  DEF Next, Game, FlashramProcess

\* The invariant, by one lemma per action.
LEMMA FlashInvariant == Spec => []FlashInv
BY FlashStarts, FlashStep, PTL DEF Spec

\* The rest of the types need no more than the ones of the chip.
OtherTypes ==
  /\ state \in {"status", "id", "read", "buffer"} /\ cmd \in Commands
  /\ eraseEnabled \in BOOLEAN /\ sectorOrAll \in BOOLEAN
  /\ todo \subseteq Pages /\ timer \in {"running", "elapsed"} /\ waited \in BOOLEAN

\* An erase never leaves the chip, whichever page names its sector, and no
\* value is out of its type (flashram.c:58-124).
THEOREM FlashTyped == Spec => []TypeOK
<1> USE DEF gameVars, reqVars, workVars, waitVars, ghostVars, vars
<1>1. Init => OtherTypes
  BY DEF Init, OtherTypes, Commands
<1>2. FlashInv /\ OtherTypes /\ [Next]_vars => OtherTypes'
  <2> SUFFICES ASSUME FlashInv, OtherTypes, [Next]_vars PROVE OtherTypes'
    OBVIOUS
  <2>1. CASE Game \/ SetSaveType
    BY <2>1 DEF Game, SetCommand, SetMode, EraseSetup, EraseStart, WriteStart, WriteBuffer,
       ClearStatus, SetSaveType, OtherTypes
  <2>2. CASE StartErase
    BY <2>2, SectorInside DEF StartErase, FlashInv, ChipType, OtherTypes
  <2>3. CASE StartWrite \/ WritePage \/ Erasing \/ EraseEnds \/ OperationEnds \/ TimerElapses
    BY <2>3 DEF StartWrite, WritePage, Erasing, EraseEnds, OperationEnds, TimerElapses, Done, OtherTypes
  <2>4. ASSUME NEW p \in Pages, ErasePage(p) PROVE OtherTypes'
    BY <2>4 DEF ErasePage, OtherTypes
  <2>5. CASE UNCHANGED vars
    BY <2>5 DEF OtherTypes
  <2>6. QED BY <2>1, <2>2, <2>3, <2>4, <2>5 DEF Next, FlashramProcess
<1>3. FlashInv /\ OtherTypes => TypeOK
  BY DEF FlashInv, ChipType, OtherTypes, TypeOK
<1>4. QED BY <1>1, <1>2, <1>3, FlashInvariant, PTL DEF Spec

\* Whenever the game can look, the save in memory is what its commands made of
\* the chip, for chips of any size (flashram.c:58-124, n64_flashram.sv:59-148).
THEOREM SaveIsFlash == Spec => []ReadsSeeFlash
<1>1. FlashInv => ReadsSeeFlash
  BY DEF FlashInv, ChipType, Quiet, ReadsSeeFlash
<1>2. QED BY <1>1, FlashInvariant, PTL

\* The busy bits tell of the pending operation and of no other
\* (n64_flashram.sv:66-75, 115-133).
THEOREM BusyIsPending == Spec => []StatusIsHonest
<1>1. FlashInv => StatusIsHonest
  BY DEF FlashInv
<1>2. QED BY <1>1, FlashInvariant, PTL

\* While an erase waits, an elapsed timer is the one that this erase started.
Waited == erasing /\ timer = "elapsed" => waited

\* The timer starts with the erase and elapses once; a new erase begins only
\* when none waits (flashram.c:72-77, 100-103).
LEMMA WaitedStep == FlashInv /\ Waited /\ [Next]_vars => Waited'
<1> SUFFICES ASSUME FlashInv, Waited, [Next]_vars PROVE Waited'
  OBVIOUS
<1> USE DEF gameVars, reqVars, workVars, waitVars, ghostVars, vars, Waited
<1>1. ASSUME NEW c \in Commands, SetCommand(c) \/ SetMode(c) PROVE Waited'
  BY <1>1 DEF SetCommand, SetMode
<1>2. ASSUME NEW p \in Pages, EraseSetup(p) \/ WriteStart(p) \/ ErasePage(p) PROVE Waited'
  BY <1>2 DEF EraseSetup, WriteStart, ErasePage
<1>3. ASSUME NEW v \in Values, WriteBuffer(v) PROVE Waited'
  BY <1>3 DEF WriteBuffer
<1>4. CASE EraseStart
  <2>1. ~pending /\ erasing' = erasing
    BY <1>4 DEF EraseStart
  <2>2. ~erasing'
    BY <2>1 DEF FlashInv, Quiet
  <2>3. QED BY <2>2
<1>5. CASE ClearStatus \/ SetSaveType \/ StartWrite \/ WritePage \/ Erasing \/ OperationEnds
  BY <1>5 DEF ClearStatus, SetSaveType, StartWrite, WritePage, Erasing, OperationEnds
<1>6. CASE StartErase
  BY <1>6 DEF StartErase
<1>7. CASE EraseEnds
  BY <1>7 DEF EraseEnds
<1>8. CASE TimerElapses
  BY <1>8 DEF TimerElapses
<1>9. CASE UNCHANGED vars
  BY <1>9
<1>10. QED
  BY <1>1, <1>2, <1>3, <1>4, <1>5, <1>6, <1>7, <1>8, <1>9 DEF Next, Game, FlashramProcess

\* Only the end of an operation makes the chip ready, and that of an erase with
\* full emulation comes after the wait: the save type may change while the erase
\* waits, but not while its pages are erased.
LEMMA EraseWaits ==
  FlashInv /\ Waited /\ [Next]_vars /\ full /\ pending /\ writeOrErase /\ ~pending' => waited
<1> SUFFICES ASSUME FlashInv, Waited, [Next]_vars, full, pending, writeOrErase, ~pending' PROVE waited
  OBVIOUS
<1> USE DEF gameVars, reqVars, workVars, waitVars, ghostVars, vars
<1>1. EraseEnds \/ OperationEnds
  <2>1. \A c \in Commands : ~SetCommand(c) /\ ~SetMode(c)
    BY DEF SetCommand, SetMode
  <2>2. \A p \in Pages : ~EraseSetup(p) /\ ~WriteStart(p) /\ ~ErasePage(p)
    BY DEF EraseSetup, WriteStart, ErasePage
  <2>3. \A v \in Values : ~WriteBuffer(v)
    BY DEF WriteBuffer
  <2>4. ~EraseStart /\ ~ClearStatus /\ ~SetSaveType /\ ~StartWrite /\ ~WritePage
    BY DEF EraseStart, ClearStatus, SetSaveType, StartWrite, WritePage
  <2>5. ~StartErase /\ ~Erasing /\ ~TimerElapses /\ ~UNCHANGED vars
    BY DEF StartErase, Erasing, TimerElapses
  <2>6. QED BY <2>1, <2>2, <2>3, <2>4, <2>5 DEF Next, Game, FlashramProcess
<1>2. CASE EraseEnds
  BY <1>2 DEF EraseEnds, Waited
<1>3. CASE OperationEnds
  <2>1. pc # "end"
    BY DEF FlashInv, EraseLeft
  <2>2. QED BY <1>3, <2>1 DEF OperationEnds
<1>4. QED BY <1>1, <1>2, <1>3

\* With full emulation no erase is over before its own time is, whatever the
\* game writes and whenever the save type changes (flashram.c:72-77, 100-103).
THEOREM ErasesLast == Spec => EraseTakesItsTime
<1>1. Init => Waited
  BY DEF Init, Waited
<1>2. Spec => [](FlashInv /\ Waited)
  BY <1>1, WaitedStep, FlashInvariant, PTL DEF Spec
<1>3. FlashInv /\ Waited /\ [Next]_vars => [full /\ pending /\ writeOrErase /\ ~pending' => waited]_vars
  BY EraseWaits
<1>4. QED BY <1>2, <1>3, PTL DEF Spec, EraseTakesItsTime

-----------------------------------------------------------------------------
\* The 64DD.  The operators a turn of the controller is made of.

\* A block is four sectors longer than its data, and the cursor counts them.
LEMMA Constants ==
  /\ DataSectors \in Nat /\ DataSectors > 0 /\ BlockSectors = DataSectors + 4
  /\ 0 \in Tracks /\ BlockSectors \in Nat
  /\ {0, 1} \subseteq Curs /\ \A c \in Curs : c \in Nat /\ c <= BlockSectors + 1
  /\ \A c \in Nat : c <= BlockSectors + 1 => c \in Curs
BY SizesAssumption DEF BlockSectors, Tracks, Curs

\* A reset and a command leave a drive of the right type (dd_process).
LEMMA CommandTyped ==
  ASSUME ControlType
  PROVE  AfterReset \in Drives /\ AfterCommand \in Drives
<1>0. 0 \in Tracks /\ drv \in Drives /\ "idle" \in States
  BY Constants DEF ControlType, States
<1>1. AfterReset \in Drives
  <2>1. CASE snap.reset
    <3> DEFINE d1 == [drv EXCEPT !.state = "idle", !.delayed = FALSE]
               d2 == [d1 EXCEPT !.spinning = FALSE, !.running = FALSE]
               d3 == [d2 EXCEPT !.track = 0, !.changed = FALSE]
    <3>1. AfterReset = [d3 EXCEPT !.irq = FALSE]
      BY <2>1 DEF AfterReset
    <3>2. d1 \in Drives   BY <1>0 DEF Drives
    <3> HIDE DEF d1
    <3>3. d2 \in Drives   BY <3>2 DEF Drives
    <3> HIDE DEF d2
    <3>4. d3 \in Drives   BY <3>3, <1>0 DEF Drives
    <3> HIDE DEF d3
    <3> QED BY <3>1, <3>4 DEF Drives
  <2>2. CASE ~snap.reset
    BY <1>0, <2>2 DEF Drives, AfterReset
  <2> QED BY <2>1, <2>2
<1>2. reg.cmd.track \in Tracks /\ spin \in BOOLEAN
  BY DEF ControlType, RegType, SnapType
<1>3. CASE ~snap.cmd
  BY <1>1, <1>3 DEF AfterCommand
<1>4. CASE snap.cmd /\ AfterReset.delayed
  BY <1>1, <1>2, <1>4 DEF AfterCommand, Drives
<1>5. CASE snap.cmd /\ ~AfterReset.delayed
  BY <1>1, <1>2, <1>5 DEF AfterCommand, Drives
<1> QED BY <1>1, <1>3, <1>4, <1>5

\* What a reset and a command change of the drive: a command never touches
\* the transfer.
LEMMA CommandFields ==
  ASSUME ControlType
  PROVE  /\ AfterCommand.running <=> drv.running /\ ~snap.reset
         /\ AfterCommand.state = IF snap.reset THEN "idle" ELSE drv.state
         /\ AfterCommand.irq = FALSE
         /\ AfterCommand.read = drv.read /\ AfterCommand.full = drv.full
         /\ AfterCommand.blk = drv.blk /\ AfterCommand.cur = drv.cur
         /\ AfterCommand.ready = drv.ready /\ AfterCommand.valid = drv.valid
         /\ AfterCommand.data = drv.data /\ AfterCommand.c2 = drv.c2 /\ AfterCommand.err = drv.err
         /\ ~snap.cmd => (AfterCommand.delayed <=> drv.delayed /\ ~snap.reset)
         /\ ~snap.cmd /\ ~snap.reset => AfterCommand.track = drv.track
<1> USE DEF ControlType, Drives
<1>0. drv \in Drives /\ AfterReset \in Drives /\ AfterCommand \in Drives
  BY CommandTyped
<1>1. AfterReset.irq = FALSE
  BY DEF AfterReset
<1>2. AfterCommand.irq = FALSE
  BY <1>1, <1>0 DEF AfterCommand
<1>3. AfterReset.running <=> drv.running /\ ~snap.reset
  BY DEF AfterReset
<1>4. AfterCommand.running = AfterReset.running
  BY <1>0 DEF AfterCommand
<1>5. AfterCommand.state = IF snap.reset THEN "idle" ELSE drv.state
  BY <1>0 DEF AfterCommand, AfterReset
<1>6. /\ AfterCommand.read = drv.read /\ AfterCommand.full = drv.full
         /\ AfterCommand.blk = drv.blk /\ AfterCommand.cur = drv.cur
  BY <1>0 DEF AfterCommand, AfterReset
<1>6a. /\ AfterCommand.ready = drv.ready /\ AfterCommand.valid = drv.valid
  BY <1>0 DEF AfterCommand, AfterReset
<1>6b. AfterCommand.data = drv.data /\ AfterCommand.c2 = drv.c2 /\ AfterCommand.err = drv.err
  BY <1>0 DEF AfterCommand, AfterReset
<1>7. ~snap.cmd => (AfterCommand.delayed <=> (drv.delayed /\ ~snap.reset))
  BY <1>0 DEF AfterCommand, AfterReset
<1>8. ~snap.cmd /\ ~snap.reset => AfterCommand.track = drv.track
  BY <1>0 DEF AfterCommand, AfterReset
<1> QED BY <1>2, <1>3, <1>4, <1>5, <1>6, <1>6a, <1>6b, <1>7, <1>8

\* A start and a stop leave a drive of the right type (dd_process).
LEMMA StartTyped ==
  ASSUME ControlType, NEW d \in Drives
  PROVE  Started(d) \in Drives /\ Stopped(d) \in Drives
<1>0. "start" \in States /\ snap.read \in BOOLEAN /\ snap.full \in BOOLEAN /\ reg.blk \in {0, 1}
  BY Constants DEF ControlType, States, SnapType, RegType
<1>1. Stopped(d) \in Drives
  <2> DEFINE d1 == [d EXCEPT !.running = FALSE, !.data = FALSE]
  <2>1. Stopped(d) = [d1 EXCEPT !.c2 = FALSE, !.err = FALSE]
    BY DEF Stopped
  <2>2. d1 \in Drives   BY DEF Drives
  <2> HIDE DEF d1
  <2> QED BY <2>1, <2>2 DEF Drives
<1>2. Started(d) \in Drives
  <2> DEFINE d1 == [d EXCEPT !.running = TRUE, !.state = "start"]
             d2 == [d1 EXCEPT !.read = snap.read, !.full = snap.full]
             d3 == [d2 EXCEPT !.blk = reg.blk, !.data = FALSE]
  <2>1. Started(d) = [d3 EXCEPT !.c2 = FALSE, !.err = FALSE]
    BY DEF Started
  <2>2. d1 \in Drives   BY <1>0 DEF Drives
  <2> HIDE DEF d1
  <2>3. d2 \in Drives   BY <2>2, <1>0 DEF Drives
  <2> HIDE DEF d2
  <2>4. d3 \in Drives   BY <2>3, <1>0 DEF Drives
  <2> HIDE DEF d3
  <2> QED BY <2>1, <2>4 DEF Drives
<1> QED BY <1>1, <1>2

\* So do the operators a turn is made of.
LEMMA TurnTyped ==
  ASSUME NEW d \in Drives
  PROVE  /\ OnPending(d) \in Drives /\ OnAck(d) \in Drives /\ AfterRead(d) \in Drives
         /\ AfterBlock(d) \in Drives /\ AfterFill(d) \in Drives
<1>0. /\ {"idle", "start", "sectorRead", "sectorWrite", "blockWrite", "nextBlock"} \subseteq States
      /\ d.read \in BOOLEAN /\ d.valid \in BOOLEAN /\ d.full \in BOOLEAN /\ d.cur \in Curs
      /\ d.running \in BOOLEAN /\ d.c2 \in BOOLEAN /\ d.blk \in {0, 1}
  BY DEF States, Drives
<1>1. OnPending(d) \in Drives
  <2>1. d.cur = DataSectors => d.cur + 1 \in Curs
    BY Constants
  <2>2. CASE ~snap.pend \/ (d.cur >= DataSectors /\ (~d.read \/ (d.cur # DataSectors /\ d.cur < BlockSectors)))
    <3>1. d.cur \in Nat
      BY <1>0, Constants
    <3> QED BY <2>2, <3>1, Constants DEF OnPending
  <2>3. CASE snap.pend /\ d.cur < DataSectors
    BY <1>0, <2>3 DEF OnPending, Drives
  <2>4. CASE snap.pend /\ ~(d.cur < DataSectors) /\ d.read /\ d.cur = DataSectors
    BY <1>0, <2>1, <2>4 DEF OnPending, Drives
  <2>5. CASE snap.pend /\ ~(d.cur < DataSectors) /\ d.read /\ d.cur # DataSectors /\ d.cur >= BlockSectors
    BY <1>0, <2>5 DEF OnPending, Drives
  <2>6. d.cur \in Nat
    BY <1>0, Constants
  <2> QED BY <2>2, <2>3, <2>4, <2>5, <2>6, Constants
<1>2. OnAck(d) \in Drives
  <2>1. d.cur <= BlockSectors => d.cur + 1 \in Curs
    BY Constants, <1>0
  <2>2. (d.running /\ d.cur # DataSectors) \in BOOLEAN /\ (d.c2 \/ d.cur = BlockSectors) \in BOOLEAN
    OBVIOUS
  <2>3. CASE ~snap.ack \/ (d.read /\ (d.cur <= DataSectors \/ d.cur > BlockSectors))
    BY <2>3 DEF OnAck
  <2>4. CASE snap.ack /\ ~d.read
    BY <2>2, <2>4 DEF OnAck, Drives
  <2>5. CASE snap.ack /\ d.read /\ ~(d.cur <= DataSectors \/ d.cur > BlockSectors)
    <3>1. d.cur <= BlockSectors
      BY <2>5, <1>0, Constants
    <3> QED BY <2>1, <2>2, <2>5, <3>1 DEF OnAck, Drives
  <2> QED BY <2>3, <2>4, <2>5
<1>3. AfterRead(d) \in Drives
  <2> DEFINE e == IF d.valid THEN [d EXCEPT !.data = TRUE] ELSE [d EXCEPT !.err = TRUE]
  <2>1. e \in Drives
    BY DEF Drives
  <2> HIDE DEF e
  <2>2. [e EXCEPT !.state = "sectorRead"] \in Drives /\ [e EXCEPT !.state = "idle", !.irq = TRUE] \in Drives
    BY <1>0, <2>1 DEF Drives
  <2> USE DEF e
  <2> QED BY <2>2 DEF AfterRead
<1>4. AfterBlock(d) \in Drives
  <2>0. 1 - d.blk \in {0, 1}
    BY <1>0
  <2>1. CASE d.full
    <3> DEFINE d1 == [d EXCEPT !.state = "start", !.full = FALSE]
    <3>1. AfterBlock(d) = [d1 EXCEPT !.blk = 1 - @, !.c2 = FALSE]
      BY <2>1 DEF AfterBlock
    <3>2. d1 \in Drives /\ d1.blk = d.blk
      BY <1>0 DEF Drives
    <3> HIDE DEF d1
    <3> QED BY ZenonT(30), <2>0, <3>1, <3>2 DEF Drives
  <2>2. CASE ~d.full /\ d.read
    BY <2>2 DEF AfterBlock, Drives
  <2>3. CASE ~d.full /\ ~d.read
    <3> DEFINE d1 == [d EXCEPT !.state = "idle", !.c2 = FALSE]
    <3>1. AfterBlock(d) = [d1 EXCEPT !.data = FALSE, !.irq = TRUE]
      BY <2>3 DEF AfterBlock
    <3>2. d1 \in Drives
      BY <1>0 DEF Drives
    <3> HIDE DEF d1
    <3> QED BY <3>1, <3>2 DEF Drives
  <2> QED BY <2>1, <2>2, <2>3
<1>5. AfterFill(d) \in Drives
  BY <1>0 DEF AfterFill, Drives
<1> QED BY <1>1, <1>2, <1>3, <1>4, <1>5

\* What the interrupts of the game leave alone.
Kept(d, e) ==
  /\ e.read = d.read /\ e.full = d.full /\ e.blk = d.blk /\ e.track = d.track
  /\ e.delayed = d.delayed /\ e.err = d.err /\ e.ready = d.ready /\ e.valid = d.valid

\* A buffer the game has moved sends the drive on to the next sector, to the
\* gap after the data, or to the next block (dd_process, bm_pending).
LEMMA PendingFields ==
  ASSUME NEW d \in Drives
  PROVE  /\ Kept(d, OnPending(d)) /\ OnPending(d).running = d.running /\ OnPending(d).c2 = d.c2
         /\ ~snap.pend => OnPending(d) = d
         /\ snap.pend /\ d.cur < DataSectors =>
              /\ OnPending(d).state = (IF d.read THEN "sectorRead" ELSE "sectorWrite")
              /\ OnPending(d).cur = d.cur /\ OnPending(d).data = d.data /\ OnPending(d).irq = d.irq
         /\ snap.pend /\ d.read /\ d.cur = DataSectors =>
              /\ OnPending(d).state = d.state
              /\ OnPending(d).cur = d.cur + 1 /\ OnPending(d).data = FALSE /\ OnPending(d).irq = TRUE
         /\ snap.pend /\ d.read /\ d.cur > DataSectors /\ d.cur >= BlockSectors =>
              /\ OnPending(d).state = "nextBlock"
              /\ OnPending(d).cur = d.cur /\ OnPending(d).data = d.data /\ OnPending(d).irq = d.irq
         /\ snap.pend /\ d.cur >= DataSectors /\ (~d.read \/ (d.cur # DataSectors /\ d.cur < BlockSectors)) =>
              OnPending(d) = d
<1>0. d.cur \in Nat
  BY Constants DEF Drives
<1>1. CASE ~snap.pend
  BY <1>1 DEF OnPending, Kept
<1>2. CASE snap.pend /\ d.cur < DataSectors
  BY <1>0, <1>2, Constants DEF OnPending, Kept, Drives
<1>3. CASE snap.pend /\ ~(d.cur < DataSectors) /\ ~d.read
  BY <1>0, <1>3, Constants DEF OnPending, Kept, Drives
<1>4. CASE snap.pend /\ ~(d.cur < DataSectors) /\ d.read /\ d.cur = DataSectors
  BY <1>0, <1>4, Constants DEF OnPending, Kept, Drives
<1>5. CASE snap.pend /\ ~(d.cur < DataSectors) /\ d.read /\ d.cur # DataSectors /\ d.cur >= BlockSectors
  <2>1. OnPending(d) = [d EXCEPT !.state = "nextBlock"]
    BY <1>5 DEF OnPending
  <2> DEFINE e == [d EXCEPT !.state = "nextBlock"]
  <2>2. /\ Kept(d, e) /\ e.running = d.running /\ e.c2 = d.c2 /\ e.state = "nextBlock"
        /\ e.cur = d.cur /\ e.data = d.data /\ e.irq = d.irq
    BY DEF Kept, Drives
  <2> HIDE DEF e
  <2> QED BY <1>0, <1>5, <2>1, <2>2, Constants DEF e
<1>6. CASE snap.pend /\ ~(d.cur < DataSectors) /\ d.read /\ d.cur # DataSectors /\ ~(d.cur >= BlockSectors)
  BY <1>0, <1>6, Constants DEF OnPending, Kept, Drives
<1> QED BY <1>1, <1>2, <1>3, <1>4, <1>5, <1>6

\* A look at the status ends a write, and takes a read one sector further
\* through the gap (dd_process, bm_ack).
LEMMA AckFields ==
  ASSUME NEW d \in Drives
  PROVE  /\ Kept(d, OnAck(d)) /\ OnAck(d).state = d.state /\ OnAck(d).data = d.data
         /\ ~snap.ack => OnAck(d) = d
         /\ snap.ack /\ ~d.read =>
              /\ OnAck(d).running <=> d.running /\ d.cur # DataSectors
              /\ OnAck(d).cur = d.cur /\ OnAck(d).c2 = d.c2 /\ OnAck(d).irq = d.irq
         /\ snap.ack /\ d.read /\ (d.cur <= DataSectors \/ d.cur > BlockSectors) => OnAck(d) = d
         /\ snap.ack /\ d.read /\ d.cur > DataSectors /\ d.cur <= BlockSectors =>
              /\ OnAck(d).running = d.running /\ OnAck(d).cur = d.cur + 1 /\ OnAck(d).irq = TRUE
              /\ OnAck(d).c2 <=> d.c2 \/ d.cur = BlockSectors
<1>0. d.cur \in Nat
  BY Constants DEF Drives
<1>1. CASE ~snap.ack
  BY <1>1 DEF OnAck, Kept
<1>2. CASE snap.ack /\ ~d.read
  BY <1>0, <1>2, Constants DEF OnAck, Kept, Drives
<1>3. CASE snap.ack /\ d.read /\ (d.cur <= DataSectors \/ d.cur > BlockSectors)
  <2>1. OnAck(d) = d
    BY <1>3 DEF OnAck
  <2>2. ~(d.cur > DataSectors /\ d.cur <= BlockSectors)
    BY <1>0, <1>3, Constants
  <2> QED BY <1>3, <2>1, <2>2 DEF Kept
<1>4. CASE snap.ack /\ d.read /\ ~(d.cur <= DataSectors \/ d.cur > BlockSectors)
  BY <1>0, <1>4, Constants DEF OnAck, Kept, Drives
<1> QED BY <1>1, <1>2, <1>3, <1>4

\* All of a record but its state and the answer of a request.
Others(d, e) ==
  /\ e.read = d.read /\ e.full = d.full /\ e.blk = d.blk /\ e.track = d.track /\ e.cur = d.cur
  /\ e.delayed = d.delayed /\ e.running = d.running
  /\ e.err = d.err /\ e.data = d.data /\ e.c2 = d.c2 /\ e.irq = d.irq

\* A request moves the state only when it was made, and by USB it is not ready
\* before the PC answers (dd_block_read_request, dd_block_write_request).
LEMMA RequestFields ==
  ASSUME NEW d \in Drives, NEW isRead, NEW next \in States, Request(d, isRead, next)
  PROVE  /\ drv' \in Drives /\ Others(d, drv')
         /\ drv'.state = IF sdMode \/ slot = Nothing THEN next ELSE d.state
         /\ drv'.ready <=> sdMode
         /\ ~sdMode => drv'.valid = d.valid
<1>0. d.state \in States
  BY DEF Drives
<1>1. ASSUME NEW s \in States, NEW r \in BOOLEAN, NEW v \in BOOLEAN,
             drv' = [d EXCEPT !.state = s, !.ready = r, !.valid = v]
      PROVE  drv' \in Drives /\ Others(d, drv') /\ drv'.state = s /\ drv'.ready = r /\ drv'.valid = v
  <2> DEFINE d1 == [d EXCEPT !.state = s, !.ready = r]
  <2>1. d1 \in Drives /\ Others(d, d1) /\ d1.state = s /\ d1.ready = r
    BY DEF Drives, Others
  <2>2. drv' = [d1 EXCEPT !.valid = v]
    BY <1>1
  <2> HIDE DEF d1
  <2> QED BY <2>1, <2>2 DEF Drives, Others
<1>2. CASE sdMode /\ SdRequest(d, isRead, next)
  <2>1. PICK b \in BOOLEAN : drv' = [d EXCEPT !.state = next, !.ready = TRUE, !.valid = b]
    BY <1>2 DEF SdRequest
  <2>2. drv' \in Drives /\ Others(d, drv') /\ drv'.state = next /\ drv'.ready = TRUE
    BY <1>1, <2>1
  <2> QED BY <1>2, <2>2
<1>3. CASE ~sdMode /\ Enqueue(d, isRead, next)
  <2> DEFINE s == IF slot = Nothing THEN next ELSE d.state
  <2>1. s \in States
    BY <1>0
  <2>2. d.valid \in BOOLEAN
    BY DEF Drives
  <2>3. drv' = [d EXCEPT !.state = s, !.ready = FALSE]
    BY <1>3 DEF Enqueue
  <2>4. [d EXCEPT !.state = s, !.ready = FALSE] = [d EXCEPT !.state = s, !.ready = FALSE, !.valid = d.valid]
    BY DEF Drives
  <2> HIDE DEF s
  <2>5. drv' \in Drives /\ Others(d, drv') /\ drv'.state = s /\ drv'.ready = FALSE /\ drv'.valid = d.valid
    BY <1>1, <2>1, <2>2, <2>3, <2>4
  <2> QED BY <1>3, <2>5 DEF s
<1> QED BY <1>2, <1>3 DEF Request

\* What a turn does in each state.
LEMMA MachineSteps ==
  ASSUME NEW e \in Drives, Machine(e),
         e.state \in {"sectorRead", "sectorWrite"} => e.cur < DataSectors
  PROVE  /\ drv' \in Drives
         /\ e.state = "idle" => drv' = e
         /\ e.state \in {"readWait", "writeWait"} /\ ~e.ready => drv' = e
         /\ e.state # "nextBlock" =>
              drv'.full = e.full /\ drv'.blk = e.blk /\ drv'.c2 = e.c2 /\ drv'.running = e.running
         /\ drv'.read = e.read /\ drv'.track = e.track /\ drv'.delayed = e.delayed
         /\ e.state = "start" =>
              /\ drv'.state \in {"start", "readWait"} /\ drv'.cur = 0
              /\ drv'.data = e.data /\ drv'.err = e.err /\ drv'.irq = e.irq
         /\ e.state = "blockWrite" =>
              /\ drv'.state \in {"blockWrite", "writeWait"} /\ drv'.cur = e.cur
              /\ drv'.data = e.data /\ drv'.err = e.err /\ drv'.irq = e.irq
         /\ e.state = "readWait" /\ e.ready =>
              /\ drv'.cur = e.cur
              /\ IF e.valid THEN drv'.data = TRUE /\ drv'.err = e.err
                            ELSE drv'.err = TRUE /\ drv'.data = e.data
              /\ IF e.read THEN drv'.state = "sectorRead" /\ drv'.irq = e.irq
                            ELSE drv'.state = "idle" /\ drv'.irq = TRUE
         /\ e.state = "sectorRead" =>
              /\ drv'.cur = e.cur + 1 /\ drv'.data = e.data /\ drv'.err = e.err
              /\ drv'.state = "idle" /\ drv'.irq = TRUE
         /\ e.state = "sectorWrite" =>
              /\ drv'.cur = e.cur + 1 /\ drv'.data = e.data /\ drv'.err = e.err
              /\ IF e.cur + 1 < DataSectors THEN drv'.state = "idle" /\ drv'.irq = TRUE
                 ELSE drv'.state = "blockWrite" /\ drv'.irq = e.irq
         /\ e.state = "writeWait" /\ e.ready =>
              /\ drv'.cur = e.cur /\ drv'.data = e.data /\ drv'.err = e.err
              /\ drv'.state = "nextBlock" /\ drv'.irq = e.irq
         /\ e.state = "nextBlock" =>
              /\ drv'.cur = e.cur /\ drv'.err = e.err
              /\ IF e.full
                   THEN /\ drv'.full = FALSE /\ drv'.blk = 1 - e.blk /\ drv'.c2 = FALSE
                        /\ drv'.data = e.data /\ drv'.running = e.running
                        /\ drv'.state = "start" /\ drv'.irq = e.irq
                   ELSE /\ drv'.full = e.full /\ drv'.blk = e.blk /\ drv'.running = (e.running /\ ~e.read)
                        /\ e.read => /\ drv'.c2 = e.c2 /\ drv'.data = e.data /\ drv'.irq = e.irq
                                     /\ drv'.state = "nextBlock"
                        /\ ~e.read => /\ drv'.c2 = FALSE /\ drv'.data = FALSE /\ drv'.irq = TRUE
                                      /\ drv'.state = "idle"
<1>0. /\ {"idle", "start", "readWait", "writeWait", "nextBlock", "sectorRead", "sectorWrite", "blockWrite"} = States
      /\ e.state \in States /\ e.cur \in Curs /\ 0 \in Curs
      /\ e.read \in BOOLEAN /\ e.full \in BOOLEAN /\ e.valid \in BOOLEAN /\ e.running \in BOOLEAN
      /\ e.blk \in {0, 1} /\ 1 - e.blk \in {0, 1}
  BY Constants DEF States, Drives
<1>1. CASE e.state = "idle" \/ (e.state \in {"readWait", "writeWait"} /\ ~e.ready)
  <2>1. drv' = e
    BY <1>1 DEF Machine, Still
  <2> QED BY <1>1, <2>1
<1>2. CASE e.state = "start"
  <2> DEFINE d == [e EXCEPT !.cur = 0]
  <2>0. d \in Drives /\ d.state = "start" /\ d.cur = 0 /\ Others([e EXCEPT !.cur = 0], d)
    BY <1>0, <1>2 DEF Drives, Others
  <2>1. /\ d.running = e.running /\ d.read = e.read /\ d.track = e.track /\ d.full = e.full
        /\ d.blk = e.blk /\ d.delayed = e.delayed /\ d.data = e.data
        /\ d.c2 = e.c2 /\ d.err = e.err /\ d.irq = e.irq
    BY DEF Drives
  <2>2. Request(d, TRUE, "readWait")
    BY <1>2 DEF Machine
  <2> HIDE DEF d
  <2>3. drv' \in Drives /\ Others(d, drv') /\ drv'.state \in {"start", "readWait"}
    BY <1>0, <2>0, <2>2, RequestFields
  <2> QED BY <1>2, <2>0, <2>1, <2>3 DEF Others
<1>3. CASE e.state = "blockWrite"
  <2>1. Request(e, FALSE, "writeWait")
    BY <1>3 DEF Machine
  <2>2. drv' \in Drives /\ Others(e, drv') /\ drv'.state \in {"blockWrite", "writeWait"}
    BY <1>0, <1>3, <2>1, RequestFields
  <2> QED BY <1>3, <2>2 DEF Others
<1>4. CASE e.state = "readWait" /\ e.ready
  <2>1. drv' = AfterRead(e)
    BY <1>4 DEF Machine, Still
  <2> DEFINE d == IF e.valid THEN [e EXCEPT !.data = TRUE] ELSE [e EXCEPT !.err = TRUE]
  <2>2. /\ d \in Drives /\ d.full = e.full /\ d.blk = e.blk /\ d.c2 = e.c2 /\ d.running = e.running
        /\ d.read = e.read /\ d.track = e.track /\ d.delayed = e.delayed /\ d.cur = e.cur
        /\ d.irq = e.irq
        /\ IF e.valid THEN d.data = TRUE /\ d.err = e.err ELSE d.err = TRUE /\ d.data = e.data
    BY DEF Drives
  <2>3. drv' = IF e.read THEN [d EXCEPT !.state = "sectorRead"] ELSE [d EXCEPT !.state = "idle", !.irq = TRUE]
    BY <2>1 DEF AfterRead
  <2> HIDE DEF d
  <2>4. CASE e.read
    BY <1>0, <1>4, <2>2, <2>3, <2>4 DEF Drives
  <2>5. CASE ~e.read
    BY <1>0, <1>4, <2>2, <2>3, <2>5 DEF Drives
  <2> QED BY <2>4, <2>5
<1>5. CASE e.state = "sectorRead"
  <2>1. e.cur + 1 \in Curs
    BY <1>0, <1>5, Constants
  <2>2. drv' = [e EXCEPT !.state = "idle", !.cur = e.cur + 1, !.irq = TRUE]
    BY <1>5 DEF Machine, Still
  <2> DEFINE d == [e EXCEPT !.state = "idle", !.cur = e.cur + 1]
  <2>3. drv' = [d EXCEPT !.irq = TRUE]
    BY <2>2
  <2>4. /\ d \in Drives /\ d.full = e.full /\ d.blk = e.blk /\ d.c2 = e.c2 /\ d.running = e.running
        /\ d.read = e.read /\ d.track = e.track /\ d.delayed = e.delayed /\ d.cur = e.cur + 1
        /\ d.data = e.data /\ d.err = e.err /\ d.state = "idle"
    BY <1>0, <2>1 DEF Drives
  <2> HIDE DEF d
  <2> QED BY <1>5, <2>3, <2>4 DEF Drives
<1>6. CASE e.state = "sectorWrite"
  <2>1. e.cur + 1 \in Curs
    BY <1>0, <1>6, Constants
  <2> DEFINE d == [e EXCEPT !.cur = e.cur + 1]
  <2>2. drv' = AfterFill(d)
    BY <1>6 DEF Machine
  <2>3. /\ d \in Drives /\ d.full = e.full /\ d.blk = e.blk /\ d.c2 = e.c2 /\ d.running = e.running
        /\ d.read = e.read /\ d.track = e.track /\ d.delayed = e.delayed /\ d.cur = e.cur + 1
        /\ d.data = e.data /\ d.err = e.err /\ d.irq = e.irq
    BY <1>0, <2>1 DEF Drives
  <2> HIDE DEF d
  <2>4. CASE d.cur < DataSectors
    <3>1. drv' = [d EXCEPT !.state = "idle", !.irq = TRUE]
      BY <2>2, <2>4 DEF AfterFill
    <3> QED BY <1>0, <1>6, <2>3, <2>4, <3>1 DEF Drives
  <2>5. CASE ~(d.cur < DataSectors)
    <3>1. drv' = [d EXCEPT !.state = "blockWrite"]
      BY <2>2, <2>5 DEF AfterFill
    <3> QED BY <1>0, <1>6, <2>3, <2>5, <3>1 DEF Drives
  <2> QED BY <2>4, <2>5
<1>7. CASE e.state = "writeWait" /\ e.ready
  <2>1. drv' = [e EXCEPT !.state = "nextBlock"]
    BY <1>7 DEF Machine
  <2> QED BY <1>0, <1>7, <2>1 DEF Drives
<1>8. CASE e.state = "nextBlock" /\ e.full
  <2>1. drv' = AfterBlock(e)
    BY <1>8 DEF Machine, Still
  <2> DEFINE d == [e EXCEPT !.state = "start", !.full = FALSE]
  <2>2. drv' = [d EXCEPT !.blk = 1 - e.blk, !.c2 = FALSE]
    BY <1>8, <2>1 DEF AfterBlock
  <2>3. /\ d \in Drives /\ d.full = FALSE /\ d.blk = e.blk /\ d.running = e.running
        /\ d.read = e.read /\ d.track = e.track /\ d.delayed = e.delayed /\ d.cur = e.cur
        /\ d.data = e.data /\ d.err = e.err /\ d.irq = e.irq /\ d.state = "start"
    BY <1>0 DEF Drives
  <2> HIDE DEF d
  <2> QED BY <1>0, <1>8, <2>2, <2>3 DEF Drives
<1>9. CASE e.state = "nextBlock" /\ ~e.full /\ e.read
  <2>1. drv' = [e EXCEPT !.running = FALSE]
    BY <1>9 DEF Machine, Still, AfterBlock
  <2> QED BY <1>0, <1>9, <2>1 DEF Drives
<1>10. CASE e.state = "nextBlock" /\ ~e.full /\ ~e.read
  <2>1. drv' = [e EXCEPT !.state = "idle", !.c2 = FALSE, !.data = FALSE, !.irq = TRUE]
    BY <1>10 DEF Machine, Still, AfterBlock
  <2> DEFINE d == [e EXCEPT !.state = "idle", !.c2 = FALSE]
  <2>2. drv' = [d EXCEPT !.data = FALSE, !.irq = TRUE]
    BY <2>1
  <2>3. /\ d \in Drives /\ d.full = e.full /\ d.blk = e.blk /\ d.running = e.running
        /\ d.read = e.read /\ d.track = e.track /\ d.delayed = e.delayed /\ d.cur = e.cur
        /\ d.err = e.err /\ d.state = "idle" /\ d.c2 = FALSE
    BY <1>0 DEF Drives
  <2> HIDE DEF d
  <2> QED BY <1>0, <1>10, <2>2, <2>3 DEF Drives
<1> QED BY <1>0, <1>1, <1>2, <1>3, <1>4, <1>5, <1>6, <1>7, <1>8, <1>9, <1>10 DEF Machine

-----------------------------------------------------------------------------
\* The handshake between the game and the controller.

\* A reset of the console leaves registers of the right type (n64_dd.sv).
LEMMA ResetTyped ==
  ASSUME ControlType
  PROVE  Reset \in [reset: BOOLEAN, cmdPending: BOOLEAN,
           cmd: [op: {"clear", "seek", "other"}, track: Tracks], cmdIrq: BOOLEAN,
           start: BOOLEAN, stop: BOOLEAN, pend: BOOLEAN, ack: BOOLEAN, irq: BOOLEAN,
           read: BOOLEAN, full: BOOLEAN, blk: {0, 1}]
BY DEF ControlType, RegType, Reset

\* The game keeps the types of the registers and of its own state.
LEMMA GameTyped ==
  ASSUME ControlInv, GameStep
  PROVE  ControlType'
<1>0. RegType /\ SnapType /\ GameType /\ drv \in Drives
  BY DEF ControlInv, ControlType
<1>1. ASSUME UNCHANGED <<drv, snap, turn, spin>>, RegType', GameType' PROVE ControlType'
  BY <1>0, <1>1 DEF ControlType, SnapType
<1> DEFINE G(n) == n \in [phase: {"off", "boot", "idle", "cmd", "ready", "wait", "data", "c2", "err", "written"},
              read: BOOLEAN, track: Tracks, blk: {0, 1}, k: 0..DataSectors, left: {0, 1},
              ver: 0..MaxWrites]
           U(u) == u \in [transfers: Nat, writes: 0..MaxWrites, faults: Nat]
<1>2. MaxWrites \in Nat /\ DataSectors \in Nat
  BY SizesAssumption
<1>3. Fault => U(used')
  BY <1>0 DEF Fault, GameType
<1>4. n64.phase = "data" => n64.k < DataSectors
  <2>1. n64.phase = "data" => ~reg.start \/ FALSE
    BY DEF ControlInv, InTransfer, Fresh
  <2> QED BY <2>1 DEF ControlInv, InTransfer, Live, Loading, Told, Gap, AtGame, Moved, Writing, AtSector
<1>5. ASSUME NEW n, G(n), NEW done \in {"wait", "ready"} PROVE G(Through(n, done))
  <2>1. 1 - n.blk \in {0, 1} /\ 0 \in 0..DataSectors
    BY <1>5, <1>2
  <2>2. CASE n.left = 1
    BY <1>5, <2>1, <2>2 DEF Through
  <2>3. CASE n.left # 1
    BY <1>5, <2>3 DEF Through
  <2> QED BY <2>2, <2>3
<1>6. CASE ConsoleReset
  BY <1>0, <1>1, <1>3, <1>6, ResetTyped DEF ConsoleReset, machine, RegType, GameType, ControlType
<1>7. CASE Boot
  BY <1>0, <1>1, <1>7 DEF Boot, machine, RegType, GameType
<1>8. CASE CommandDone
  BY <1>0, <1>1, <1>8 DEF CommandDone, machine, RegType, GameType
<1>9. CASE Look
  <2>1. n64' = [n64 EXCEPT !.phase = n64'.phase] /\ n64'.phase \in {n64.phase, "err", "data", "c2", "written"}
    BY <1>0, <1>9 DEF Look, GameType
  <2>2. G(n64')
    BY <1>0, <2>1 DEF GameType
  <2>3. RegType'
    BY <1>0, <1>9 DEF Look, RegType
  <2> QED BY <1>0, <1>1, <1>9, <2>2, <2>3 DEF Look, machine, GameType
<1>10. CASE MoveSector
  <2> DEFINE n == [n64 EXCEPT !.phase = "wait", !.k = @ + 1]
  <2>1. n64.k + 1 \in 0..DataSectors
    BY <1>0, <1>2, <1>4, <1>10 DEF MoveSector, GameType
  <2>2. G(n)
    BY <1>0, <2>1 DEF GameType
  <2>3. n64' = Through(n, "wait") \/ n64' = n
    BY <1>10 DEF MoveSector
  <2> HIDE DEF n
  <2>4. G(n64')
    BY <1>5, <2>2, <2>3
  <2>5. RegType'
    BY <1>0, <1>10 DEF MoveSector, RegType
  <2> QED BY <1>0, <1>1, <1>10, <2>4, <2>5 DEF MoveSector, GameType
<1>11. CASE MoveC2
  <2>1. G(n64')
    BY <1>0, <1>5, <1>11 DEF MoveC2, GameType
  <2>2. RegType'
    BY <1>0, <1>11 DEF MoveC2, RegType
  <2> QED BY <1>0, <1>1, <1>11, <2>1, <2>2 DEF MoveC2, machine, GameType
<1>12. CASE StopTransfer
  <2>1. RegType'
    BY <1>0, <1>12 DEF StopTransfer, RegType
  <2>2. GameType'
    BY <1>0, <1>3, <1>12 DEF StopTransfer, GameType
  <2> QED BY <1>1, <1>12, <2>1, <2>2 DEF StopTransfer, machine
<1>13. ASSUME NEW op \in {"clear", "other", "seek"}, NEW t \in Tracks, Command(op, t) PROVE ControlType'
  <2>1. RegType'
    BY <1>0, <1>13 DEF Command, RegType
  <2>2. GameType'
    BY <1>0, <1>13 DEF Command, GameType
  <2> QED BY <1>1, <1>13, <2>1, <2>2 DEF Command, machine
<1>14. ASSUME NEW job \in Jobs, StartTransfer(job) PROVE ControlType'
  <2>0. job.read \in BOOLEAN /\ job.full \in BOOLEAN /\ job.blk \in {0, 1}
    BY JobsAssumption
  <2>1. RegType'
    BY <1>0, <1>14, <2>0 DEF StartTransfer, RegType
  <2>2. U(used')
    <3>1. used.transfers + 1 \in Nat /\ (~job.read => used.writes + 1 \in 0..MaxWrites)
      BY <1>0, <1>2, <1>14 DEF StartTransfer, GameType
    <3> QED BY <1>0, <1>14, <2>0, <3>1 DEF StartTransfer, GameType
  <2>3. G(n64')
    <3> DEFINE n == [n64 EXCEPT !.phase = "wait", !.read = job.read, !.blk = job.blk]
    <3>1. G(n)
      BY <1>0, <2>0 DEF GameType
    <3>2. n64' = [n EXCEPT !.k = 0, !.left = IF job.full THEN 1 ELSE 0, !.ver = used'.writes]
      BY <1>14 DEF StartTransfer
    <3> HIDE DEF n
    <3> DEFINE l == IF job.full THEN 1 ELSE 0
               n1 == [n EXCEPT !.k = 0, !.left = l]
    <3>6. l \in {0, 1} /\ 0 \in 0..DataSectors
      BY <1>2
    <3> HIDE DEF l
    <3>3. G(n1)
      BY <3>1, <3>6
    <3>4. n64' = [n1 EXCEPT !.ver = used'.writes]
      BY <3>2 DEF l
    <3> HIDE DEF n1
    <3>5. used'.writes \in 0..MaxWrites
      BY <2>2
    <3> QED BY <3>3, <3>4, <3>5
  <2> QED BY <1>1, <1>14, <2>1, <2>2, <2>3 DEF StartTransfer, machine, GameType
<1>15. 0 \in Tracks
  BY Constants
<1> QED BY <1>6, <1>7, <1>8, <1>9, <1>10, <1>11, <1>12, <1>13, <1>14, <1>15 DEF GameStep

\* What a turn of the controller does to the registers: it clears what it has
\* served and may raise the interrupts of the command and of the buffer.
LEMMA WorkReg ==
  ASSUME ControlType, Work, drv'.irq \in BOOLEAN
  PROVE  /\ RegType' /\ SnapType' /\ GameType'
         /\ snap' = Unread /\ turn' = "scan" /\ n64' = n64
         /\ reg'.reset <=> reg.reset /\ ~ClearReset
         /\ reg'.cmdPending <=> reg.cmdPending /\ ~Answered
         /\ reg'.cmdIrq <=> reg.cmdIrq \/ Answered
         /\ reg'.stop <=> reg.stop /\ ~snap.stop
         /\ reg'.start <=> reg.start /\ ~Starts
         /\ reg'.pend <=> reg.pend /\ ~(Starts \/ (snap.pend /\ AfterCommand.running /\ ~snap.stop))
         /\ reg'.ack <=> reg.ack /\ ~(Starts \/ (snap.ack /\ AfterCommand.running /\ ~snap.stop))
         /\ reg'.irq <=> reg.irq \/ drv'.irq
         /\ reg'.cmd = reg.cmd /\ reg'.read = reg.read /\ reg'.full = reg.full /\ reg'.blk = reg.blk
<1> DEFINE a == reg.reset /\ ~ClearReset
           b == reg.cmdPending /\ ~Answered
           c == reg.cmdIrq \/ Answered
           d == reg.stop /\ ~snap.stop
           e == reg.start /\ ~Starts
           f == reg.pend /\ ~(Starts \/ (snap.pend /\ AfterCommand.running /\ ~snap.stop))
           g == reg.ack /\ ~(Starts \/ (snap.ack /\ AfterCommand.running /\ ~snap.stop))
           h == reg.irq \/ drv'.irq
<1>1. reg' = [reg EXCEPT !.reset = a, !.cmdPending = b, !.cmdIrq = c, !.stop = d, !.start = e,
                         !.pend = f, !.ack = g, !.irq = h]
  BY DEF Work
<1>2. /\ a \in BOOLEAN /\ b \in BOOLEAN /\ c \in BOOLEAN /\ d \in BOOLEAN
      /\ e \in BOOLEAN /\ f \in BOOLEAN /\ g \in BOOLEAN
  OBVIOUS
<1>3. h \in BOOLEAN
  OBVIOUS
<1>4. RegType
  BY DEF ControlType
<1>5. SnapType' /\ GameType' /\ snap' = Unread /\ turn' = "scan" /\ n64' = n64
  <2>1. snap' = Unread /\ turn' = "scan" /\ n64' = n64 /\ used' = used
    BY DEF Work
  <2>2. spin' \in BOOLEAN
    BY DEF Work, ControlType, SnapType
  <2> QED BY <2>1, <2>2 DEF SnapType, GameType, Unread, ControlType
<1> HIDE DEF a, b, c, d, e, f, g, h
<1>6. RegType'
  <2> DEFINE r1 == [reg EXCEPT !.reset = a, !.cmdPending = b]
             r2 == [r1 EXCEPT !.cmdIrq = c, !.stop = d]
             r3 == [r2 EXCEPT !.start = e, !.pend = f]
             T(r) == r \in [reset: BOOLEAN, cmdPending: BOOLEAN,
           cmd: [op: {"clear", "seek", "other"}, track: Tracks], cmdIrq: BOOLEAN,
           start: BOOLEAN, stop: BOOLEAN, pend: BOOLEAN, ack: BOOLEAN, irq: BOOLEAN,
           read: BOOLEAN, full: BOOLEAN, blk: {0, 1}]
  <2>1. reg' = [r3 EXCEPT !.ack = g, !.irq = h]
    BY <1>1
  <2>2. T(r1)
    BY <1>2, <1>4 DEF RegType
  <2> HIDE DEF r1
  <2>3. T(r2)
    BY <1>2, <2>2
  <2> HIDE DEF r2
  <2>4. T(r3)
    BY <1>2, <2>3
  <2> HIDE DEF r3
  <2>5. T(reg')
    BY <1>2, <1>3, <2>1, <2>4
  <2> QED BY <2>5 DEF RegType
<1>7. /\ reg'.reset = a /\ reg'.cmdPending = b /\ reg'.cmdIrq = c /\ reg'.stop = d /\ reg'.start = e
      /\ reg'.pend = f /\ reg'.ack = g /\ reg'.irq = h
  BY <1>1, <1>4 DEF RegType
<1>8. reg'.cmd = reg.cmd /\ reg'.read = reg.read /\ reg'.full = reg.full /\ reg'.blk = reg.blk
  BY <1>1, <1>4 DEF RegType
<1> QED BY <1>5, <1>6, <1>7, <1>8 DEF a, b, c, d, e, f, g, h

\* What a start and a stop make of the drive.
LEMMA StartFields ==
  ASSUME ControlType, NEW d \in Drives
  PROVE  /\ ~Stopped(d).running /\ Stopped(d).track = d.track /\ Stopped(d).delayed = d.delayed
         /\ Stopped(d).irq = d.irq
         /\ Started(d).running /\ Started(d).track = d.track /\ Started(d).delayed = d.delayed
         /\ Started(d).irq = d.irq /\ Started(d).state = "start"
         /\ Started(d).read = snap.read /\ Started(d).full = snap.full /\ Started(d).blk = reg.blk
         /\ ~Started(d).err /\ ~Started(d).c2 /\ ~Started(d).data
<1>1. /\ Stopped(d).running = FALSE /\ Stopped(d).track = d.track /\ Stopped(d).delayed = d.delayed
      /\ Stopped(d).irq = d.irq
  BY DEF Stopped, Drives
<1>2. /\ Started(d).running = TRUE /\ Started(d).track = d.track /\ Started(d).delayed = d.delayed
      /\ Started(d).irq = d.irq /\ Started(d).state = "start"
  BY DEF Started, Drives
<1>3. /\ Started(d).read = snap.read /\ Started(d).full = snap.full /\ Started(d).blk = reg.blk
      /\ Started(d).err = FALSE /\ Started(d).c2 = FALSE /\ Started(d).data = FALSE
  BY DEF Started, Drives
<1> QED BY <1>1, <1>2, <1>3

\* The drive as the switch over the state finds it.
Found == OnAck(OnPending(AfterCommand))

\* What the game did to its buffers never moves the drive to another block, and
\* no sector beyond the data is read or written.
LEMMA FoundFields ==
  ASSUME ControlType, Shaped, AfterCommand.running
  PROVE  /\ Found \in Drives /\ ~snap.reset /\ drv.running
         /\ Found.state \in {"sectorRead", "sectorWrite"} => Found.cur < DataSectors
         /\ Found.read = drv.read /\ Found.full = drv.full /\ Found.blk = drv.blk /\ Found.err = drv.err
         /\ Found.track = AfterCommand.track /\ Found.delayed = AfterCommand.delayed
         /\ Found.ready = drv.ready /\ Found.valid = drv.valid
<1>1. AfterCommand \in Drives /\ OnPending(AfterCommand) \in Drives /\ Found \in Drives
  BY CommandTyped, TurnTyped DEF Found
<1>2. /\ AfterCommand.state = drv.state /\ drv.running /\ ~snap.reset /\ AfterCommand.cur = drv.cur
      /\ AfterCommand.read = drv.read
  BY CommandFields
<1>3. Kept(AfterCommand, OnPending(AfterCommand)) /\ Kept(OnPending(AfterCommand), Found)
  BY <1>1, PendingFields, AckFields DEF Found
<1>4. Found.state \in {"sectorRead", "sectorWrite"} => Found.cur < DataSectors
  <2> DEFINE p == OnPending(AfterCommand)
  <2>0. p.cur \in Nat /\ drv.cur \in Nat
    BY <1>1, <1>2, Constants DEF Drives
  <2>1. Found.state = p.state /\ p.read = drv.read
    BY <1>1, <1>2, <1>3, AckFields DEF Found, Kept
  <2>2. p.state \in {"sectorRead", "sectorWrite"} => p.cur < DataSectors
    <3>1. drv.state = "sectorRead" => drv.read /\ drv.cur = 0
      BY <1>2 DEF Shaped
    <3>2. drv.state # "sectorWrite"
      BY <1>2 DEF Shaped
    <3>3. CASE ~snap.pend
      BY <1>1, <1>2, <3>1, <3>2, <3>3, PendingFields, Constants
    <3>4. CASE snap.pend /\ drv.cur < DataSectors
      BY <1>1, <1>2, <3>4, PendingFields
    <3>5. CASE snap.pend /\ ~(drv.cur < DataSectors)
      <4>1. drv.state # "sectorRead"
        BY <3>1, <3>5, Constants
      <4>2. CASE drv.read /\ drv.cur = DataSectors
        BY <1>1, <1>2, <3>2, <3>5, <4>1, <4>2, PendingFields
      <4>3. CASE drv.read /\ drv.cur > DataSectors /\ drv.cur >= BlockSectors
        BY <1>1, <1>2, <3>5, <4>3, PendingFields
      <4>4. CASE ~drv.read \/ (drv.cur # DataSectors /\ drv.cur < BlockSectors)
        <5>1. drv.cur >= DataSectors
          BY <2>0, <3>5, Constants
        <5>2. p = AfterCommand
          BY <1>1, <1>2, <3>5, <4>4, <5>1, PendingFields
        <5> QED BY <1>2, <3>2, <4>1, <5>2
      <4> QED BY <2>0, <3>5, <4>2, <4>3, <4>4, Constants
    <3> QED BY <3>3, <3>4, <3>5
  <2>3. p.cur < DataSectors => Found.cur = p.cur
    <3>1. p \in Drives /\ Found = OnAck(p)
      BY <1>1 DEF Found
    <3> HIDE DEF p
    <3>2. p.cur < DataSectors => p.cur <= DataSectors
      BY <2>0, Constants
    <3> QED BY <2>0, <3>1, <3>2, AckFields, Constants
  <2> QED BY <2>1, <2>2, <2>3
<1>5. AfterCommand.full = drv.full /\ AfterCommand.blk = drv.blk /\ AfterCommand.err = drv.err
      /\ AfterCommand.ready = drv.ready /\ AfterCommand.valid = drv.valid
  BY CommandFields
<1> QED BY <1>1, <1>2, <1>3, <1>4, <1>5 DEF Kept

\* The four ways of a turn.
LEMMA WorkDrive ==
  ASSUME ControlType, Shaped, Work
  PROVE  /\ drv' \in Drives
         /\ drv'.track = AfterCommand.track /\ drv'.delayed = AfterCommand.delayed
         /\ \/ snap.stop /\ drv' = Stopped(AfterCommand)
            \/ ~snap.stop /\ snap.start /\ drv' = Started(AfterCommand)
            \/ ~snap.stop /\ ~snap.start /\ ~AfterCommand.running /\ drv' = AfterCommand
            \/ ~snap.stop /\ ~snap.start /\ AfterCommand.running /\ Machine(Found)
<1>0. AfterCommand \in Drives
  BY CommandTyped
<1>1. CASE snap.stop /\ drv' = Stopped(AfterCommand)
  BY <1>0, <1>1, StartTyped, StartFields
<1>2. CASE ~snap.stop /\ snap.start /\ drv' = Started(AfterCommand)
  BY <1>0, <1>2, StartTyped, StartFields
<1>3. CASE ~snap.stop /\ ~snap.start /\ ~AfterCommand.running /\ drv' = AfterCommand
  BY <1>0, <1>3
<1>4. CASE ~snap.stop /\ ~snap.start /\ AfterCommand.running /\ Machine(Found)
  <2>1. /\ Found \in Drives
        /\ Found.state \in {"sectorRead", "sectorWrite"} => Found.cur < DataSectors
        /\ Found.track = AfterCommand.track /\ Found.delayed = AfterCommand.delayed
    BY <1>4, FoundFields
  <2>2. drv' \in Drives /\ drv'.track = Found.track /\ drv'.delayed = Found.delayed
    BY <1>4, <2>1, MachineSteps
  <2> QED BY <1>4, <2>1, <2>2
<1> QED BY <1>1, <1>2, <1>3, <1>4 DEF Work, Still, Starts, Found

\* A drive that has no block left to move keeps silent, and stays so.
LEMMA CalmTurn ==
  ASSUME ControlType, Shaped, Noted, Work, Calm, ~snap.stop, ~snap.start
  PROVE  Calm' /\ drv'.irq = FALSE
<1>1. CASE ~AfterCommand.running
  BY <1>1, WorkDrive, CommandFields DEF Calm
<1>2. CASE AfterCommand.running
  <2>0. AfterCommand \in Drives
    BY CommandTyped
  <2>1. /\ Machine(Found) /\ Found \in Drives /\ drv.running /\ Found.read = drv.read
        /\ Found.full = drv.full
        /\ Found.state \in {"sectorRead", "sectorWrite"} => Found.cur < DataSectors
    BY <1>2, WorkDrive, FoundFields
  <2>2. /\ AfterCommand.state = "idle" /\ AfterCommand.cur = drv.cur /\ AfterCommand.irq = FALSE
        /\ AfterCommand.read = drv.read /\ AfterCommand.full = drv.full
    BY <1>2, <2>1, CommandFields DEF Calm
  <2> DEFINE p == OnPending(AfterCommand)
  <2>3. p \in Drives /\ Found = OnAck(p)
    BY <2>0, TurnTyped DEF Found
  <2>4. CASE drv.read
    <3>1. drv.cur = BlockSectors + 1 /\ ~drv.full
      BY <2>1, <2>4 DEF Calm
    <3>2. p.state \in {"idle", "nextBlock"} /\ p.cur = drv.cur /\ p.irq = FALSE /\ p.read
      <4>1. BlockSectors + 1 > DataSectors /\ BlockSectors + 1 >= BlockSectors
        BY Constants
      <4>2. CASE snap.pend
        <5>1. AfterCommand.read /\ AfterCommand.cur > DataSectors /\ AfterCommand.cur >= BlockSectors
          BY <2>2, <2>4, <3>1, <4>1
        <5>2. p.state = "nextBlock" /\ p.cur = drv.cur /\ p.irq = FALSE
          BY <2>0, <2>2, <4>2, <5>1, PendingFields
        <5>3. p.read = AfterCommand.read
          BY <2>0, PendingFields DEF Kept
        <5> QED BY <5>1, <5>2, <5>3
      <4>3. CASE ~snap.pend
        BY <2>0, <2>2, <2>4, <3>1, <4>3, PendingFields
      <4> QED BY <4>2, <4>3
    <3> HIDE DEF p
    <3>3. Found = p
      <4>1. BlockSectors + 1 > BlockSectors
        BY Constants
      <4> QED BY <2>3, <3>1, <3>2, <4>1, AckFields
    <3>4. CASE p.state = "idle"
      <4>1. drv' = p
        BY <2>1, <3>3, <3>4, MachineSteps
      <4> QED BY <2>1, <3>1, <3>2, <3>3, <3>4, <4>1 DEF Calm
    <3>5. CASE p.state = "nextBlock"
      <4>1. ~Found.full /\ Found.read
        BY <2>1, <2>4, <3>1
      <4>2. drv'.running = FALSE /\ drv'.irq = FALSE
        BY <2>1, <3>2, <3>3, <3>5, <4>1, MachineSteps
      <4> QED BY <4>2 DEF Calm
    <3> QED BY <3>2, <3>4, <3>5
  <2>5. CASE ~drv.read
    <3>1. drv.cur = DataSectors
      BY <2>1, <2>5 DEF Calm
    <3>2. p = AfterCommand
      <4>1. DataSectors >= DataSectors
        BY Constants
      <4>2. CASE snap.pend
        BY <2>0, <2>2, <2>5, <3>1, <4>1, <4>2, PendingFields
      <4>3. CASE ~snap.pend
        BY <2>0, <4>3, PendingFields
      <4> QED BY <4>2, <4>3
    <3>3. Found.state = "idle" /\ Found.cur = DataSectors /\ Found.irq = FALSE
      <4>0. ~AfterCommand.read /\ Found = OnAck(AfterCommand)
        BY <2>2, <2>3, <2>5, <3>2
      <4>1. CASE snap.ack
        BY <2>0, <2>2, <3>1, <4>0, <4>1, AckFields
      <4>2. CASE ~snap.ack
        BY <2>0, <2>2, <2>3, <2>5, <3>1, <3>2, <4>2, AckFields
      <4> QED BY <4>1, <4>2
    <3>4. drv' = Found
      BY <2>1, <3>3, MachineSteps
    <3> QED BY <2>1, <2>5, <3>3, <3>4 DEF Calm
  <2> QED BY <2>4, <2>5
<1> QED BY <1>1, <1>2

\* A turn keeps the types of the control.
LEMMA WorkIrq ==
  ASSUME ControlType, Shaped, Work
  PROVE  ControlType' /\ RegType'
<1>1. drv' \in Drives
  BY WorkDrive
<1>2. drv'.irq \in BOOLEAN
  BY <1>1 DEF Drives
<1> QED BY <1>1, <1>2, WorkReg DEF ControlType

\* What the game did not ask for is not in the snapshot.
LEMMA WorkNoted ==
  ASSUME ControlType, Shaped, Noted, Work
  PROVE  Noted'
<1>0. drv' \in Drives /\ drv'.irq \in BOOLEAN
  BY WorkDrive DEF Drives
<1>1. /\ ~snap'.cmd /\ ~snap'.start /\ ~snap'.stop /\ ~snap'.pend /\ snap' = Unread
  BY <1>0, WorkReg DEF Unread
<1>2. reg'.stop => ~reg'.pend /\ ~reg'.start
  BY <1>0, WorkReg DEF Noted
<1>3. drv'.running /\ reg'.pend => drv'.state = "idle"
  <2> SUFFICES ASSUME drv'.running, reg'.pend PROVE drv'.state = "idle"
    OBVIOUS
  <2>1. reg.pend /\ ~Starts /\ ~(snap.pend /\ AfterCommand.running /\ ~snap.stop)
    BY <1>0, WorkReg
  <2>2. CASE snap.stop /\ drv' = Stopped(AfterCommand)
    BY <2>2, CommandTyped, StartFields
  <2>3. CASE ~AfterCommand.running /\ drv' = AfterCommand
    BY <2>3
  <2>4. CASE ~snap.stop /\ AfterCommand.running /\ Machine(Found)
    <3>0. AfterCommand \in Drives /\ ~snap.pend /\ drv.running /\ Found \in Drives
          /\ (Found.state \in {"sectorRead", "sectorWrite"} => Found.cur < DataSectors)
      BY <2>1, <2>4, CommandTyped, FoundFields
    <3>1. AfterCommand.state = "idle"
      <4>1. drv.state = "idle"
        BY <2>1, <3>0 DEF Noted, Pend
      <4> QED BY <2>4, <4>1, CommandFields
    <3>2. Found.state = "idle"
      BY <3>0, <3>1, PendingFields, AckFields DEF Found
    <3> QED BY <2>4, <3>0, <3>2, MachineSteps
  <2> QED BY <2>1, <2>2, <2>3, <2>4, WorkDrive DEF Starts
<1> QED BY <1>1, <1>2, <1>3 DEF Noted, Pend, Unread

\* The head moves at a seek, once, before the seek is answered.
LEMMA CommandTrack ==
  ASSUME ControlType
  PROVE  /\ ~snap.cmd \/ reg.cmd.op # "seek" => (AfterCommand.delayed => drv.delayed /\ ~snap.reset)
         /\ ~snap.reset /\ (~snap.cmd \/ drv.delayed \/ reg.cmd.op # "seek") => AfterCommand.track = drv.track
         /\ snap.cmd /\ AfterCommand.delayed => ~Answered
         /\ snap.cmd /\ ~snap.reset /\ ~drv.delayed /\ reg.cmd.op = "seek" =>
              AfterCommand.track = reg.cmd.track
         /\ AfterReset.delayed <=> drv.delayed /\ ~snap.reset
<1>0. drv \in Drives /\ AfterReset \in Drives /\ spin \in BOOLEAN
  BY CommandTyped DEF ControlType, SnapType
<1>1. AfterReset.delayed <=> drv.delayed /\ ~snap.reset
  BY <1>0 DEF AfterReset, Drives
<1>2. ~snap.reset => AfterReset.track = drv.track
  BY <1>0 DEF AfterReset, Drives
<1>3. CASE ~snap.cmd
  BY <1>1, <1>2, <1>3 DEF AfterCommand
<1>4. CASE snap.cmd /\ AfterReset.delayed
  <2>1. AfterCommand = [AfterReset EXCEPT !.delayed = spin]
    BY <1>4 DEF AfterCommand
  <2>2. AfterCommand.delayed = spin /\ AfterCommand.track = AfterReset.track
    BY <1>0, <2>1 DEF Drives
  <2> QED BY <1>1, <1>2, <1>4, <2>2 DEF Answered
<1>5. CASE snap.cmd /\ ~AfterReset.delayed /\ reg.cmd.op = "seek"
  <2>1. AfterCommand.track = reg.cmd.track /\ AfterCommand.delayed
    BY <1>0, <1>5 DEF AfterCommand, Drives
  <2> QED BY <1>1, <1>5, <2>1 DEF Answered
<1>6. CASE snap.cmd /\ ~AfterReset.delayed /\ reg.cmd.op # "seek"
  <2>1. AfterCommand.track = AfterReset.track /\ AfterCommand.delayed = AfterReset.delayed
    BY <1>0, <1>6 DEF AfterCommand, Drives
  <2> QED BY <1>1, <1>2, <1>6, <2>1
<1> QED BY <1>3, <1>4, <1>5, <1>6

\* A turn keeps the handshake outside a transfer.
LEMMA WorkAtRest ==
  ASSUME ControlType, Shaped, Noted, AtRest, InTransfer, Work
  PROVE  AtRest'
<1>0. drv' \in Drives /\ drv'.irq \in BOOLEAN
  BY WorkDrive DEF Drives
<1>1. /\ ~snap'.cmd /\ ~snap'.start /\ ~snap'.stop /\ ~snap'.reset /\ ~snap'.pend
  BY <1>0, WorkReg DEF Unread
<1>2. drv'.delayed = AfterCommand.delayed /\ drv'.track = AfterCommand.track
  BY WorkDrive
<1>3. ~snap.start /\ ~AfterCommand.running => ~drv'.running
  BY WorkDrive, CommandTyped, StartFields
<1>3a. AfterCommand.running <=> drv.running /\ ~snap.reset
  BY CommandFields
<1>4. snap.stop => ~drv'.running
  BY WorkDrive, CommandTyped, StartFields
<1>5. Off'
  <2> SUFFICES ASSUME n64.phase \in {"off", "boot"}
               PROVE  /\ ~reg'.start /\ ~reg'.stop /\ ~reg'.cmdPending /\ ~reg'.pend
                      /\ reg'.reset \/ (~drv'.running /\ ~drv'.delayed)
    BY <1>0, <1>1, WorkReg DEF Off, Phase, Dead
  <2>1. /\ ~reg.start /\ ~reg.stop /\ ~reg.cmdPending /\ ~reg.pend
        /\ reg.reset \/ Dead
        /\ n64.phase = "boot" => ~snap.cmd /\ ~snap.start /\ ~snap.stop
    BY DEF AtRest, Off, Phase
  <2>2. ~reg'.start /\ ~reg'.stop /\ ~reg'.cmdPending /\ ~reg'.pend
    BY <1>0, <2>1, WorkReg
  <2>3. CASE reg.reset /\ ~ClearReset
    BY <1>0, <2>2, <2>3, WorkReg
  <2>4. CASE ClearReset
    <3>1. snap.cmd /\ reg.cmd.op = "clear" /\ ~AfterReset.delayed
      BY <2>4 DEF ClearReset, Answered
    <3>2. snap.reset \/ ~drv.running
      BY <2>1, <3>1 DEF Noted
    <3>3. ~drv'.delayed
      BY <1>2, <3>1, CommandTrack
    <3>4. ~drv'.running
      <4>1. CASE snap.start
        <5>1. ~snap.reset /\ ~snap.stop
          BY <4>1 DEF Noted
        <5>2. drv' = Started(AfterCommand)
          BY <4>1, <5>1, WorkDrive
        <5> QED BY <3>1, <4>1, <5>1 DEF Noted
      <4> QED BY <1>3, <1>3a, <3>2, <4>1
    <3> QED BY <2>2, <3>3, <3>4
  <2>5. CASE Dead
    <3>1. ~snap.cmd /\ ~snap.start /\ ~drv.running /\ ~drv.delayed
      BY <2>5 DEF Dead
    <3> QED BY <1>2, <1>3, <1>3a, <2>2, <3>1, CommandTrack
  <2> QED BY <2>1, <2>3, <2>4, <2>5
<1>6. Clearing'
  <2> SUFFICES ASSUME n64.phase = "cmd", reg.cmd.op = "clear"
               PROVE  /\ ~reg'.start /\ ~reg'.stop /\ ~reg'.pend
                      /\ reg'.cmdPending <=> ~reg'.cmdIrq
                      /\ reg'.reset \/ (~drv'.running /\ ~drv'.delayed)
                      /\ reg'.cmdIrq => ~reg'.reset
    BY <1>0, <1>1, WorkReg DEF Clearing, Phase
  <2>1. /\ ~reg.start /\ ~reg.stop /\ ~reg.pend /\ ~snap.start /\ ~snap.stop
        /\ reg.cmdPending <=> ~reg.cmdIrq
        /\ reg.reset \/ (~drv.running /\ ~drv.delayed)
        /\ snap.cmd /\ reg.reset => snap.reset
        /\ reg.cmdIrq => ~reg.reset /\ ~snap.reset
    BY DEF AtRest, Clearing, Phase
  <2>2. ~reg'.start /\ ~reg'.stop /\ ~reg'.pend
    BY <1>0, <2>1, WorkReg
  <2>3. Answered => reg.cmdPending
    BY DEF Answered, Noted
  <2>4. reg'.cmdPending <=> ~reg'.cmdIrq
    BY <1>0, <2>1, <2>3, WorkReg
  <2>5. reg'.reset \/ (~drv'.running /\ ~drv'.delayed)
    <3>1. CASE ~reg.reset
      BY <1>2, <1>3, <1>3a, <2>1, <3>1, CommandTrack
    <3>2. CASE reg.reset /\ ~ClearReset
      BY <1>0, <3>2, WorkReg
    <3>3. CASE reg.reset /\ ClearReset
      <4>1. snap.reset
        BY <2>1, <3>3 DEF ClearReset, Answered
      <4> QED BY <1>2, <1>3, <1>3a, <2>1, <4>1, CommandTrack
    <3> QED BY <3>1, <3>2, <3>3
  <2>6. reg'.cmdIrq => ~reg'.reset
    <3>1. CASE ~reg.reset
      BY <1>0, <3>1, WorkReg
    <3>2. CASE reg.reset /\ ~Answered
      BY <1>0, <2>1, <3>2, WorkReg
    <3>3. CASE reg.reset /\ Answered
      <4>1. snap.reset
        BY <2>1, <3>3 DEF Answered
      <4>2. ClearReset
        BY <3>3, <4>1, CommandTrack DEF ClearReset
      <4> QED BY <1>0, <4>2, WorkReg
    <3> QED BY <3>1, <3>2, <3>3
  <2> QED BY <2>2, <2>4, <2>5, <2>6
<1>7. Commanding'
  <2> SUFFICES ASSUME n64.phase = "cmd", reg.cmd.op # "clear"
               PROVE  /\ ~reg'.start /\ ~reg'.reset
                      /\ reg'.cmdPending <=> ~reg'.cmdIrq
                      /\ reg'.stop \/ Calm'
                      /\ reg'.cmdIrq => ~reg'.stop
                      /\ drv'.delayed => reg.cmd.op = "seek" /\ reg'.cmdPending
                      /\ reg.cmd.op = "seek" =>
                           /\ reg.cmd.track = n64.track
                           /\ drv'.delayed \/ reg'.cmdIrq => drv'.track = n64.track
    BY <1>0, <1>1, WorkReg DEF Commanding, Phase
  <2>1. /\ ~reg.start /\ ~reg.reset /\ ~snap.reset
        /\ reg.cmdPending <=> ~reg.cmdIrq
        /\ reg.stop \/ (Calm /\ ~snap.start /\ ~snap.stop)
        /\ snap.cmd /\ reg.stop => snap.stop
        /\ reg.cmdIrq => ~reg.stop
        /\ drv.delayed => reg.cmd.op = "seek" /\ reg.cmdPending
        /\ reg.cmd.op = "seek" =>
             /\ reg.cmd.track = n64.track
             /\ drv.delayed \/ reg.cmdIrq => drv.track = n64.track
    BY DEF AtRest, Commanding, Phase
  <2>2. ~reg'.start /\ ~reg'.reset
    BY <1>0, <2>1, WorkReg
  <2>3. Answered => snap.cmd /\ reg.cmdPending
    BY DEF Answered, Noted
  <2>4. reg'.cmdPending <=> ~reg'.cmdIrq
    BY <1>0, <2>1, <2>3, WorkReg
  <2>5. reg'.stop \/ Calm'
    <3>1. CASE reg.stop /\ ~snap.stop
      BY <1>0, <3>1, WorkReg
    <3>2. CASE snap.stop
      BY <1>4, <3>2 DEF Calm
    <3>3. CASE Calm /\ ~snap.start /\ ~snap.stop
      BY <3>3, CalmTurn
    <3> QED BY <2>1, <3>1, <3>2, <3>3
  <2>6. reg'.cmdIrq => ~reg'.stop
    BY <1>0, <2>1, <2>3, WorkReg
  <2>7. drv'.delayed => reg.cmd.op = "seek" /\ reg'.cmdPending
    <3> SUFFICES ASSUME AfterCommand.delayed PROVE reg.cmd.op = "seek" /\ reg.cmdPending /\ ~Answered
      BY <1>0, <1>2, WorkReg
    <3>1. CASE snap.cmd
      BY <2>1, <3>1, CommandTrack DEF Noted
    <3>2. CASE ~snap.cmd
      BY <2>1, <3>2, CommandTrack DEF Answered
    <3> QED BY <3>1, <3>2
  <2>8. ASSUME reg.cmd.op = "seek", drv'.delayed \/ reg'.cmdIrq PROVE drv'.track = n64.track
    <3>1. CASE drv.delayed
      BY <1>2, <2>1, <2>8, <3>1, CommandTrack
    <3>2. CASE ~drv.delayed /\ snap.cmd
      BY <1>2, <2>1, <2>8, <3>2, CommandTrack
    <3>3. CASE ~drv.delayed /\ ~snap.cmd
      <4>1. ~drv'.delayed /\ ~Answered
        BY <1>2, <3>3, CommandTrack DEF Answered
      <4>2. reg.cmdIrq
        BY <1>0, <2>8, <4>1, WorkReg
      <4> QED BY <1>2, <2>1, <2>8, <3>3, <4>2, CommandTrack
    <3> QED BY <3>1, <3>2, <3>3
  <2> QED BY <2>1, <2>2, <2>4, <2>5, <2>6, <2>7, <2>8
<1>8. Idle'
  <2> SUFFICES ASSUME n64.phase = "idle"
               PROVE  /\ ~reg'.start /\ ~reg'.reset /\ ~reg'.cmdPending /\ ~drv'.delayed
                      /\ reg'.stop \/ Calm'
    BY <1>0, <1>1, WorkReg DEF Idle, Phase
  <2>1. /\ ~reg.start /\ ~reg.reset /\ ~snap.reset /\ ~reg.cmdPending /\ ~drv.delayed
        /\ reg.stop \/ (Calm /\ ~snap.start /\ ~snap.stop)
        /\ ~snap.cmd
    BY DEF AtRest, Idle, Phase, Noted
  <2>2. ~reg'.start /\ ~reg'.reset /\ ~reg'.cmdPending /\ ~drv'.delayed
    BY <1>0, <1>2, <2>1, WorkReg, CommandTrack
  <2>3. CASE reg.stop /\ ~snap.stop
    BY <1>0, <2>2, <2>3, WorkReg
  <2>4. CASE snap.stop
    BY <1>4, <2>2, <2>4 DEF Calm
  <2>5. CASE Calm /\ ~snap.start /\ ~snap.stop
    BY <2>2, <2>5, CalmTurn
  <2> QED BY <2>1, <2>3, <2>4, <2>5
<1>9. Going'
  <2> SUFFICES ASSUME n64.phase \in {"ready", "written", "wait", "data", "c2", "err"}
               PROVE  /\ ~reg'.stop /\ ~reg'.reset /\ ~reg'.cmdPending
                      /\ ~drv'.delayed /\ drv'.track = n64.track
    BY <1>0, <1>1, WorkReg DEF Going, Phase
  <2>1. /\ ~reg.stop /\ ~reg.reset /\ ~reg.cmdPending /\ ~snap.stop /\ ~snap.reset
        /\ ~drv.delayed /\ drv.track = n64.track /\ ~snap.cmd
    BY DEF AtRest, Going, Phase, Noted
  <2> QED BY <1>0, <1>2, <2>1, WorkReg, CommandTrack
<1>10. Ready'
  <2> SUFFICES ASSUME n64.phase \in {"ready", "written"}
               PROVE  ~reg'.start /\ Calm'
    BY <1>0, <1>1, WorkReg DEF Ready, Phase
  <2>1. ~reg.start /\ ~snap.start /\ Calm /\ ~snap.stop
    BY DEF AtRest, Going, Ready, Phase
  <2> QED BY <1>0, <2>1, WorkReg, CalmTurn
<1> QED BY <1>5, <1>6, <1>7, <1>8, <1>9, <1>10 DEF AtRest

\* What the switch finds, by what the game did.
SameMove(e) ==
  /\ e.state = drv.state /\ e.cur = drv.cur /\ e.data = drv.data /\ e.c2 = drv.c2
  /\ e.running = TRUE /\ e.irq = FALSE

\* It goes on where it is, takes the sector, or counts through the gap.
LEMMA FoundMoves ==
  ASSUME ControlType, Shaped, AfterCommand.running
  PROVE  /\ ~snap.pend /\ ~snap.ack => SameMove(Found)
         /\ ~snap.pend /\ drv.read /\ (drv.cur <= DataSectors \/ drv.cur > BlockSectors) =>
              SameMove(Found)
         /\ ~snap.pend /\ ~drv.read =>
              /\ Found.state = drv.state /\ Found.cur = drv.cur /\ Found.data = drv.data
              /\ Found.c2 = drv.c2 /\ Found.irq = FALSE
              /\ drv.cur # DataSectors => Found.running = TRUE
         /\ ~snap.pend /\ snap.ack /\ drv.read /\ drv.cur > DataSectors /\ drv.cur <= BlockSectors =>
              /\ Found.state = drv.state /\ Found.cur = drv.cur + 1 /\ Found.data = drv.data
              /\ Found.running = TRUE /\ Found.irq = TRUE
              /\ Found.c2 <=> drv.c2 \/ drv.cur = BlockSectors
         /\ snap.pend /\ drv.cur < DataSectors =>
              /\ Found.state = (IF drv.read THEN "sectorRead" ELSE "sectorWrite")
              /\ Found.cur = drv.cur /\ Found.data = drv.data /\ Found.c2 = drv.c2
              /\ Found.running = TRUE /\ Found.irq = FALSE
         /\ snap.pend /\ drv.read /\ drv.cur = DataSectors =>
              /\ Found.state = drv.state /\ Found.cur \in {DataSectors + 1, DataSectors + 2}
              /\ Found.data = FALSE /\ (Found.c2 <=> drv.c2) /\ Found.running = TRUE /\ Found.irq = TRUE
         /\ snap.pend /\ drv.read /\ drv.cur = BlockSectors + 1 =>
              /\ Found.state = "nextBlock" /\ Found.cur = drv.cur /\ Found.data = drv.data
              /\ Found.c2 = drv.c2 /\ Found.running = TRUE /\ Found.irq = FALSE
<1> DEFINE p == OnPending(AfterCommand)
<1>0. /\ AfterCommand \in Drives /\ p \in Drives /\ Found = OnAck(p) /\ AfterCommand.irq = FALSE
      /\ AfterCommand.running = TRUE
  <2>1. AfterCommand \in Drives
    BY CommandTyped
  <2>2. AfterCommand.running \in BOOLEAN
    BY <2>1 DEF Drives
  <2> QED BY <2>1, <2>2, CommandFields, TurnTyped DEF Found
<1>1. /\ AfterCommand.state = drv.state /\ AfterCommand.cur = drv.cur /\ AfterCommand.data = drv.data
      /\ AfterCommand.c2 = drv.c2 /\ AfterCommand.read = drv.read
  BY CommandFields
<1>2. drv.cur \in Nat /\ DataSectors \in Nat /\ DataSectors > 0 /\ BlockSectors = DataSectors + 4
      /\ p.cur \in Nat
  BY <1>0, <1>1, Constants DEF Drives
<1>3. p.read = drv.read /\ p.running = TRUE /\ p.c2 = drv.c2
  BY <1>0, <1>1, PendingFields DEF Kept
<1>4. ~snap.pend => p = AfterCommand
  BY <1>0, PendingFields
<1>5. snap.pend /\ drv.cur < DataSectors =>
        /\ p.state = (IF drv.read THEN "sectorRead" ELSE "sectorWrite")
        /\ p.cur = drv.cur /\ p.data = drv.data /\ p.irq = FALSE
  BY <1>0, <1>1, PendingFields
<1>6. snap.pend /\ drv.read /\ drv.cur = DataSectors =>
        /\ p.state = drv.state /\ p.cur = DataSectors + 1 /\ p.data = FALSE /\ p.irq = TRUE
  <2> SUFFICES ASSUME snap.pend, drv.read, drv.cur = DataSectors
               PROVE  p.state = drv.state /\ p.cur = DataSectors + 1 /\ p.data = FALSE /\ p.irq = TRUE
    OBVIOUS
  <2>1. AfterCommand.read
    BY <1>1
  <2> QED BY <1>0, <1>1, <2>1, PendingFields
<1>7. snap.pend /\ drv.read /\ drv.cur = BlockSectors + 1 =>
        p.state = "nextBlock" /\ p.cur = drv.cur /\ p.data = drv.data /\ p.irq = FALSE
  <2> SUFFICES ASSUME snap.pend, drv.read, drv.cur = BlockSectors + 1
               PROVE  p.state = "nextBlock" /\ p.cur = drv.cur /\ p.data = drv.data /\ p.irq = FALSE
    OBVIOUS
  <2>1. AfterCommand.read /\ AfterCommand.cur > DataSectors /\ AfterCommand.cur >= BlockSectors
    BY <1>1, <1>2
  <2> QED BY <1>0, <1>1, <2>1, PendingFields
<1> HIDE DEF p
<1>8. /\ Found.state = p.state /\ Found.data = p.data
      /\ ~snap.ack => Found = p
      /\ p.read /\ (p.cur <= DataSectors \/ p.cur > BlockSectors) => Found = p
  BY <1>0, AckFields
<1>9. ~p.read =>
        /\ Found.cur = p.cur /\ (Found.c2 <=> p.c2) /\ Found.irq = p.irq
        /\ p.cur # DataSectors => Found.running = TRUE
  <2>1. CASE ~snap.ack
    BY <1>3, <1>8, <2>1
  <2>2. CASE snap.ack /\ ~p.read
    <3>1. /\ Found.running <=> p.running /\ p.cur # DataSectors
          /\ Found.cur = p.cur /\ Found.c2 = p.c2 /\ Found.irq = p.irq
      BY <1>0, <2>2, AckFields
    <3>2. Found.running \in BOOLEAN
      BY <1>0, TurnTyped DEF Drives
    <3> QED BY <1>3, <3>1, <3>2
  <2> QED BY <2>1, <2>2
<1>9a. ~p.read => Found.c2 = p.c2
  <2>1. CASE ~snap.ack
    BY <1>8, <2>1
  <2>2. CASE snap.ack /\ ~p.read
    BY <1>0, <2>2, AckFields
  <2> QED BY <2>1, <2>2
<1>10. snap.ack /\ p.read /\ p.cur > DataSectors /\ p.cur <= BlockSectors =>
         /\ Found.running = TRUE /\ Found.cur = p.cur + 1 /\ Found.irq = TRUE
         /\ Found.c2 <=> p.c2 \/ p.cur = BlockSectors
  BY <1>0, <1>3, AckFields
<1>11. ~snap.pend /\ ~snap.ack => SameMove(Found)
  BY <1>0, <1>1, <1>4, <1>8 DEF SameMove
<1>12. ~snap.pend /\ drv.read /\ (drv.cur <= DataSectors \/ drv.cur > BlockSectors) => SameMove(Found)
  <2> SUFFICES ASSUME ~snap.pend, drv.read, drv.cur <= DataSectors \/ drv.cur > BlockSectors
               PROVE  SameMove(Found)
    OBVIOUS
  <2>1. p.read /\ p.cur = drv.cur
    BY <1>1, <1>3, <1>4
  <2> QED BY <1>0, <1>1, <1>4, <1>8, <2>1 DEF SameMove
<1>13. ~snap.pend /\ ~drv.read =>
         /\ Found.state = drv.state /\ Found.cur = drv.cur /\ Found.data = drv.data
         /\ Found.c2 = drv.c2 /\ Found.irq = FALSE
         /\ drv.cur # DataSectors => Found.running = TRUE
  <2> SUFFICES ASSUME ~snap.pend, ~drv.read
               PROVE  /\ Found.state = drv.state /\ Found.cur = drv.cur /\ Found.data = drv.data
                      /\ Found.c2 = drv.c2 /\ Found.irq = FALSE
                      /\ drv.cur # DataSectors => Found.running = TRUE
    OBVIOUS
  <2>1. ~p.read /\ p.cur = drv.cur /\ p.state = drv.state /\ p.data = drv.data /\ p.irq = FALSE
    BY <1>0, <1>1, <1>3, <1>4
  <2> QED BY <1>3, <1>8, <1>9, <1>9a, <2>1
<1>14. ~snap.pend /\ snap.ack /\ drv.read /\ drv.cur > DataSectors /\ drv.cur <= BlockSectors =>
         /\ Found.state = drv.state /\ Found.cur = drv.cur + 1 /\ Found.data = drv.data
         /\ Found.running = TRUE /\ Found.irq = TRUE
         /\ Found.c2 <=> drv.c2 \/ drv.cur = BlockSectors
  <2> SUFFICES ASSUME ~snap.pend, snap.ack, drv.read, drv.cur > DataSectors, drv.cur <= BlockSectors
               PROVE  /\ Found.state = drv.state /\ Found.cur = drv.cur + 1 /\ Found.data = drv.data
                      /\ Found.running = TRUE /\ Found.irq = TRUE
                      /\ Found.c2 <=> drv.c2 \/ drv.cur = BlockSectors
    OBVIOUS
  <2>1. p.read /\ p.cur = drv.cur /\ p.state = drv.state /\ p.data = drv.data /\ p.c2 = drv.c2
    BY <1>0, <1>1, <1>3, <1>4
  <2> QED BY <1>8, <1>10, <2>1
<1>15. snap.pend /\ drv.cur < DataSectors =>
         /\ Found.state = (IF drv.read THEN "sectorRead" ELSE "sectorWrite")
         /\ Found.cur = drv.cur /\ Found.data = drv.data /\ Found.c2 = drv.c2
         /\ Found.running = TRUE /\ Found.irq = FALSE
  <2> SUFFICES ASSUME snap.pend, drv.cur < DataSectors
               PROVE  /\ Found.state = (IF drv.read THEN "sectorRead" ELSE "sectorWrite")
                      /\ Found.cur = drv.cur /\ Found.data = drv.data /\ Found.c2 = drv.c2
                      /\ Found.running = TRUE /\ Found.irq = FALSE
    OBVIOUS
  <2>1. p.cur = drv.cur /\ p.cur <= DataSectors /\ p.cur # DataSectors
    BY <1>2, <1>5
  <2>2. CASE p.read
    BY <1>3, <1>5, <1>8, <2>1, <2>2
  <2>3. CASE ~p.read
    BY <1>3, <1>5, <1>8, <1>9, <1>9a, <2>1, <2>3
  <2> QED BY <2>2, <2>3
<1>16. snap.pend /\ drv.read /\ drv.cur = DataSectors =>
         /\ Found.state = drv.state /\ Found.cur \in {DataSectors + 1, DataSectors + 2}
         /\ Found.data = FALSE /\ (Found.c2 <=> drv.c2) /\ Found.running = TRUE /\ Found.irq = TRUE
  <2> SUFFICES ASSUME snap.pend, drv.read, drv.cur = DataSectors
               PROVE  /\ Found.state = drv.state /\ Found.cur \in {DataSectors + 1, DataSectors + 2}
                      /\ Found.data = FALSE /\ (Found.c2 <=> drv.c2)
                      /\ Found.running = TRUE /\ Found.irq = TRUE
    OBVIOUS
  <2>1. /\ p.read /\ p.cur = DataSectors + 1 /\ p.state = drv.state /\ p.data = FALSE /\ p.irq = TRUE
        /\ p.cur > DataSectors /\ p.cur <= BlockSectors /\ p.cur # BlockSectors /\ p.cur + 1 = DataSectors + 2
    BY <1>2, <1>3, <1>6
  <2>2. CASE snap.ack
    BY <1>3, <1>8, <1>10, <2>1, <2>2
  <2>3. CASE ~snap.ack
    BY <1>3, <1>8, <2>1, <2>3
  <2> QED BY <2>2, <2>3
<1>17. snap.pend /\ drv.read /\ drv.cur = BlockSectors + 1 =>
         /\ Found.state = "nextBlock" /\ Found.cur = drv.cur /\ Found.data = drv.data
         /\ Found.c2 = drv.c2 /\ Found.running = TRUE /\ Found.irq = FALSE
  <2> SUFFICES ASSUME snap.pend, drv.read, drv.cur = BlockSectors + 1
               PROVE  /\ Found.state = "nextBlock" /\ Found.cur = drv.cur /\ Found.data = drv.data
                      /\ Found.c2 = drv.c2 /\ Found.running = TRUE /\ Found.irq = FALSE
    OBVIOUS
  <2>1. p.read /\ p.cur = drv.cur /\ p.cur > BlockSectors
    BY <1>2, <1>3, <1>7
  <2> QED BY <1>3, <1>7, <1>8, <2>1
<1> QED BY <1>11, <1>12, <1>13, <1>14, <1>15, <1>16, <1>17

\* A turn keeps the cursor of each state.
LEMMA WorkShaped ==
  ASSUME ControlType, Shaped, Noted, Work
  PROVE  Shaped'
<1> SUFFICES ASSUME drv'.running
             PROVE  /\ drv'.state # "sectorWrite"
                    /\ drv'.state \in {"blockWrite", "writeWait"} => ~drv'.read /\ drv'.cur = DataSectors
                    /\ drv'.state = "sectorRead" => drv'.read /\ drv'.cur = 0
                    /\ drv'.state = "readWait" => drv'.cur = 0
                    /\ drv'.state = "nextBlock" => ~drv'.read /\ drv'.cur = DataSectors
  BY DEF Shaped
<1>1. CASE snap.stop \/ (~snap.start /\ ~AfterCommand.running)
  BY <1>1, WorkDrive, CommandTyped, StartFields
<1>2. CASE ~snap.stop /\ snap.start
  BY <1>2, WorkDrive, CommandTyped, StartFields
<1>3. CASE ~snap.stop /\ ~snap.start /\ AfterCommand.running
  <2>0. /\ Machine(Found) /\ Found \in Drives /\ drv.running /\ Found.read = drv.read
        /\ Found.state \in {"sectorRead", "sectorWrite"} => Found.cur < DataSectors
    BY <1>3, WorkDrive, FoundFields
  <2>1. /\ drv.state # "sectorWrite"
        /\ drv.state \in {"blockWrite", "writeWait"} => ~drv.read /\ drv.cur = DataSectors
        /\ drv.state = "sectorRead" => drv.read /\ drv.cur = 0
        /\ drv.state = "readWait" => drv.cur = 0
        /\ Pend => drv.state = "idle"
    BY <2>0 DEF Shaped, Noted
  <2>2. drv.cur \in Nat /\ Found.cur \in Nat /\ DataSectors \in Nat /\ DataSectors > 0
    BY <2>0, Constants DEF Drives, ControlType
  <2>3. /\ Found.state = "sectorWrite" => ~drv.read
        /\ Found.state \in {"blockWrite", "writeWait"} => ~drv.read /\ Found.cur = DataSectors
        /\ Found.state = "readWait" => Found.cur = 0
    <3>0. OnPending(AfterCommand) \in Drives /\ AfterCommand \in Drives
      BY CommandTyped, TurnTyped
    <3>1. Found.state = OnPending(AfterCommand).state
      BY <3>0, AckFields DEF Found
    <3>2. CASE ~snap.pend
      <4>1. Found.state = drv.state
        BY <1>3, <3>0, <3>1, <3>2, PendingFields, CommandFields
      <4>2. CASE drv.read /\ drv.cur = 0
        <5>1. drv.cur <= DataSectors
          BY <2>2, <4>2
        <5>2. SameMove(Found)
          BY <1>3, <3>2, <4>2, <5>1, FoundMoves
        <5> QED BY <2>1, <4>1, <4>2, <5>2 DEF SameMove
      <4>3. CASE ~drv.read
        BY <1>3, <2>1, <3>2, <4>1, <4>3, FoundMoves
      <4>4. CASE drv.read /\ drv.cur # 0
        BY <2>1, <4>1, <4>4
      <4> QED BY <4>2, <4>3, <4>4
    <3>3. CASE snap.pend
      <4>1. drv.state = "idle" /\ AfterCommand.state = "idle"
        BY <1>3, <2>1, <3>3, CommandFields DEF Pend
      <4>2. AfterCommand.read = drv.read /\ AfterCommand.cur = drv.cur
        BY CommandFields
      <4>3. /\ Found.state \in {"idle", "sectorRead", "sectorWrite", "nextBlock"}
            /\ Found.state = "sectorWrite" => ~drv.read
        BY <3>1, <4>1, <4>2 DEF OnPending, Drives
      <4> QED BY <4>3
    <3> QED BY <3>2, <3>3
  <2>4. CASE Found.state = "start"
    BY <2>0, <2>4, MachineSteps
  <2>5. CASE Found.state \in {"readWait", "writeWait"} /\ ~Found.ready
    BY <2>0, <2>3, <2>5, MachineSteps
  <2>6. CASE Found.state = "readWait" /\ Found.ready
    BY <2>0, <2>3, <2>6, MachineSteps
  <2>7. CASE Found.state = "sectorRead"
    BY <2>0, <2>7, MachineSteps
  <2>8. CASE Found.state = "sectorWrite"
    <3>1. Found.cur + 1 < DataSectors \/ Found.cur + 1 = DataSectors
      BY <2>0, <2>2, <2>8
    <3>2. ~drv'.read
      BY <2>0, <2>3, <2>8, MachineSteps
    <3>3. CASE Found.cur + 1 < DataSectors
      BY <2>0, <2>8, <3>3, MachineSteps
    <3>4. CASE Found.cur + 1 = DataSectors
      <4>1. ~(Found.cur + 1 < DataSectors)
        BY <2>2, <3>4
      <4>2. drv'.state = "blockWrite" /\ drv'.cur = Found.cur + 1
        BY <2>0, <2>8, <4>1, MachineSteps
      <4> QED BY <3>2, <3>4, <4>2
    <3> QED BY <3>1, <3>3, <3>4
  <2>9. CASE Found.state = "blockWrite"
    BY <2>0, <2>3, <2>9, MachineSteps
  <2>10. CASE Found.state = "writeWait" /\ Found.ready
    BY <2>0, <2>3, <2>10, MachineSteps
  <2>11. CASE Found.state = "nextBlock"
    <3>1. drv'.state \in {"start", "idle"}
      BY <2>0, <2>11, MachineSteps
    <3> QED BY <3>1
  <2>12. CASE Found.state = "idle"
    BY <2>0, <2>12, MachineSteps
  <2> QED BY <2>0, <2>4, <2>5, <2>6, <2>7, <2>8, <2>9, <2>10, <2>11, <2>12 DEF Drives, States
<1> QED BY <1>1, <1>2, <1>3

\* One turn of a transfer that is under way.
LEMMA LiveTurn ==
  ASSUME ControlType, Shaped, Noted, AtRest, Live, Work, ~reg.start,
         n64.phase \in {"wait", "data", "c2", "err"}
  PROVE  Live'
<1>0. /\ drv' \in Drives /\ ~snap.cmd /\ ~snap.reset /\ ~snap.stop /\ ~snap.start /\ drv.running
      /\ drv.read = n64.read
  BY WorkDrive DEF Live, AtRest, Going, Phase, Noted
<1>1. /\ AfterCommand.running /\ Machine(Found) /\ Found \in Drives
      /\ Found.state \in {"sectorRead", "sectorWrite"} => Found.cur < DataSectors
      /\ Found.read = drv.read /\ Found.full = drv.full /\ Found.blk = drv.blk /\ Found.err = drv.err
      /\ Found.ready = drv.ready /\ Found.valid = drv.valid
  <2>1. AfterCommand.running
    BY <1>0, CommandFields
  <2> QED BY <1>0, <2>1, WorkDrive, FoundFields
<1>2. drv'.read = n64.read
  BY <1>0, <1>1, MachineSteps
<1>3. drv'.irq \in BOOLEAN
  BY <1>0 DEF Drives
<1>4. /\ n64' = n64 /\ ~snap'.pend /\ ~snap'.ack /\ ~snap'.start
      /\ reg'.pend <=> reg.pend /\ ~snap.pend
      /\ reg'.ack <=> reg.ack /\ ~snap.ack
      /\ reg'.irq <=> reg.irq \/ drv'.irq
  BY <1>0, <1>1, <1>3, WorkReg DEF Unread, Starts
<1>5. /\ drv.cur \in Nat /\ Found.cur \in Nat /\ DataSectors \in Nat /\ DataSectors > 0
      /\ BlockSectors = DataSectors + 4 /\ n64.k \in Nat
  BY <1>1, Constants DEF Drives, ControlType, GameType
<1>6. ASSUME drv'.running, Loading' \/ Told' \/ Gap' \/ AtGame' \/ Moved' \/ Writing' PROVE Live'
  BY <1>2, <1>4, <1>6 DEF Live
<1>7. n64.blk \in {0, 1} /\ drv.blk \in {0, 1} /\ n64.left \in {0, 1} /\ drv.full \in BOOLEAN
  BY DEF ControlType, GameType, Drives
<1>8. CASE Loading
  <2>1. /\ n64.phase = "wait" /\ ~reg.irq /\ ~reg.pend /\ ~snap.pend /\ ~reg.ack /\ ~snap.ack
        /\ n64.k = 0 /\ drv.blk = n64.blk /\ (drv.full <=> n64.left = 1) /\ ~drv.c2
    BY <1>8 DEF Loading, Silent, Pend, Ack, Same
  <2>2. SameMove(Found)
    BY <1>1, <2>1, FoundMoves
  <2>3. ASSUME drv'.irq = FALSE, drv'.blk = drv.blk, drv'.full = drv.full, ~drv'.c2,
               \/ drv'.state = "start" /\ ~drv'.err
               \/ drv'.state = "readWait" /\ drv'.cur = 0 /\ ~drv'.err
               \/ drv'.state = "sectorRead" /\ drv'.cur = 0 /\ drv'.read /\ (drv'.data \/ drv'.err)
        PROVE  Loading'
    BY <1>4, <2>1, <2>3 DEF Loading, Silent, Pend, Ack, Same
  <2>4. ASSUME drv'.irq = TRUE, drv'.blk = drv.blk, drv'.full = drv.full, ~drv'.c2, drv'.state = "idle",
               drv'.cur = (IF drv'.read THEN 1 ELSE 0), drv'.data \/ drv'.err
        PROVE  Told'
    BY <1>4, <1>5, <2>1, <2>4 DEF Told, Pend, Ack, Same, AtSector
  <2>5. CASE drv.state = "start" /\ ~drv.err
    <3>1. Found.state = "start" /\ ~Found.err
      BY <1>1, <2>2, <2>5 DEF SameMove
    <3>2. /\ drv'.state \in {"start", "readWait"} /\ drv'.cur = 0 /\ drv'.err = Found.err
          /\ drv'.irq = Found.irq /\ drv'.blk = Found.blk /\ drv'.full = Found.full /\ drv'.c2 = Found.c2
          /\ drv'.running = Found.running
      BY <1>1, <3>1, MachineSteps
    <3> QED BY <1>1, <1>6, <2>1, <2>2, <2>3, <3>1, <3>2 DEF SameMove
  <2>6. CASE drv.state = "readWait" /\ drv.cur = 0 /\ ~drv.err /\ ~drv.ready
    <3>1. Found.state = "readWait" /\ ~Found.ready
      BY <1>1, <2>2, <2>6 DEF SameMove
    <3>2. drv' = Found
      BY <1>1, <3>1, MachineSteps
    <3> QED BY <1>1, <1>6, <2>1, <2>2, <2>3, <2>6, <3>2 DEF SameMove
  <2>7. CASE drv.state = "readWait" /\ drv.cur = 0 /\ ~drv.err /\ drv.ready
    <3>1. Found.state = "readWait" /\ Found.ready /\ Found.cur = 0
      BY <1>1, <2>2, <2>7 DEF SameMove
    <3>2. /\ drv'.cur = 0 /\ drv'.blk = Found.blk /\ drv'.full = Found.full /\ drv'.c2 = Found.c2
          /\ drv'.running = Found.running /\ drv'.read = Found.read
          /\ drv'.data \/ drv'.err
          /\ IF Found.read THEN drv'.state = "sectorRead" /\ drv'.irq = Found.irq
                           ELSE drv'.state = "idle" /\ drv'.irq = TRUE
      BY <1>1, <3>1, MachineSteps
    <3>3. CASE drv.read
      <4>1. Loading'
        BY <1>1, <2>1, <2>2, <2>3, <3>2, <3>3 DEF SameMove
      <4> QED BY <1>6, <2>2, <3>2, <4>1 DEF SameMove
    <3>4. CASE ~drv.read
      <4>1. Told'
        BY <1>1, <2>1, <2>2, <2>4, <3>2, <3>4 DEF SameMove
      <4> QED BY <1>6, <2>2, <3>2, <4>1 DEF SameMove
    <3> QED BY <3>3, <3>4
  <2>8. CASE drv.state = "sectorRead" /\ drv.cur = 0 /\ drv.read /\ (drv.data \/ drv.err)
    <3>1. Found.state = "sectorRead" /\ Found.cur = 0 /\ (Found.data \/ Found.err) /\ Found.read
      BY <1>1, <2>2, <2>8 DEF SameMove
    <3>2. /\ drv'.cur = Found.cur + 1 /\ drv'.blk = Found.blk /\ drv'.full = Found.full
          /\ drv'.c2 = Found.c2 /\ drv'.running = Found.running /\ drv'.read = Found.read
          /\ drv'.data = Found.data /\ drv'.err = Found.err /\ drv'.state = "idle" /\ drv'.irq = TRUE
      BY <1>1, <3>1, MachineSteps
    <3>3. drv'.cur = (IF drv'.read THEN 1 ELSE 0) /\ (drv'.data \/ drv'.err)
      BY <3>1, <3>2
    <3>4. Told'
      BY <1>1, <2>1, <2>2, <2>4, <3>2, <3>3 DEF SameMove
    <3> QED BY <1>6, <2>2, <3>2, <3>4 DEF SameMove
  <2> QED BY <1>8, <2>5, <2>6, <2>7, <2>8 DEF Loading
<1>9. CASE Told
  <2>1. ~snap.pend /\ ~snap.ack /\ drv.state = "idle" /\ reg.irq /\ ~reg.pend /\ ~reg.ack
    BY <1>9 DEF Told, Pend, Ack
  <2>2. SameMove(Found)
    BY <1>1, <2>1, FoundMoves
  <2>3. drv' = Found
    BY <1>1, <2>1, <2>2, MachineSteps DEF SameMove
  <2>4. Told'
    BY <1>1, <1>4, <1>9, <2>1, <2>2, <2>3 DEF Told, Pend, Ack, Same, AtSector, SameMove
  <2> QED BY <1>6, <2>2, <2>3, <2>4 DEF SameMove
<1>10. CASE Gap
  <2>1. /\ n64.phase = "wait" /\ ~reg.irq /\ ~reg.pend /\ ~snap.pend /\ Ack /\ drv.state = "idle"
        /\ ~drv.err /\ drv.blk = n64.blk /\ (drv.full <=> n64.left = 1)
        /\ drv.read /\ ~drv.data /\ ~drv.c2 /\ n64.k = DataSectors
        /\ drv.cur > DataSectors /\ drv.cur <= BlockSectors
    BY <1>5, <1>10 DEF Gap, Same, Pend
  <2>2. CASE snap.ack
    <3>1. /\ Found.state = "idle" /\ Found.cur = drv.cur + 1 /\ Found.data = drv.data
          /\ Found.running = TRUE /\ Found.irq = TRUE
          /\ Found.c2 <=> drv.cur = BlockSectors
      BY <1>1, <2>1, <2>2, FoundMoves
    <3>2. drv' = Found
      BY <1>1, <3>1, MachineSteps
    <3>3. /\ drv'.cur \in DataSectors + 1..BlockSectors + 1
          /\ drv'.c2 <=> drv'.cur = BlockSectors + 1
      BY <1>5, <2>1, <3>1, <3>2
    <3>4. Told'
      BY <1>1, <1>4, <2>1, <2>2, <3>1, <3>2, <3>3 DEF Told, Pend, Ack, Same
    <3> QED BY <1>6, <3>1, <3>2, <3>4
  <2>3. CASE ~snap.ack
    <3>1. SameMove(Found)
      BY <1>1, <2>1, <2>3, FoundMoves
    <3>2. drv' = Found
      BY <1>1, <2>1, <3>1, MachineSteps DEF SameMove
    <3>3. Gap'
      BY <1>1, <1>4, <1>10, <2>1, <2>3, <3>1, <3>2 DEF Gap, Pend, Ack, Same, SameMove
    <3> QED BY <1>6, <3>1, <3>2, <3>3 DEF SameMove
  <2> QED BY <2>2, <2>3
<1>11. ASSUME ~snap.pend, drv.state = "idle", drv.cur # DataSectors \/ drv.read,
              drv.read => drv.cur <= DataSectors \/ drv.cur > BlockSectors
       PROVE  drv' = Found /\ SameMove(Found)
  <2>1. SameMove(Found)
    <3>1. CASE drv.read
      BY <1>1, <1>11, <3>1, FoundMoves
    <3>2. CASE ~drv.read
      BY <1>1, <1>11, <3>2, FoundMoves DEF SameMove
    <3> QED BY <3>1, <3>2
  <2> QED BY <1>1, <1>11, <2>1, MachineSteps DEF SameMove
<1>12. CASE AtGame
  <2>1. ~reg.irq /\ ~reg.pend /\ ~snap.pend /\ drv.state = "idle"
    BY <1>12 DEF AtGame, Pend
  <2>2. /\ drv.cur # DataSectors \/ drv.read
        /\ drv.read => drv.cur <= DataSectors \/ drv.cur > BlockSectors
    BY <1>5, <1>12 DEF AtGame, AtSector
  <2>3. drv' = Found /\ SameMove(Found)
    BY <1>11, <2>1, <2>2
  <2>4. AtGame'
    BY <1>1, <1>4, <1>12, <2>1, <2>3 DEF AtGame, Pend, Same, AtSector, SameMove
  <2> QED BY <1>6, <2>3, <2>4 DEF SameMove
<1>13. CASE Moved /\ ~snap.pend
  <2>1. reg.pend /\ ~reg.irq /\ drv.state = "idle"
    BY <1>13 DEF Moved
  <2>2. /\ drv.cur # DataSectors \/ drv.read
        /\ drv.read => drv.cur <= DataSectors \/ drv.cur > BlockSectors
    <3>1. n64.k <= DataSectors
      BY <1>5 DEF ControlType, GameType
    <3> QED BY <1>5, <1>13, <3>1 DEF Moved
  <2>3. drv' = Found /\ SameMove(Found)
    BY <1>11, <1>13, <2>1, <2>2
  <2>4. Moved'
    BY <1>1, <1>4, <1>13, <2>1, <2>3 DEF Moved, Same, Ahead, SameMove
  <2> QED BY <1>6, <2>3, <2>4 DEF SameMove
<1>14. CASE Moved /\ snap.pend
  <2>1. /\ n64.phase = "wait" /\ ~reg.irq /\ reg.pend /\ (reg.ack => snap.ack)
        /\ drv.state = "idle" /\ ~drv.err
    BY <1>14 DEF Moved
  <2>2. ~reg'.pend /\ ~reg'.ack
    BY <1>4, <1>14, <2>1
  <2>3. n64.k <= DataSectors
    BY <1>5 DEF ControlType, GameType
  <2>4. CASE Same /\ ~drv.c2 /\ drv.read /\ n64.k > 0 /\ drv.cur = n64.k /\ drv.data /\ drv.cur < DataSectors
    <3>1. /\ Found.state = "sectorRead" /\ Found.cur = drv.cur /\ Found.data = drv.data
          /\ Found.c2 = drv.c2 /\ Found.running = TRUE
      BY <1>1, <1>14, <2>4, FoundMoves
    <3>2. /\ drv'.cur = Found.cur + 1 /\ drv'.data = Found.data /\ drv'.err = Found.err
          /\ drv'.state = "idle" /\ drv'.irq = TRUE /\ drv'.running = Found.running
          /\ drv'.blk = Found.blk /\ drv'.full = Found.full /\ drv'.c2 = Found.c2
          /\ drv'.read = Found.read
      BY <1>1, <3>1, MachineSteps
    <3>3. Told'
      BY <1>1, <1>4, <2>1, <2>2, <2>4, <3>1, <3>2 DEF Told, Pend, Ack, Same, AtSector
    <3> QED BY <1>6, <3>1, <3>2, <3>3
  <2>5. CASE Same /\ ~drv.c2 /\ drv.read /\ n64.k > 0 /\ drv.cur = n64.k /\ drv.data /\ drv.cur = DataSectors
    <3>1. /\ Found.state = "idle" /\ Found.cur \in {DataSectors + 1, DataSectors + 2}
          /\ Found.data = FALSE /\ (Found.c2 <=> drv.c2) /\ Found.running = TRUE /\ Found.irq = TRUE
      BY <1>1, <1>14, <2>1, <2>5, FoundMoves
    <3>2. drv' = Found
      BY <1>1, <3>1, MachineSteps
    <3>3. drv'.cur \in DataSectors + 1..BlockSectors + 1 /\ ~drv'.c2 /\ drv'.cur # BlockSectors + 1
      BY <1>5, <2>5, <3>1, <3>2
    <3>4. Told'
      BY <1>1, <1>4, <2>1, <2>2, <2>5, <3>1, <3>2, <3>3 DEF Told, Pend, Ack, Same
    <3> QED BY <1>6, <3>1, <3>2, <3>4
  <2>6. CASE Ahead /\ drv.read /\ drv.cur = BlockSectors + 1 /\ ~drv.data
    <3>1. /\ Found.state = "nextBlock" /\ Found.cur = drv.cur /\ Found.data = drv.data
          /\ Found.running = TRUE /\ Found.irq = FALSE
      BY <1>1, <1>14, <2>6, FoundMoves
    <3>2. Found.full
      BY <1>1, <2>6 DEF Ahead
    <3>3. /\ drv'.full = FALSE /\ drv'.blk = 1 - Found.blk /\ drv'.c2 = FALSE /\ drv'.err = Found.err
          /\ drv'.running = Found.running /\ drv'.state = "start" /\ drv'.irq = Found.irq
      BY <1>1, <3>1, <3>2, MachineSteps
    <3>4. drv'.blk = n64.blk
      BY <1>1, <1>7, <2>6, <3>3 DEF Ahead
    <3>5. Loading'
      BY <1>1, <1>4, <2>1, <2>2, <2>6, <3>1, <3>3, <3>4 DEF Loading, Silent, Pend, Ack, Same, Ahead
    <3> QED BY <1>6, <3>1, <3>3, <3>5
  <2>7. ASSUME ~drv.read, drv.cur < DataSectors, drv.data
        PROVE  /\ drv'.cur = drv.cur + 1 /\ drv'.data /\ ~drv'.err /\ drv'.running
               /\ drv'.blk = drv.blk /\ drv'.full = drv.full /\ drv'.c2 = drv.c2
               /\ drv.cur + 1 < DataSectors => drv'.state = "idle" /\ drv'.irq = TRUE
               /\ drv.cur + 1 = DataSectors => drv'.state = "blockWrite" /\ drv'.irq = FALSE
    <3>1. /\ Found.state = "sectorWrite" /\ Found.cur = drv.cur /\ Found.data = drv.data
          /\ Found.c2 = drv.c2 /\ Found.running = TRUE /\ Found.irq = FALSE
      BY <1>1, <1>14, <2>7, FoundMoves
    <3>2. /\ drv'.cur = Found.cur + 1 /\ drv'.data = Found.data /\ drv'.err = Found.err
          /\ drv'.running = Found.running
          /\ drv'.blk = Found.blk /\ drv'.full = Found.full /\ drv'.c2 = Found.c2
          /\ IF Found.cur + 1 < DataSectors THEN drv'.state = "idle" /\ drv'.irq = TRUE
             ELSE drv'.state = "blockWrite" /\ drv'.irq = Found.irq
      BY <1>1, <3>1, MachineSteps
    <3>3. drv.cur + 1 = DataSectors => ~(Found.cur + 1 < DataSectors)
      BY <1>5, <3>1
    <3> QED BY <1>1, <2>1, <2>7, <3>1, <3>2, <3>3
  <2>8. CASE Same /\ ~drv.c2 /\ ~drv.read /\ n64.k > 0 /\ drv.cur = n64.k - 1 /\ drv.data
             /\ (n64.k = DataSectors => n64.left = 0)
    <3>1. drv.cur < DataSectors /\ drv.cur + 1 = n64.k
      BY <1>5, <2>3, <2>8
    <3>2. CASE n64.k < DataSectors
      <4>1. drv'.state = "idle" /\ drv'.irq = TRUE
        BY <2>7, <2>8, <3>1, <3>2
      <4>2. Told'
        BY <1>0, <1>2, <1>4, <2>1, <2>2, <2>7, <2>8, <3>1, <3>2, <4>1 DEF Told, Pend, Ack, Same, AtSector
      <4> QED BY <1>6, <2>7, <2>8, <3>1, <4>2
    <3>3. CASE n64.k = DataSectors
      <4>1. drv'.state = "blockWrite" /\ drv'.irq = FALSE
        BY <2>7, <2>8, <3>1, <3>3
      <4>2. Writing'
        BY <1>0, <1>2, <1>4, <2>1, <2>2, <2>7, <2>8, <3>1, <3>3, <4>1 DEF Writing, Silent, Pend, Ack, Same
      <4> QED BY <1>6, <2>7, <2>8, <3>1, <4>2
    <3> QED BY <1>5, <2>3, <3>2, <3>3
  <2>9. CASE Ahead /\ ~drv.c2 /\ ~drv.read /\ drv.cur = DataSectors - 1 /\ drv.data
    <3>1. drv.cur < DataSectors /\ drv.cur + 1 = DataSectors
      BY <1>5, <2>9
    <3>2. Writing'
      BY <1>0, <1>2, <1>4, <2>1, <2>2, <2>7, <2>9, <3>1 DEF Writing, Silent, Pend, Ack, Ahead
    <3> QED BY <1>6, <2>7, <2>9, <3>1, <3>2
  <2>10. drv.cur < DataSectors \/ drv.cur = DataSectors \/ drv.cur > DataSectors
    BY <1>5
  <2>11. drv.cur = n64.k => drv.cur <= DataSectors
    BY <2>3
  <2> QED BY <1>5, <1>14, <2>4, <2>5, <2>6, <2>8, <2>9, <2>10, <2>11 DEF Moved
<1>15. CASE Writing
  <2>1. /\ n64.phase = "wait" /\ ~reg.irq /\ ~reg.pend /\ ~snap.pend /\ ~reg.ack /\ ~snap.ack
        /\ ~drv.err /\ ~drv.c2 /\ ~drv.read /\ drv.cur = DataSectors
        /\ drv.state \in {"blockWrite", "writeWait", "nextBlock"}
        /\ (Same /\ n64.k = DataSectors /\ n64.left = 0) \/ Ahead
    BY <1>15 DEF Writing, Silent, Pend, Ack
  <2>2. SameMove(Found)
    BY <1>1, <2>1, FoundMoves
  <2>3. ASSUME drv'.irq = FALSE, drv'.blk = drv.blk, drv'.full = drv.full, ~drv'.c2, ~drv'.err,
               drv'.cur = drv.cur, drv'.state \in {"blockWrite", "writeWait", "nextBlock"}
        PROVE  Writing'
    BY <1>0, <1>2, <1>4, <2>1, <2>3 DEF Writing, Silent, Pend, Ack, Same, Ahead
  <2>4. CASE drv.state = "blockWrite"
    <3>1. /\ drv'.state \in {"blockWrite", "writeWait"} /\ drv'.cur = Found.cur
          /\ drv'.err = Found.err /\ drv'.irq = Found.irq /\ drv'.running = Found.running
          /\ drv'.blk = Found.blk /\ drv'.full = Found.full /\ drv'.c2 = Found.c2
      BY <1>1, <2>2, <2>4, MachineSteps DEF SameMove
    <3> QED BY <1>1, <1>6, <2>1, <2>2, <2>3, <3>1 DEF SameMove
  <2>5. CASE drv.state = "writeWait" /\ ~drv.ready
    <3>1. drv' = Found
      BY <1>1, <2>2, <2>5, MachineSteps DEF SameMove
    <3> QED BY <1>1, <1>6, <2>1, <2>2, <2>3, <2>5, <3>1 DEF SameMove
  <2>6. CASE drv.state = "writeWait" /\ drv.ready
    <3>1. /\ drv'.state = "nextBlock" /\ drv'.cur = Found.cur
          /\ drv'.err = Found.err /\ drv'.irq = Found.irq /\ drv'.running = Found.running
          /\ drv'.blk = Found.blk /\ drv'.full = Found.full /\ drv'.c2 = Found.c2
      BY <1>1, <2>2, <2>6, MachineSteps DEF SameMove
    <3> QED BY <1>1, <1>6, <2>1, <2>2, <2>3, <3>1 DEF SameMove
  <2>7. CASE drv.state = "nextBlock" /\ Ahead
    <3>1. Found.state = "nextBlock" /\ Found.full
      BY <1>1, <2>2, <2>7 DEF SameMove, Ahead
    <3>2. /\ drv'.full = FALSE /\ drv'.blk = 1 - Found.blk /\ drv'.c2 = FALSE /\ drv'.err = Found.err
          /\ drv'.running = Found.running /\ drv'.state = "start" /\ drv'.irq = Found.irq
      BY <1>1, <3>1, MachineSteps
    <3>3. drv'.blk = n64.blk
      BY <1>1, <1>7, <2>7, <3>2 DEF Ahead
    <3>4. Loading'
      BY <1>1, <1>4, <2>1, <2>2, <2>7, <3>2, <3>3 DEF Loading, Silent, Pend, Ack, Same, Ahead, SameMove
    <3> QED BY <1>6, <2>2, <3>2, <3>4 DEF SameMove
  <2>8. CASE drv.state = "nextBlock" /\ Same /\ n64.k = DataSectors /\ n64.left = 0
    <3>1. Found.state = "nextBlock" /\ ~Found.full /\ ~Found.read
      BY <1>1, <2>1, <2>2, <2>8 DEF SameMove, Same
    <3>2. /\ drv'.full = Found.full /\ drv'.blk = Found.blk /\ drv'.c2 = FALSE /\ drv'.err = Found.err
          /\ drv'.running = (Found.running /\ ~Found.read) /\ drv'.state = "idle" /\ drv'.irq = TRUE
          /\ drv'.data = FALSE /\ drv'.cur = Found.cur /\ drv'.read = Found.read
      BY <1>1, <3>1, MachineSteps
    <3>3. drv'.cur = DataSectors /\ ~drv'.full /\ ~drv'.err /\ ~drv'.read /\ drv'.blk = n64.blk /\ drv'.running
      BY <1>1, <2>1, <2>2, <2>8, <3>1, <3>2 DEF SameMove, Same
    <3>4. Told'
      BY <1>4, <2>1, <2>8, <3>2, <3>3 DEF Told, Pend, Ack, Same
    <3> QED BY <1>6, <3>3, <3>4
  <2> QED BY <2>1, <2>4, <2>5, <2>6, <2>7, <2>8
<1> QED BY <1>8, <1>9, <1>10, <1>12, <1>13, <1>14, <1>15 DEF Live

\* A turn keeps the handshake of a transfer, or begins it.
LEMMA WorkInTransfer ==
  ASSUME ControlType, Shaped, Noted, AtRest, InTransfer, Work
  PROVE  InTransfer'
<1>0. drv' \in Drives /\ drv'.irq \in BOOLEAN
  BY WorkDrive DEF Drives
<1>1. n64' = n64 /\ snap' = Unread
  BY <1>0, WorkReg
<1> SUFFICES ASSUME n64.phase \in {"wait", "data", "c2", "err"}
             PROVE  IF reg'.start THEN Fresh' ELSE Live'
  BY <1>1 DEF InTransfer
<1>2. ~snap.stop /\ ~snap.reset /\ ~snap.cmd
  BY DEF AtRest, Going, Phase, Noted
<1>3. CASE ~reg.start
  BY <1>0, <1>3, WorkReg, LiveTurn DEF InTransfer
<1>4. CASE reg.start /\ snap.start
  <2>1. Fresh
    BY <1>4 DEF InTransfer
  <2>2. drv' = Started(AfterCommand) /\ AfterCommand \in Drives /\ AfterCommand.irq = FALSE
    BY <1>2, <1>4, WorkDrive, CommandTyped, CommandFields
  <2>3. /\ drv'.running /\ drv'.irq = FALSE /\ drv'.state = "start" /\ drv'.read = snap.read
        /\ drv'.full = snap.full /\ drv'.blk = reg.blk /\ ~drv'.err /\ ~drv'.c2
    BY <2>2, StartFields
  <2>4. ~reg'.start /\ ~reg'.pend /\ ~reg'.ack /\ ~reg'.irq
    BY <1>0, <1>2, <1>4, <2>1, <2>3, WorkReg DEF Starts, Fresh
  <2>5. Loading'
    BY <1>1, <1>4, <2>1, <2>3, <2>4 DEF Loading, Fresh, Silent, Pend, Ack, Same, Unread
  <2> QED BY <1>1, <1>4, <2>1, <2>3, <2>4, <2>5 DEF Live, Fresh, Unread
<1>5. CASE reg.start /\ ~snap.start
  <2>1. Fresh
    BY <1>5 DEF InTransfer
  <2>2. Calm' /\ drv'.irq = FALSE
    BY <1>2, <1>5, <2>1, CalmTurn DEF Fresh
  <2>3. /\ reg'.start /\ ~reg'.irq /\ reg'.read = reg.read /\ reg'.full = reg.full /\ reg'.blk = reg.blk
    BY <1>0, <1>5, <2>1, <2>2, WorkReg DEF Starts, Fresh
  <2>4. Fresh'
    BY <1>1, <2>1, <2>2, <2>3 DEF Fresh, Unread
  <2> QED BY <2>3, <2>4
<1> QED BY <1>3, <1>4, <1>5

\* To read the status register changes nothing of the handshake.
LEMMA ScanControl ==
  ASSUME ControlInv, Scan
  PROVE  ControlInv'
<1>0. ControlType /\ Noted /\ AtRest /\ InTransfer /\ Shaped
  BY DEF ControlInv
<1>1. /\ UNCHANGED <<reg, drv, n64, used, spin>> /\ turn = "scan" /\ turn' = "work" /\ snap = Unread
      /\ snap'.reset = reg.reset /\ snap'.cmd = reg.cmdPending /\ snap'.stop = reg.stop
      /\ snap'.start = reg.start /\ snap'.pend = reg.pend /\ snap'.ack = reg.ack
      /\ snap'.read = reg.read /\ snap'.full = reg.full
  BY <1>0 DEF Scan, Noted
<1>2. ~snap.pend /\ ~snap.ack /\ ~snap.start /\ ~snap.stop /\ ~snap.cmd
  BY <1>1 DEF Unread
<1>3. ControlType'
  BY <1>0, <1>1 DEF Scan, ControlType, RegType, SnapType, GameType
<1>4. Shaped' /\ (Calm' <=> Calm)
  BY <1>0, <1>1 DEF Shaped, Calm
<1>5. n64.phase \in {"off", "boot", "idle", "cmd", "ready", "wait", "data", "c2", "err", "written"}
  BY <1>0 DEF ControlType, GameType
<1>6. reg.start => Calm /\ ~reg.stop /\ ~reg.reset /\ ~reg.cmdPending
  BY <1>0, <1>5 DEF Noted, AtRest, Off, Clearing, Commanding, Idle, Ready, Going, Phase, InTransfer, Fresh
<1>7. reg.cmdPending => n64.phase = "cmd" /\ (reg.stop \/ reg.reset \/ Calm)
  <2>1. reg.cmdPending => n64.phase = "cmd"
    BY <1>0, <1>5, <1>6 DEF AtRest, Off, Clearing, Commanding, Idle, Ready, Going, Phase
  <2>2. reg.cmdPending /\ reg.cmd.op = "clear" => reg.reset \/ Calm
    BY <1>0, <2>1 DEF AtRest, Clearing, Phase, Calm
  <2>3. reg.cmdPending /\ reg.cmd.op # "clear" => reg.stop \/ Calm
    BY <1>0, <2>1 DEF AtRest, Commanding, Phase
  <2> QED BY <2>1, <2>2, <2>3
<1>8. Noted'
  BY <1>0, <1>1, <1>2, <1>4, <1>6, <1>7 DEF Noted, Pend, Unread
<1>9. AtRest'
  <2>1. Off'
    BY <1>0, <1>1, <1>2 DEF AtRest, Off, Phase, Dead
  <2>2. Clearing'
    BY <1>0, <1>1, <1>2 DEF AtRest, Clearing, Phase
  <2>3. Commanding'
    BY <1>0, <1>1, <1>2, <1>4 DEF AtRest, Commanding, Phase
  <2>4. Idle'
    BY <1>0, <1>1, <1>2, <1>4 DEF AtRest, Idle, Phase
  <2>5. Ready' /\ Going'
    BY <1>0, <1>1, <1>2, <1>4 DEF AtRest, Ready, Going, Phase
  <2> QED BY <2>1, <2>2, <2>3, <2>4, <2>5 DEF AtRest
<1>10. InTransfer'
  <2> SUFFICES ASSUME n64.phase \in {"wait", "data", "c2", "err"}
               PROVE  IF reg.start THEN Fresh' ELSE Live'
    BY <1>1 DEF InTransfer
  <2>1. CASE reg.start
    BY <1>0, <1>1, <1>4, <2>1 DEF InTransfer, Fresh
  <2>2. CASE ~reg.start
    <3>0. Live
      BY <1>0, <2>2 DEF InTransfer
    <3>1. (Pend' <=> Pend) /\ (Ack' <=> Ack) /\ (Silent' <=> Silent)
      BY <1>1, <1>2 DEF Silent, Pend, Ack
    <3>2. Loading => Loading'
      BY <1>1, <3>1 DEF Loading, Same
    <3>3. Told => Told'
      BY <1>1, <3>1 DEF Told, Same, AtSector
    <3>4. Gap => Gap'
      BY <1>1, <3>1 DEF Gap, Same
    <3>5. AtGame => AtGame'
      BY <1>1, <3>1 DEF AtGame, Same, AtSector
    <3>6. Moved => Moved'
      BY <1>1 DEF Moved, Same, Ahead
    <3>7. Writing => Writing'
      BY <1>1, <3>1 DEF Writing, Same, Ahead
    <3> QED BY <1>1, <2>2, <3>0, <3>2, <3>3, <3>4, <3>5, <3>6, <3>7 DEF Live
  <2> QED BY <2>1, <2>2
<1> QED BY <1>3, <1>4, <1>8, <1>9, <1>10 DEF ControlInv

\* What leaves the handshake alone: only an answer or the disk changes.
LEMMA OtherControl ==
  ASSUME ControlInv, ControlType', UNCHANGED <<reg, snap, turn, n64>>, Others(drv, drv'),
         drv'.state = drv.state
  PROVE  ControlInv'
<1>0. ControlType /\ Noted /\ AtRest /\ InTransfer /\ Shaped
  BY DEF ControlInv
<1>1. /\ drv'.read = drv.read /\ drv'.full = drv.full /\ drv'.blk = drv.blk /\ drv'.track = drv.track
      /\ drv'.cur = drv.cur /\ drv'.delayed = drv.delayed /\ drv'.running = drv.running
      /\ drv'.err = drv.err /\ drv'.data = drv.data /\ drv'.c2 = drv.c2 /\ drv'.irq = drv.irq
      /\ drv'.state = drv.state
  BY DEF Others
<1>2. reg' = reg /\ snap' = snap /\ turn' = turn /\ n64' = n64
  OBVIOUS
<1>3. (Calm' <=> Calm) /\ (Shaped' <=> Shaped) /\ (Same' <=> Same) /\ (Ahead' <=> Ahead)
      /\ (AtSector' <=> AtSector) /\ (Dead' <=> Dead)
  BY <1>1, <1>2 DEF Calm, Shaped, Same, Ahead, AtSector, Dead
<1>4. (Pend' <=> Pend) /\ (Ack' <=> Ack) /\ (Silent' <=> Silent)
  BY <1>2 DEF Pend, Ack, Silent
<1>5. Noted'
  BY <1>0, <1>1, <1>2, <1>3, <1>4 DEF Noted, Unread
<1>6. AtRest'
  <2>1. Off' /\ Clearing'
    BY <1>0, <1>1, <1>2, <1>3 DEF AtRest, Off, Clearing, Phase
  <2>2. Commanding'
    BY <1>0, <1>1, <1>2, <1>3 DEF AtRest, Commanding, Phase
  <2>3. Idle' /\ Ready' /\ Going'
    BY <1>0, <1>1, <1>2, <1>3 DEF AtRest, Idle, Ready, Going, Phase
  <2> QED BY <2>1, <2>2, <2>3 DEF AtRest
<1>7. InTransfer'
  <2>1. Fresh => Fresh'
    BY <1>2, <1>3 DEF Fresh
  <2>2. Loading => Loading'
    BY <1>1, <1>2, <1>3, <1>4 DEF Loading
  <2>3. Told => Told'
    BY <1>1, <1>2, <1>3, <1>4 DEF Told
  <2>4. Gap => Gap'
    BY <1>1, <1>2, <1>3, <1>4 DEF Gap
  <2>5. AtGame => AtGame'
    BY <1>1, <1>2, <1>3, <1>4 DEF AtGame
  <2>6. Moved => Moved'
    BY <1>1, <1>2, <1>3, <1>4 DEF Moved
  <2>7. Writing => Writing'
    BY <1>1, <1>2, <1>3, <1>4 DEF Writing
  <2>8. Live => Live'
    BY <1>1, <1>2, <2>2, <2>3, <2>4, <2>5, <2>6, <2>7 DEF Live
  <2> QED BY <1>0, <1>2, <2>1, <2>8 DEF InTransfer
<1> QED BY <1>0, <1>3, <1>5, <1>6, <1>7 DEF ControlInv

\* Neither do the timer, the USB link, the PC tool and the button.
LEMMA WayControl ==
  ASSUME ControlInv, SpinsUp \/ OtherPacket \/ Transmit \/ HostServes \/ HostAnswers \/ LinkReset \/ Button
  PROVE  ControlInv' /\ Others(drv, drv') /\ drv'.state = drv.state
         /\ UNCHANGED <<reg, snap, turn, n64>>
<1>0. ControlType /\ drv \in Drives
  BY DEF ControlInv, ControlType
<1>1. UNCHANGED <<reg, snap, turn, n64>>
  BY DEF SpinsUp, OtherPacket, Transmit, HostServes, HostAnswers, LinkReset, Button, others
<1>2. drv' \in Drives /\ Others(drv, drv') /\ drv'.state = drv.state
  <2>1. CASE HostAnswers
    <3>1. PICK b \in BOOLEAN : drv' = [drv EXCEPT !.ready = TRUE, !.valid = b]
      BY <2>1 DEF HostAnswers
    <3> QED BY <1>0, <3>1 DEF Drives, Others
  <2>2. CASE Button
    BY <1>0, <2>2 DEF Button, Drives, Others
  <2>3. CASE SpinsUp \/ OtherPacket \/ Transmit \/ HostServes \/ LinkReset
    <3>1. drv' = drv
      BY <2>3 DEF SpinsUp, OtherPacket, Transmit, HostServes, LinkReset
    <3> QED BY <1>0, <3>1 DEF Others
  <2> QED BY <2>1, <2>2, <2>3
<1>3. GameType'
  <2>1. used' = used \/ used' = [used EXCEPT !.faults = @ + 1]
    BY DEF SpinsUp, OtherPacket, Transmit, HostServes, HostAnswers, LinkReset, Button, Fault
  <2> QED BY <1>0, <1>1, <2>1 DEF ControlType, GameType
<1>4. spin' \in BOOLEAN
  BY <1>0 DEF SpinsUp, OtherPacket, Transmit, HostServes, HostAnswers, LinkReset, Button, others,
              ControlType, SnapType
<1>5. ControlType'
  BY <1>0, <1>1, <1>2, <1>3, <1>4 DEF ControlType, RegType, SnapType
<1> QED BY <1>1, <1>2, <1>5, OtherControl

\* Every step of the game keeps the handshake, and touches only registers and
\* the sector buffer.
LEMMA GameControl ==
  ASSUME ControlInv, GameStep
  PROVE  ControlInv' /\ UNCHANGED <<drv, snap, turn, spin, buf, ways, sdMode, disk, medium>>
<1>0. ControlType /\ Noted /\ AtRest /\ InTransfer /\ Shaped /\ ControlType'
  BY GameTyped DEF ControlInv
<1>1. UNCHANGED <<drv, snap, turn, spin, buf, ways, sdMode, disk, medium>>
  BY DEF GameStep, ConsoleReset, Boot, CommandDone, Look, MoveSector, MoveC2, StopTransfer, Command,
         StartTransfer, machine
<1>2. drv' = drv /\ snap' = snap /\ turn' = turn
  BY <1>1
<1>3. Shaped' /\ (Calm' <=> Calm) /\ (Dead' <=> Dead)
  BY <1>0, <1>2 DEF Shaped, Calm, Dead
<1>4. n64.phase \in {"off", "boot", "idle", "cmd", "ready", "wait", "data", "c2", "err", "written"}
  BY <1>0 DEF ControlType, GameType
<1>5. n64 \in [phase: {"off", "boot", "idle", "cmd", "ready", "wait", "data", "c2", "err", "written"},
              read: BOOLEAN, track: Tracks, blk: {0, 1}, k: 0..DataSectors, left: {0, 1},
              ver: 0..MaxWrites]
  BY <1>0 DEF ControlType, GameType
<1>6. DataSectors \in Nat /\ DataSectors > 0 /\ BlockSectors = DataSectors + 4 /\ drv.cur \in Nat /\ n64.k \in Nat
  BY <1>0, <1>5, Constants DEF ControlType, Drives
<1>7. ASSUME Noted', AtRest', InTransfer' PROVE ControlInv'
  BY <1>0, <1>3, <1>7 DEF ControlInv
\* What the game knows when it is in a transfer.
<1>8. n64.phase \in {"data", "c2", "err"} => ~reg.start /\ Live /\ AtGame
  BY <1>0 DEF InTransfer, Fresh, Live, Loading, Told, Gap, Moved, Writing
<1>9. CASE ConsoleReset
  <2>1. n64'.phase = "off"
    BY <1>5, <1>9 DEF ConsoleReset
  <2>2. /\ reg'.reset /\ ~reg'.cmdPending /\ ~reg'.start /\ ~reg'.stop /\ ~reg'.pend /\ reg'.cmd = reg.cmd
    BY <1>0, <1>9 DEF ConsoleReset, Reset, ControlType, RegType
  <2>3. snap.cmd /\ reg.cmd.op = "clear" => snap.reset \/ (~drv.running /\ ~drv.delayed)
    BY <1>0 DEF Noted, AtRest, Clearing, Phase
  <2>4. Noted'
    <3>1. drv.running /\ snap.pend => drv.state = "idle"
      BY <1>0 DEF Noted, Pend
    <3> QED BY <1>0, <1>2, <1>3, <2>1, <2>2, <2>3, <3>1 DEF Noted, Pend, Unread
  <2>5. AtRest'
    BY <2>1, <2>2 DEF AtRest, Off, Clearing, Commanding, Idle, Ready, Going, Phase
  <2>6. InTransfer'
    BY <2>1 DEF InTransfer
  <2> QED BY <1>1, <1>7, <2>4, <2>5, <2>6
<1>10. CASE Boot
  <2>1. n64'.phase = "boot" /\ reg' = reg /\ n64.phase = "off" /\ snap = Unread
    BY <1>0, <1>5, <1>10 DEF Boot, Noted
  <2>2. ~snap.cmd /\ ~snap.start /\ ~snap.stop /\ ~snap.pend
    BY <2>1 DEF Unread
  <2>3. Noted'
    BY <1>0, <1>2, <1>3, <2>1, <2>2 DEF Noted, Pend
  <2>4. AtRest'
    BY <1>0, <1>2, <1>3, <2>1, <2>2 DEF AtRest, Off, Clearing, Commanding, Idle, Ready, Going, Phase
  <2>5. InTransfer'
    BY <2>1 DEF InTransfer
  <2> QED BY <1>1, <1>7, <2>3, <2>4, <2>5
<1>11. CASE CommandDone
  <2>1. /\ n64.phase = "cmd" /\ reg.cmdIrq
        /\ n64'.phase = (IF reg.cmd.op = "seek" THEN "ready" ELSE "idle") /\ n64'.track = n64.track
    BY <1>5, <1>11 DEF CommandDone
  <2>2. /\ reg'.reset = reg.reset /\ reg'.cmdPending = reg.cmdPending /\ reg'.start = reg.start
        /\ reg'.stop = reg.stop /\ reg'.pend = reg.pend /\ reg'.cmd = reg.cmd
    BY <1>0, <1>11 DEF CommandDone, ControlType, RegType
  <2>3. ~reg.cmdPending /\ ~snap.cmd
    BY <1>0, <2>1 DEF AtRest, Clearing, Commanding, Phase, Noted
  <2>4. Noted'
    BY <1>0, <1>2, <1>3, <2>1, <2>2, <2>3 DEF Noted, Pend
  <2>5. CASE reg.cmd.op = "clear"
    <3>1. /\ ~reg.start /\ ~reg.reset /\ ~snap.reset /\ ~drv.delayed /\ ~drv.running
          /\ ~snap.start /\ ~snap.stop
      BY <1>0, <2>1, <2>5 DEF AtRest, Clearing, Phase
    <3>2. AtRest'
      BY <1>2, <1>3, <2>1, <2>2, <2>3, <2>5, <3>1 DEF AtRest, Off, Clearing, Commanding, Idle, Ready, Going, Phase, Calm
    <3> QED BY <1>1, <1>7, <2>1, <2>4, <2>5, <3>2 DEF InTransfer
  <2>6. CASE reg.cmd.op # "clear"
    <3>1. /\ ~reg.start /\ ~reg.reset /\ ~snap.reset /\ ~drv.delayed /\ ~reg.stop
          /\ Calm /\ ~snap.start /\ ~snap.stop
          /\ reg.cmd.op = "seek" => drv.track = n64.track
      BY <1>0, <2>1, <2>3, <2>6 DEF AtRest, Commanding, Phase
    <3>2. AtRest'
      BY <1>2, <1>3, <2>1, <2>2, <2>3, <2>6, <3>1 DEF AtRest, Off, Clearing, Commanding, Idle, Ready, Going, Phase
    <3> QED BY <1>1, <1>7, <2>1, <2>4, <3>2 DEF InTransfer
  <2> QED BY <2>5, <2>6
<1>12. CASE Look
  <2>1. /\ reg.irq /\ ~reg'.irq /\ reg'.ack /\ reg'.reset = reg.reset /\ reg'.cmdPending = reg.cmdPending
        /\ reg'.start = reg.start /\ reg'.stop = reg.stop /\ reg'.pend = reg.pend /\ reg'.cmd = reg.cmd
        /\ reg'.cmdIrq = reg.cmdIrq /\ reg'.read = reg.read /\ reg'.full = reg.full /\ reg'.blk = reg.blk
    BY <1>0, <1>12 DEF Look, ControlType, RegType
  <2>2. /\ n64'.track = n64.track /\ n64'.read = n64.read /\ n64'.blk = n64.blk /\ n64'.k = n64.k
        /\ n64'.left = n64.left
    BY <1>5, <1>12 DEF Look
  <2>3. CASE n64.phase # "wait"
    <3>1. n64'.phase = n64.phase
      BY <1>5, <1>12, <2>3 DEF Look
    <3>2. Noted'
      BY <1>0, <1>2, <1>3, <2>1, <3>1 DEF Noted, Pend
    <3>3. AtRest'
      <4>1. Off' /\ Clearing'
        BY <1>0, <1>2, <1>3, <2>1, <3>1 DEF AtRest, Off, Clearing, Phase
      <4>2. Commanding'
        BY <1>0, <1>2, <1>3, <2>1, <2>2, <3>1 DEF AtRest, Commanding, Phase
      <4>3. Idle' /\ Ready' /\ Going'
        BY <1>0, <1>2, <1>3, <2>1, <2>2, <3>1 DEF AtRest, Idle, Ready, Going, Phase
      <4> QED BY <4>1, <4>2, <4>3 DEF AtRest
    <3>4. n64.phase \notin {"data", "c2", "err"}
      BY <1>8, <2>1 DEF AtGame
    <3>5. InTransfer'
      BY <2>3, <3>1, <3>4 DEF InTransfer
    <3> QED BY <1>1, <1>7, <3>2, <3>3, <3>5
  <2>4. CASE n64.phase = "wait"
    <3>0. ~reg.start /\ Live /\ Told
      BY <1>0, <2>1, <2>4 DEF InTransfer, Fresh, Live, Loading, Gap, AtGame, Moved, Writing, Silent
    <3>1. n64'.phase = CASE drv.err                   -> "err"
                         [] ~drv.err /\ drv.data /\ n64.k < DataSectors -> "data"
                         [] ~drv.err /\ ~drv.data /\ drv.c2 -> "c2"
                         [] ~drv.err /\ ~drv.data /\ ~n64.read /\ n64.k = DataSectors -> "written"
                         [] OTHER -> "wait"
      <4>1. n64'.phase =
               CASE n64.phase # "wait"                              -> n64.phase
                 [] n64.phase = "wait" /\ drv.err                   -> "err"
                 [] n64.phase = "wait" /\ ~drv.err /\ drv.data /\ n64.k < DataSectors -> "data"
                 [] n64.phase = "wait" /\ ~drv.err /\ ~drv.data /\ drv.c2 -> "c2"
                 [] n64.phase = "wait" /\ ~drv.err /\ ~drv.data /\ ~n64.read /\ n64.k = DataSectors -> "written"
                 [] OTHER -> n64.phase
        BY <1>5, <1>12 DEF Look
      <4> HIDE DEF Look
      <4>2. CASE drv.err
        BY <2>4, <4>1, <4>2
      <4>3. CASE ~drv.err /\ drv.data /\ n64.k < DataSectors
        BY <2>4, <4>1, <4>3
      <4>4. CASE ~drv.err /\ ~drv.data /\ drv.c2
        BY <2>4, <4>1, <4>4
      <4>5. CASE ~drv.err /\ ~drv.data /\ ~drv.c2 /\ ~n64.read /\ n64.k = DataSectors
        BY <2>4, <4>1, <4>5
      <4>6. CASE ~drv.err /\ ~(drv.data /\ n64.k < DataSectors) /\ ~(~drv.data /\ (drv.c2 \/ (~n64.read /\ n64.k = DataSectors)))
        BY <2>4, <4>1, <4>6
      <4> QED BY <4>2, <4>3, <4>4, <4>5, <4>6
    <3>2. /\ ~reg.stop /\ ~reg.reset /\ ~reg.cmdPending /\ ~snap.stop /\ ~snap.reset
          /\ ~drv.delayed /\ drv.track = n64.track /\ ~snap.cmd /\ ~snap.start
      BY <1>0, <2>4, <3>0 DEF AtRest, Going, Phase, Noted, Live
    <3>3. n64'.phase \in {"err", "data", "c2", "written", "wait"}
      BY <3>1
    <3>4. /\ ~Pend' /\ drv.running /\ drv.read = n64.read /\ drv.state = "idle"
      BY <1>2, <2>1, <3>0 DEF Told, Pend, Live
    <3>5. Noted'
      BY <1>0, <1>2, <1>3, <2>1, <2>4, <3>2, <3>3, <3>4 DEF Noted, Pend
    <3>6. ASSUME n64'.phase = "written" => Calm PROVE AtRest'
      BY <1>2, <1>3, <2>1, <2>2, <3>0, <3>2, <3>3, <3>6 DEF AtRest, Off, Clearing, Commanding, Idle, Ready, Going, Phase
    <3>7. ASSUME AtGame' \/ Gap' PROVE Live'
      BY <1>2, <2>2, <3>2, <3>4, <3>7 DEF Live
    <3>8. CASE drv.err
      <4>1. n64'.phase = "err" /\ AtGame'
        BY <1>2, <2>1, <3>0, <3>1, <3>4, <3>8 DEF AtGame, Told
      <4> QED BY <1>1, <1>7, <2>1, <3>0, <3>5, <3>6, <3>7, <4>1 DEF InTransfer
    <3>9. CASE ~drv.err /\ Same /\ ~drv.c2 /\ AtSector
      <4>1. n64'.phase = "data"
        BY <3>1, <3>9 DEF AtSector
      <4>2. AtGame'
        BY <1>2, <2>1, <2>2, <3>4, <3>9, <4>1 DEF AtGame, Same, AtSector
      <4> QED BY <1>1, <1>7, <2>1, <3>0, <3>5, <3>6, <3>7, <4>1, <4>2 DEF InTransfer
    <3>10. CASE ~drv.err /\ Same /\ ~drv.data /\ drv.read /\ n64.k = DataSectors
                /\ drv.cur = BlockSectors + 1 /\ drv.c2
      <4>1. n64'.phase = "c2"
        BY <3>1, <3>4, <3>10
      <4>2. AtGame'
        BY <1>2, <2>1, <2>2, <3>4, <3>10, <4>1 DEF AtGame, Same
      <4> QED BY <1>1, <1>7, <2>1, <3>0, <3>5, <3>6, <3>7, <4>1, <4>2 DEF InTransfer
    <3>11. CASE ~drv.err /\ Same /\ ~drv.data /\ drv.read /\ n64.k = DataSectors
                /\ drv.cur \in DataSectors + 1..BlockSectors /\ ~drv.c2
      <4>1. n64'.phase = "wait"
        BY <3>1, <3>4, <3>11
      <4>2. Gap'
        BY <1>2, <2>1, <2>2, <3>4, <3>11, <4>1 DEF Gap, Same, Ack
      <4> QED BY <1>1, <1>7, <2>1, <3>0, <3>5, <3>6, <3>7, <4>1, <4>2 DEF InTransfer
    <3>12. CASE ~drv.err /\ Same /\ ~drv.data /\ ~drv.read /\ ~drv.c2 /\ n64.k = DataSectors
                /\ drv.cur = DataSectors /\ ~drv.full
      <4>1. n64'.phase = "written"
        BY <3>1, <3>4, <3>12
      <4>2. Calm
        BY <3>4, <3>12 DEF Calm
      <4> QED BY <1>1, <1>7, <3>5, <3>6, <4>1, <4>2 DEF InTransfer
    <3>13. drv.cur \in DataSectors + 1..BlockSectors + 1 /\ (drv.c2 <=> drv.cur = BlockSectors + 1) =>
             \/ drv.cur = BlockSectors + 1 /\ drv.c2
             \/ drv.cur \in DataSectors + 1..BlockSectors /\ ~drv.c2
      BY <1>6
    <3> QED BY <3>0, <3>8, <3>9, <3>10, <3>11, <3>12, <3>13 DEF Told
  <2> QED BY <2>3, <2>4
<1>13. ASSUME NEW op \in {"clear", "other", "seek"}, NEW t \in Tracks, Command(op, t)
       PROVE  ControlInv'
  <2>1. /\ reg'.cmdPending /\ ~reg'.cmdIrq /\ reg'.cmd.op = op /\ reg'.cmd.track = t
        /\ reg'.reset = reg.reset /\ reg'.start = reg.start /\ reg'.stop = reg.stop /\ reg'.pend = reg.pend
    BY <1>0, <1>13 DEF Command, ControlType, RegType
  <2>2. n64'.phase = "cmd" /\ (op = "seek" => n64'.track = t)
    BY <1>5, <1>13 DEF Command
  <2>3. InTransfer'
    BY <2>2 DEF InTransfer
  <2>4. CASE op = "clear"
    <3>1. n64.phase = "boot"
      BY <1>13, <2>4 DEF Command
    <3>2. /\ ~reg.start /\ ~reg.stop /\ ~reg.pend /\ (reg.reset \/ Dead)
          /\ ~snap.cmd /\ ~snap.start /\ ~snap.stop
      BY <1>0, <3>1 DEF AtRest, Off, Phase
    <3>3. Noted'
      BY <1>0, <1>2, <1>3, <2>1, <2>2, <3>1, <3>2 DEF Noted, Pend
    <3>4. AtRest'
      BY <1>2, <2>1, <2>2, <2>4, <3>2 DEF AtRest, Off, Clearing, Commanding, Idle, Ready, Going, Phase, Dead
    <3> QED BY <1>7, <2>3, <3>3, <3>4
  <2>5. CASE op # "clear"
    <3>1. n64.phase \in {"idle", "ready", "written"}
      BY <1>13, <2>5 DEF Command
    <3>2. /\ ~reg.start /\ ~reg.reset /\ ~snap.reset /\ ~drv.delayed /\ ~snap.cmd
          /\ reg.stop \/ (Calm /\ ~snap.start /\ ~snap.stop)
      BY <1>0, <3>1 DEF AtRest, Idle, Ready, Going, Phase, Noted
    <3>3. Noted'
      BY <1>0, <1>2, <1>3, <2>1, <2>2, <3>1, <3>2 DEF Noted, Pend
    <3>4. AtRest'
      BY <1>2, <1>3, <2>1, <2>2, <2>5, <3>2 DEF AtRest, Off, Clearing, Commanding, Idle, Ready, Going, Phase
    <3> QED BY <1>7, <2>3, <3>3, <3>4
  <2> QED BY <2>4, <2>5
<1>14. ASSUME NEW job \in Jobs, StartTransfer(job) PROVE ControlInv'
  <2>0. job.read \in BOOLEAN /\ job.full \in BOOLEAN /\ job.blk \in {0, 1}
    BY JobsAssumption
  <2>1. /\ reg'.start /\ ~reg'.stop /\ reg'.read = job.read /\ reg'.full = job.full /\ reg'.blk = job.blk
        /\ reg'.reset = reg.reset /\ reg'.cmdPending = reg.cmdPending /\ reg'.pend = reg.pend
        /\ reg'.irq = reg.irq /\ ~reg.irq
    BY <1>0, <1>14 DEF StartTransfer, ControlType, RegType
  <2>2. /\ n64'.phase = "wait" /\ n64'.read = job.read /\ n64'.blk = job.blk /\ n64'.k = 0
        /\ n64'.left = (IF job.full THEN 1 ELSE 0) /\ n64'.track = n64.track
        /\ n64.phase \in {"ready", "written"}
    BY <1>5, <1>14 DEF StartTransfer
  <2>3. /\ ~reg.start /\ ~snap.start /\ Calm
        /\ ~reg.stop /\ ~reg.reset /\ ~reg.cmdPending /\ ~snap.stop /\ ~snap.reset
        /\ ~drv.delayed /\ drv.track = n64.track /\ ~snap.cmd
    BY <1>0, <2>2 DEF AtRest, Ready, Going, Phase, Noted
  <2>4. Noted'
    BY <1>0, <1>2, <1>3, <2>1, <2>2, <2>3 DEF Noted, Pend
  <2>5. AtRest'
    BY <1>2, <2>1, <2>2, <2>3 DEF AtRest, Off, Clearing, Commanding, Idle, Ready, Going, Phase
  <2>6. Fresh'
    BY <1>2, <1>3, <2>0, <2>1, <2>2, <2>3 DEF Fresh
  <2> QED BY <1>7, <2>1, <2>4, <2>5, <2>6 DEF InTransfer
<1>15. CASE StopTransfer
  <2>1. /\ ~reg'.start /\ reg'.stop /\ ~reg'.pend /\ reg'.reset = reg.reset
        /\ reg'.cmdPending = reg.cmdPending
    BY <1>0, <1>15 DEF StopTransfer, ControlType, RegType
  <2>2. n64'.phase = "idle" /\ n64.phase \in {"wait", "data", "c2", "err"}
    BY <1>5, <1>15 DEF StopTransfer, Moving
  <2>3. /\ ~reg.reset /\ ~reg.cmdPending /\ ~snap.stop /\ ~snap.reset /\ ~drv.delayed /\ ~snap.cmd
    BY <1>0, <2>2 DEF AtRest, Going, Phase, Noted
  <2>4. Noted'
    <3>1. drv.running /\ snap.pend => drv.state = "idle"
      BY <1>0 DEF Noted, Pend
    <3> QED BY <1>0, <1>2, <1>3, <2>1, <2>2, <2>3, <3>1 DEF Noted, Pend
  <2>5. AtRest'
    BY <1>2, <2>1, <2>2, <2>3 DEF AtRest, Off, Clearing, Commanding, Idle, Ready, Going, Phase
  <2> QED BY <1>1, <1>7, <2>2, <2>4, <2>5 DEF InTransfer
<1>16. ASSUME n64.phase \in {"data", "c2"}, n64'.phase \in {"wait", "ready"}, n64'.track = n64.track,
              reg'.pend, reg'.irq = reg.irq, reg'.ack = reg.ack,
              reg'.reset = reg.reset, reg'.cmdPending = reg.cmdPending, reg'.start = reg.start,
              reg'.stop = reg.stop, n64'.phase = "ready" => Calm
       PROVE  Noted' /\ AtRest' /\ drv.state = "idle" /\ ~reg.irq /\ ~snap.pend /\ ~reg'.start /\ ~snap.start
  <2>1. ~reg.start /\ Live /\ AtGame
    BY <1>8, <1>16
  <2>2. /\ ~reg.stop /\ ~reg.reset /\ ~reg.cmdPending /\ ~snap.stop /\ ~snap.reset
        /\ ~drv.delayed /\ drv.track = n64.track /\ ~snap.cmd /\ ~snap.start /\ drv.state = "idle"
        /\ ~snap.pend /\ ~reg.irq
    BY <1>0, <1>16, <2>1 DEF AtRest, Going, Phase, Noted, Live, AtGame, Pend
  <2>3. Noted'
    BY <1>0, <1>2, <1>3, <1>16, <2>1, <2>2 DEF Noted, Pend
  <2>4. AtRest'
    BY <1>2, <1>3, <1>16, <2>1, <2>2 DEF AtRest, Off, Clearing, Commanding, Idle, Ready, Going, Phase
  <2> QED BY <1>16, <2>1, <2>2, <2>3, <2>4
<1>17. CASE MoveSector
  <2>1. /\ n64.phase = "data" /\ reg'.pend /\ reg'.irq = reg.irq /\ reg'.ack = reg.ack
        /\ reg'.reset = reg.reset /\ reg'.cmdPending = reg.cmdPending /\ reg'.start = reg.start
        /\ reg'.stop = reg.stop
    BY <1>0, <1>17 DEF MoveSector, ControlType, RegType
  <2>2. /\ Live /\ ~drv.err /\ Same /\ ~drv.c2 /\ AtSector /\ drv.running /\ drv.read = n64.read
    BY <1>8, <2>1 DEF AtGame, Live
  <2> DEFINE next == [n64 EXCEPT !.phase = "wait", !.k = @ + 1]
  <2>3. /\ next.phase = "wait" /\ next.k = n64.k + 1 /\ next.read = n64.read /\ next.blk = n64.blk
        /\ next.left = n64.left /\ next.track = n64.track
    BY <1>5
  <2>3a. n64' = (IF ~n64.read /\ next.k = DataSectors THEN Through(next, "wait") ELSE next)
    BY <1>17 DEF MoveSector
  <2>3b. next \in [phase: {"wait"}, read: BOOLEAN, track: Tracks, blk: {0, 1}, k: Nat, left: {0, 1},
                   ver: 0..MaxWrites]
    <3>1. n64.k + 1 \in Nat
      BY <1>6
    <3>2. next = [n64 EXCEPT !.phase = "wait", !.k = n64.k + 1]
      OBVIOUS
    <3> HIDE DEF next
    <3> QED BY <1>5, <3>1, <3>2
  <2> HIDE DEF next
  <2>4. CASE ~n64.read /\ next.k = DataSectors /\ next.left = 1
    <3>1. /\ n64'.phase = "wait" /\ n64'.blk = 1 - n64.blk /\ n64'.k = 0 /\ n64'.left = 0
          /\ n64'.read = n64.read /\ n64'.track = n64.track
      BY <2>3, <2>3a, <2>3b, <2>4 DEF Through
    <3>2. Noted' /\ AtRest' /\ drv.state = "idle" /\ ~reg.irq /\ ~snap.pend /\ ~reg'.start /\ ~snap.start
      BY <1>16, <2>1, <3>1
    <3>3. drv.cur = DataSectors - 1 /\ drv.full
      BY <1>6, <2>2, <2>3, <2>4 DEF AtSector, Same
    <3>4. drv.blk = 1 - n64'.blk
      BY <1>5, <2>2, <3>1 DEF Same
    <3>5. Moved'
      BY <1>2, <2>1, <2>2, <2>4, <3>1, <3>2, <3>3, <3>4 DEF Moved, Ahead, AtSector
    <3>6. Live'
      BY <1>2, <2>2, <3>1, <3>2, <3>5 DEF Live
    <3> QED BY <1>1, <1>7, <3>2, <3>6 DEF InTransfer
  <2>5. CASE n64.read \/ next.k # DataSectors \/ next.left # 1
    <3>1. /\ n64'.phase = "wait" /\ n64'.blk = n64.blk /\ n64'.k = n64.k + 1 /\ n64'.left = n64.left
          /\ n64'.read = n64.read /\ n64'.track = n64.track
      <4>1. CASE n64' = next
        BY <2>3, <4>1
      <4>2. CASE next.left # 1 /\ n64' = Through(next, "wait")
        <5>1. n64' = [next EXCEPT !.phase = "wait"]
          BY <4>2 DEF Through
        <5> QED BY <2>3, <2>3b, <5>1
      <4> QED BY <2>3a, <2>5, <4>1, <4>2
    <3>2. Noted' /\ AtRest' /\ drv.state = "idle" /\ ~reg.irq /\ ~snap.pend /\ ~reg'.start /\ ~snap.start
      BY <1>16, <2>1, <3>1
    <3>3. Same'
      BY <1>2, <2>2, <3>1 DEF Same
    <3>4. drv.read => drv.cur = n64'.k
      BY <2>2, <3>1 DEF AtSector
    <3>5. ~drv.read => drv.cur = n64'.k - 1 /\ (n64'.k = DataSectors => n64'.left = 0)
      BY <1>5, <1>6, <2>2, <2>3, <2>5, <3>1 DEF AtSector
    <3>6. n64'.k > 0 /\ drv.data
      BY <1>6, <2>2, <3>1 DEF AtSector
    <3>7. Moved'
      BY <1>2, <2>1, <2>2, <3>1, <3>2, <3>3, <3>4, <3>5, <3>6 DEF Moved
    <3>8. Live'
      BY <1>2, <2>2, <3>1, <3>2, <3>7 DEF Live
    <3> QED BY <1>1, <1>7, <3>2, <3>8 DEF InTransfer
  <2> QED BY <2>4, <2>5
<1>18. CASE MoveC2
  <2>1. /\ n64.phase = "c2" /\ reg'.pend /\ reg'.irq = reg.irq /\ reg'.ack = reg.ack
        /\ reg'.reset = reg.reset /\ reg'.cmdPending = reg.cmdPending /\ reg'.start = reg.start
        /\ reg'.stop = reg.stop
    BY <1>0, <1>18 DEF MoveC2, ControlType, RegType
  <2>2. /\ Live /\ ~drv.err /\ Same /\ drv.read /\ ~drv.data /\ drv.cur = BlockSectors + 1
        /\ drv.running /\ drv.read = n64.read /\ drv.state = "idle"
    BY <1>8, <2>1 DEF AtGame, Live
  <2>3. CASE n64.left = 1
    <3>1. /\ n64'.phase = "wait" /\ n64'.blk = 1 - n64.blk /\ n64'.k = 0 /\ n64'.left = 0
          /\ n64'.read = n64.read /\ n64'.track = n64.track
      BY <1>5, <1>18, <2>3 DEF MoveC2, Through
    <3>2. Noted' /\ AtRest' /\ drv.state = "idle" /\ ~reg.irq /\ ~snap.pend /\ ~reg'.start /\ ~snap.start
      BY <1>16, <2>1, <3>1
    <3>3. drv.full /\ drv.blk = 1 - n64'.blk
      BY <1>5, <2>2, <2>3, <3>1 DEF Same
    <3>4. Moved'
      BY <1>2, <2>1, <2>2, <3>1, <3>2, <3>3 DEF Moved, Ahead
    <3>5. Live'
      BY <1>2, <2>2, <3>1, <3>2, <3>4 DEF Live
    <3> QED BY <1>1, <1>7, <3>2, <3>5 DEF InTransfer
  <2>4. CASE n64.left # 1
    <3>1. n64'.phase = "ready" /\ n64'.track = n64.track
      BY <1>5, <1>18, <2>4 DEF MoveC2, Through
    <3>2. Calm
      BY <2>2, <2>4 DEF Calm, Same
    <3>3. Noted' /\ AtRest'
      BY <1>16, <2>1, <3>1, <3>2
    <3> QED BY <1>1, <1>7, <3>1, <3>3 DEF InTransfer
  <2> QED BY <2>3, <2>4
<1> QED
  BY <1>1, <1>9, <1>10, <1>11, <1>12, <1>13, <1>14, <1>15, <1>17, <1>18, Constants DEF GameStep

-----------------------------------------------------------------------------
\* What a turn does to the data, sorted by kind.

\* The kinds of a turn, by what becomes of the data.
Steady == UNCHANGED <<sec, slot, buf, medium, failed>>
Keeps  == /\ drv'.read = drv.read /\ drv'.track = drv.track /\ drv'.blk = drv.blk

EndTurn  == Steady /\ (~drv'.running \/ (snap.start /\ drv'.state = "start"))
\* Nothing happens to the data,
IdleTurn ==
  /\ Steady /\ drv.state = "idle" /\ drv'.state = "idle" /\ drv'.read = drv.read /\ drv'.err = drv.err
  /\ drv'.cur = drv.cur \/ (drv.read /\ drv'.cur > DataSectors)
  /\ drv.cur < DataSectors => ~snap.pend
  /\ Calm \/ (drv'.track = drv.track /\ drv'.blk = drv.blk)
\* the answer is awaited,
WaitTurn ==
  /\ Steady /\ Keeps /\ drv.state \in {"readWait", "writeWait"} /\ ~drv.ready
  /\ drv'.state = drv.state /\ ~drv'.ready
\* a request is made, now or as soon as the slot is free,
AskTurn(isRead, from, next) ==
  /\ drv.state = from /\ Keeps /\ UNCHANGED sec
  /\ \/ /\ sdMode /\ drv'.state = next
        /\ \E d \in Drives : d.track = drv.track /\ d.blk = drv.blk /\ SdRequest(d, isRead, next)
     \/ /\ ~sdMode /\ slot = Nothing /\ slot' = <<isRead, drv.track, drv.blk, late>>
        /\ drv'.state = next /\ ~drv'.ready /\ UNCHANGED <<buf, medium, failed>>
     \/ /\ ~sdMode /\ slot # Nothing /\ slot' = slot /\ drv'.state = from
        /\ UNCHANGED <<buf, medium, failed>>
\* the block has come, or has failed to,
LoadTurn ==
  /\ Steady /\ Keeps /\ drv.state = "readWait" /\ drv.ready /\ drv'.cur = 0
  /\ drv'.state = (IF drv.read THEN "sectorRead" ELSE "idle")
  /\ drv.valid \/ drv'.err
\* the next sector is handed to the game,
SectorTurn ==
  /\ UNCHANGED <<slot, buf, medium, failed>> /\ Keeps /\ drv.read /\ drv.cur < DataSectors
  /\ drv.state = "sectorRead" \/ (drv.state = "idle" /\ snap.pend)
  /\ sec' = buf[drv.cur] /\ drv'.state = "idle" /\ drv'.cur = drv.cur + 1 /\ drv'.err = drv.err
\* a sector of the game is taken,
FillTurn ==
  /\ UNCHANGED <<sec, slot, medium, failed>> /\ Keeps /\ ~drv.read /\ drv.cur < DataSectors
  /\ drv.state = "idle" /\ snap.pend /\ buf' = [buf EXCEPT ![drv.cur] = sec]
  /\ drv'.cur = drv.cur + 1
  /\ drv'.state = (IF drv.cur + 1 < DataSectors THEN "idle" ELSE "blockWrite")
\* the write is answered,
DoneTurn ==
  /\ UNCHANGED <<sec, buf, slot, medium>> /\ Keeps /\ drv.state = "writeWait" /\ drv.ready
  /\ drv'.state = "nextBlock" /\ failed' = (failed \/ ~drv.valid)
\* or the block is through.
NextTurn ==
  /\ Steady /\ drv'.read = drv.read /\ drv'.track = drv.track /\ drv.state \in {"idle", "nextBlock"}
  /\ \/ drv'.state = "start"
     \/ /\ drv.state = "nextBlock" /\ drv'.state = "idle" /\ drv'.blk = drv.blk
        /\ drv'.cur = DataSectors

\* What the switch finds, in the order of its states.
LEMMA FoundStates ==
  ASSUME ControlInv, AfterCommand.running, ~snap.stop
  PROVE  /\ Calm \/ Found.track = drv.track
         /\ drv.state # "idle" => /\ ~Calm /\ ~Pend /\ Found.state = drv.state
                                  /\ drv.state # "start" => Found.cur = drv.cur
         /\ drv.state = "idle" =>
              \/ /\ Found.state = "idle"
                 /\ Found.cur = drv.cur \/ (drv.read /\ Found.cur > DataSectors)
                 /\ drv.cur < DataSectors => ~snap.pend
              \/ /\ Found.state = (IF drv.read THEN "sectorRead" ELSE "sectorWrite")
                 /\ snap.pend /\ drv.cur < DataSectors /\ Found.cur = drv.cur
              \/ Found.state = "nextBlock" /\ drv.read
<1>0. ControlType /\ Shaped /\ Noted /\ drv.running /\ ~snap.reset /\ drv \in Drives
  BY FoundFields DEF ControlInv, ControlType
<1>1. snap.cmd => Calm
  BY <1>0 DEF Noted
<1>2. ~snap.cmd => Found.track = drv.track
  BY <1>0, FoundFields, CommandFields
<1>3. drv.cur \in Nat /\ DataSectors \in Nat /\ DataSectors > 0 /\ BlockSectors = DataSectors + 4
  BY <1>0, Constants DEF Drives
<1>4. /\ drv.state # "sectorWrite"
      /\ drv.state \in {"blockWrite", "writeWait"} => ~drv.read /\ drv.cur = DataSectors
      /\ drv.state = "sectorRead" => drv.read /\ drv.cur = 0
      /\ drv.state = "readWait" => drv.cur = 0
      /\ drv.state = "nextBlock" => ~drv.read /\ drv.cur = DataSectors
      /\ Pend => drv.state = "idle"
      /\ drv.state \in States
  BY <1>0 DEF Shaped, Noted, Drives
<1>5. ~snap.pend =>
        /\ Found.state = drv.state
        /\ drv.cur <= DataSectors \/ ~drv.read \/ drv.cur > BlockSectors => Found.cur = drv.cur
        /\ drv.read /\ drv.cur > DataSectors => Found.cur > DataSectors
  <2> SUFFICES ASSUME ~snap.pend
               PROVE  /\ Found.state = drv.state
                      /\ drv.cur <= DataSectors \/ ~drv.read \/ drv.cur > BlockSectors => Found.cur = drv.cur
                      /\ drv.read /\ drv.cur > DataSectors => Found.cur > DataSectors
    OBVIOUS
  <2>1. CASE ~drv.read
    BY <1>0, <2>1, FoundMoves
  <2>2. CASE drv.read /\ (drv.cur <= DataSectors \/ drv.cur > BlockSectors)
    BY <1>0, <1>3, <2>2, FoundMoves DEF SameMove
  <2>3. CASE drv.read /\ drv.cur > DataSectors /\ drv.cur <= BlockSectors /\ snap.ack
    <3>1. Found.cur = drv.cur + 1 /\ Found.state = drv.state
      BY <1>0, <2>3, FoundMoves
    <3> QED BY <1>3, <2>3, <3>1
  <2>4. CASE drv.read /\ drv.cur > DataSectors /\ drv.cur <= BlockSectors /\ ~snap.ack
    BY <1>0, <1>3, <2>4, FoundMoves DEF SameMove
  <2> QED BY <1>3, <2>1, <2>2, <2>3, <2>4
<1>6. drv.state # "idle" => ~Calm /\ ~Pend
  BY <1>0, <1>4 DEF Calm
<1>7. drv.state # "idle" => Found.state = drv.state /\ (drv.state # "start" => Found.cur = drv.cur)
  <2> SUFFICES ASSUME drv.state # "idle"
               PROVE  Found.state = drv.state /\ (drv.state # "start" => Found.cur = drv.cur)
    OBVIOUS
  <2>1. ~snap.pend
    BY <1>6 DEF Pend
  <2>2. drv.state # "start" => drv.cur <= DataSectors
    BY <1>3, <1>4 DEF States
  <2> QED BY <1>5, <2>1, <2>2
<1>8. drv.state = "idle" =>
        \/ /\ Found.state = "idle"
           /\ Found.cur = drv.cur \/ (drv.read /\ Found.cur > DataSectors)
           /\ drv.cur < DataSectors => ~snap.pend
        \/ /\ Found.state = (IF drv.read THEN "sectorRead" ELSE "sectorWrite")
           /\ snap.pend /\ drv.cur < DataSectors /\ Found.cur = drv.cur
        \/ Found.state = "nextBlock" /\ drv.read
  <2> DEFINE Goal == \/ /\ Found.state = "idle"
                        /\ Found.cur = drv.cur \/ (drv.read /\ Found.cur > DataSectors)
                        /\ drv.cur < DataSectors => ~snap.pend
                     \/ /\ Found.state = (IF drv.read THEN "sectorRead" ELSE "sectorWrite")
                        /\ snap.pend /\ drv.cur < DataSectors /\ Found.cur = drv.cur
                     \/ Found.state = "nextBlock" /\ drv.read
  <2> SUFFICES ASSUME drv.state = "idle" PROVE Goal
    OBVIOUS
  <2>1. CASE ~snap.pend
    <3>1. CASE ~drv.read \/ drv.cur <= DataSectors
      BY <1>5, <2>1, <3>1
    <3>2. CASE drv.read /\ drv.cur > DataSectors
      BY <1>5, <2>1, <3>2
    <3> QED BY <1>3, <3>1, <3>2
  <2>2. CASE snap.pend /\ drv.cur < DataSectors
    BY <1>0, <2>2, FoundMoves
  <2>3. CASE snap.pend /\ drv.read /\ drv.cur = DataSectors
    <3>1. Found.state = "idle" /\ Found.cur \in {DataSectors + 1, DataSectors + 2}
      BY <1>0, <2>3, FoundMoves
    <3> QED BY <1>3, <2>3, <3>1
  <2> DEFINE p == OnPending(AfterCommand)
  <2>4. /\ p \in Drives /\ AfterCommand \in Drives /\ Found = OnAck(p) /\ AfterCommand.state = "idle"
        /\ AfterCommand.cur = drv.cur /\ AfterCommand.read = drv.read
    BY <1>0, CommandTyped, TurnTyped, CommandFields DEF Found
  <2>5. CASE snap.pend /\ drv.read /\ drv.cur > DataSectors /\ drv.cur >= BlockSectors
    <3>1. AfterCommand.read /\ AfterCommand.cur > DataSectors /\ AfterCommand.cur >= BlockSectors
      BY <2>4, <2>5
    <3>2. p.state = "nextBlock"
      BY <2>4, <2>5, <3>1, PendingFields
    <3> HIDE DEF p
    <3>3. Found.state = "nextBlock"
      BY <2>4, <3>2, AckFields
    <3> QED BY <2>5, <3>3
  <2>6. CASE snap.pend /\ drv.cur >= DataSectors /\ (~drv.read \/ (drv.cur # DataSectors /\ drv.cur < BlockSectors))
    <3>1. ~AfterCommand.read <=> ~drv.read
      BY <2>4
    <3>2. p = AfterCommand
      BY <2>4, <2>6, <3>1, PendingFields
    <3> HIDE DEF p
    <3>3. Found.state = "idle" /\ p.cur = drv.cur /\ (p.read <=> drv.read)
      BY <2>4, <3>1, <3>2, AckFields
    <3>4. CASE ~drv.read
      <4>1. Found.cur = p.cur
        <5>1. CASE snap.ack
          BY <2>4, <3>3, <3>4, <5>1, AckFields
        <5>2. CASE ~snap.ack
          BY <2>4, <5>2, AckFields
        <5> QED BY <5>1, <5>2
      <4> QED BY <1>3, <2>6, <3>3, <4>1
    <3>5. CASE drv.read
      <4>1. drv.cur > DataSectors /\ drv.cur <= BlockSectors /\ ~(drv.cur < DataSectors)
        BY <1>3, <2>6, <3>5
      <4>2. Found.cur = p.cur \/ Found.cur = p.cur + 1
        <5>1. CASE snap.ack
          BY <2>4, <3>3, <3>5, <4>1, <5>1, AckFields
        <5>2. CASE ~snap.ack
          BY <2>4, <5>2, AckFields
        <5> QED BY <5>1, <5>2
      <4>3. Found.cur > DataSectors
        BY <1>3, <3>3, <4>1, <4>2
      <4> QED BY <3>3, <3>5, <4>1, <4>3
    <3> QED BY <3>4, <3>5
  <2> HIDE DEF Goal, p
  <2> QED BY <1>3, <2>1, <2>2, <2>3, <2>5, <2>6
<1> QED BY <1>1, <1>2, <1>6, <1>7, <1>8

\* A transfer goes on in this turn.
Busy == drv.running /\ ~snap.stop /\ ~snap.start
Turns ==
  \/ IdleTurn \/ WaitTurn \/ AskTurn(TRUE, "start", "readWait") \/ LoadTurn \/ SectorTurn
  \/ FillTurn \/ AskTurn(FALSE, "blockWrite", "writeWait") \/ DoneTurn \/ NextTurn

\* Every turn is one of these kinds, or it ends or begins a transfer.
LEMMA WorkKinds ==
  ASSUME ControlInv, Work
  PROVE  /\ UNCHANGED <<queue, host, sdMode, disk, n64, disks, late>>
         /\ EndTurn \/ (Busy /\ Turns)
<1>0. ControlType /\ Shaped /\ Noted /\ drv \in Drives
  BY DEF ControlInv, ControlType
<1>1. UNCHANGED <<queue, host, sdMode, disk, n64, disks, late>>
  BY DEF Work
<1>2. AfterCommand \in Drives
  BY <1>0, CommandTyped
<1>3. CASE snap.stop
  <2>1. drv' = Stopped(AfterCommand) /\ Steady
    BY <1>3 DEF Work, Still, Steady, Starts
  <2> QED BY <1>0, <1>1, <1>2, <2>1, StartFields DEF EndTurn
<1>4. CASE ~snap.stop /\ snap.start
  <2>1. drv' = Started(AfterCommand) /\ Steady
    BY <1>4 DEF Work, Still, Steady, Starts
  <2> QED BY <1>0, <1>1, <1>2, <1>4, <2>1, StartFields DEF EndTurn
<1>5. CASE ~snap.stop /\ ~snap.start /\ ~AfterCommand.running
  <2>1. drv' = AfterCommand /\ Steady
    BY <1>5 DEF Work, Still, Steady, Starts
  <2> QED BY <1>1, <1>5, <2>1 DEF EndTurn
<1>6. CASE ~snap.stop /\ ~snap.start /\ AfterCommand.running
  <2>1. Machine(Found)
    BY <1>6 DEF Work, Found, Starts
  <2>2. /\ Found \in Drives /\ drv.running /\ Found.read = drv.read /\ Found.blk = drv.blk
        /\ Found.err = drv.err /\ Found.ready = drv.ready /\ Found.valid = drv.valid
        /\ Found.state \in {"sectorRead", "sectorWrite"} => Found.cur < DataSectors
    BY <1>0, <1>6, FoundFields
  <2>3. Busy
    BY <1>6, <2>2 DEF Busy
  <2>4. drv'.read = drv.read /\ drv'.track = Found.track
    BY <2>1, <2>2, MachineSteps
  <2>5. drv.cur \in Nat /\ DataSectors \in Nat /\ DataSectors > 0 /\ Found.state \in States
        /\ drv.state \in States
    BY <1>0, <2>2, Constants DEF Drives
  <2>6. /\ drv.state \in {"blockWrite", "writeWait"} => ~drv.read /\ drv.cur = DataSectors
        /\ drv.state = "sectorRead" => drv.read /\ drv.cur = 0
        /\ drv.state = "readWait" => drv.cur = 0
        /\ drv.state = "nextBlock" => ~drv.read /\ drv.cur = DataSectors
        /\ drv.state # "sectorWrite"
    BY <1>0, <2>2 DEF Shaped
  <2>7. Calm => drv.state = "idle" /\ (drv.read => drv.cur > DataSectors) /\ (~drv.read => drv.cur = DataSectors)
    BY <2>2, <2>5, Constants DEF Calm
  <2>8. /\ Calm \/ Found.track = drv.track
        /\ drv.state # "idle" => /\ ~Calm /\ ~Pend /\ Found.state = drv.state
                                 /\ drv.state # "start" => Found.cur = drv.cur
        /\ drv.state = "idle" =>
             \/ /\ Found.state = "idle"
                /\ Found.cur = drv.cur \/ (drv.read /\ Found.cur > DataSectors)
                /\ drv.cur < DataSectors => ~snap.pend
             \/ /\ Found.state = (IF drv.read THEN "sectorRead" ELSE "sectorWrite")
                /\ snap.pend /\ drv.cur < DataSectors /\ Found.cur = drv.cur
             \/ Found.state = "nextBlock" /\ drv.read
    BY <1>6, FoundStates
  <2>9. ASSUME Found.state = "idle" PROVE IdleTurn
    <3>1. drv' = Found /\ Steady
      BY <2>1, <2>9 DEF Machine, Still, Steady
    <3>2. drv.state = "idle"
      BY <2>8, <2>9
    <3>3. /\ Found.cur = drv.cur \/ (drv.read /\ Found.cur > DataSectors)
          /\ drv.cur < DataSectors => ~snap.pend
      BY <2>8, <2>9, <3>2
    <3> QED BY <2>2, <2>8, <2>9, <3>1, <3>2, <3>3 DEF IdleTurn
  <2>10. CASE Found.state \in {"readWait", "writeWait"} /\ ~Found.ready
    <3>1. drv' = Found /\ Steady
      BY <2>1, <2>10 DEF Machine, Still, Steady
    <3>2. drv.state = Found.state /\ Found.track = drv.track
      BY <2>8, <2>10
    <3>3. WaitTurn
      BY <2>2, <2>10, <3>1, <3>2 DEF WaitTurn, Keeps
    <3> QED BY <1>1, <2>3, <3>3 DEF Turns
  <2>11. ASSUME NEW d \in Drives, NEW isRead \in BOOLEAN, NEW from \in States, NEW next \in States,
                Request(d, isRead, next), drv.state = from, d.state = from, from # "idle", sec' = sec,
                d.track = Found.track, d.blk = drv.blk, d.read = drv.read
         PROVE  AskTurn(isRead, from, next)
    <3>1. Found.track = drv.track
      BY <2>8, <2>11
    <3>2. /\ Others(d, drv')
          /\ drv'.state = (IF sdMode \/ slot = Nothing THEN next ELSE from)
          /\ drv'.ready <=> sdMode
      BY <2>11, RequestFields
    <3>3. Keeps
      BY <2>11, <3>1, <3>2 DEF Keeps, Others
    <3>4. CASE sdMode
      <4>1. SdRequest(d, isRead, next)
        BY <2>11, <3>4 DEF Request
      <4> QED BY <2>11, <3>1, <3>2, <3>3, <3>4, <4>1 DEF AskTurn
    <3>5. CASE ~sdMode
      <4>1. /\ slot' = IF slot = Nothing THEN <<isRead, d.track, d.blk, late>> ELSE slot
            /\ UNCHANGED <<buf, medium, failed>>
        BY <2>11, <3>5 DEF Request, Enqueue
      <4> QED BY <2>11, <3>1, <3>2, <3>3, <3>5, <4>1 DEF AskTurn
    <3> QED BY <3>4, <3>5
  <2>12. CASE Found.state = "start"
    <3> DEFINE d == [Found EXCEPT !.cur = 0]
    <3>1. d \in Drives /\ d.state = "start" /\ d.track = Found.track /\ d.blk = drv.blk /\ d.read = drv.read
      BY <2>2, <2>12, Constants DEF Drives
    <3>2. Request(d, TRUE, "readWait") /\ sec' = sec
      BY <2>1, <2>12 DEF Machine
    <3>3. drv.state = "start"
      BY <2>8, <2>12
    <3> HIDE DEF d
    <3>4. AskTurn(TRUE, "start", "readWait")
      BY <2>11, <3>1, <3>2, <3>3 DEF States
    <3> QED BY <1>1, <2>3, <3>4 DEF Turns
  <2>13. CASE Found.state = "blockWrite"
    <3>1. Request(Found, FALSE, "writeWait") /\ sec' = sec
      BY <2>1, <2>13 DEF Machine
    <3>2. drv.state = "blockWrite"
      BY <2>8, <2>13
    <3>3. AskTurn(FALSE, "blockWrite", "writeWait")
      BY <2>2, <2>11, <2>13, <3>1, <3>2 DEF States
    <3> QED BY <1>1, <2>3, <3>3 DEF Turns
  <2>14. CASE Found.state = "readWait" /\ Found.ready
    <3>1. Steady
      BY <2>1, <2>14 DEF Machine, Still, Steady
    <3>2. drv.state = "readWait" /\ Found.track = drv.track /\ Found.cur = 0
      BY <2>6, <2>8, <2>14
    <3>3. /\ drv'.cur = 0 /\ drv'.blk = drv.blk /\ (drv.valid \/ drv'.err)
          /\ drv'.state = (IF drv.read THEN "sectorRead" ELSE "idle")
      BY <2>1, <2>2, <2>14, <3>2, MachineSteps
    <3>4. LoadTurn
      BY <2>2, <2>4, <2>14, <3>1, <3>2, <3>3 DEF LoadTurn, Keeps
    <3> QED BY <1>1, <2>3, <3>4 DEF Turns
  <2>15. CASE Found.state = "sectorRead"
    <3>1. sec' = buf[Found.cur] /\ UNCHANGED <<slot, buf, medium, failed>>
      BY <2>1, <2>15 DEF Machine, Still
    <3>2. /\ drv.state = "sectorRead" \/ (drv.state = "idle" /\ snap.pend)
          /\ drv.read /\ drv.cur < DataSectors /\ Found.cur = drv.cur
      BY <2>5, <2>6, <2>8, <2>15
    <3>3. Found.track = drv.track
      BY <2>5, <2>7, <2>8, <3>2
    <3>4. drv'.state = "idle" /\ drv'.cur = Found.cur + 1 /\ drv'.err = Found.err /\ drv'.blk = Found.blk
      BY <2>1, <2>2, <2>15, MachineSteps
    <3>5. SectorTurn
      BY <2>2, <2>4, <3>1, <3>2, <3>3, <3>4 DEF SectorTurn, Keeps
    <3> QED BY <1>1, <2>3, <3>5 DEF Turns
  <2>16. CASE Found.state = "sectorWrite"
    <3>1. buf' = [buf EXCEPT ![Found.cur] = sec] /\ UNCHANGED <<sec, slot, medium, failed>>
      BY <2>1, <2>16 DEF Machine
    <3>2. /\ drv.state = "idle" /\ snap.pend
          /\ ~drv.read /\ drv.cur < DataSectors /\ Found.cur = drv.cur
      BY <2>6, <2>8, <2>16
    <3>3. Found.track = drv.track
      BY <2>5, <2>7, <2>8, <3>2
    <3>4. /\ drv'.cur = Found.cur + 1 /\ drv'.blk = Found.blk
          /\ drv'.state = (IF Found.cur + 1 < DataSectors THEN "idle" ELSE "blockWrite")
      BY <2>1, <2>2, <2>16, MachineSteps
    <3>5. FillTurn
      BY <2>2, <2>4, <3>1, <3>2, <3>3, <3>4 DEF FillTurn, Keeps
    <3> QED BY <1>1, <2>3, <3>5 DEF Turns
  <2>17. CASE Found.state = "writeWait" /\ Found.ready
    <3>1. failed' = (failed \/ ~Found.valid) /\ UNCHANGED <<sec, buf, slot, medium>>
      BY <2>1, <2>17 DEF Machine
    <3>2. drv.state = "writeWait" /\ Found.track = drv.track
      BY <2>8, <2>17
    <3>3. drv'.state = "nextBlock" /\ drv'.blk = Found.blk
      BY <2>1, <2>2, <2>17, MachineSteps
    <3>4. DoneTurn
      BY <2>2, <2>4, <2>17, <3>1, <3>2, <3>3 DEF DoneTurn, Keeps
    <3> QED BY <1>1, <2>3, <3>4 DEF Turns
  <2>18. CASE Found.state = "nextBlock"
    <3>1. Steady
      BY <2>1, <2>18 DEF Machine, Still, Steady
    <3>2. CASE ~Found.full /\ Found.read
      <4>1. drv'.running = FALSE
        BY <2>1, <2>2, <2>18, <3>2, MachineSteps
      <4> QED BY <1>1, <3>1, <4>1 DEF EndTurn
    <3>3. CASE ~Found.full /\ ~Found.read
      <4>1. drv.state = "nextBlock" /\ Found.track = drv.track /\ Found.cur = DataSectors
        BY <2>2, <2>6, <2>8, <2>18, <3>3
      <4>2. drv'.state = "idle" /\ drv'.blk = Found.blk /\ drv'.cur = Found.cur
        BY <2>1, <2>2, <2>18, <3>3, MachineSteps
      <4>3. NextTurn
        BY <2>2, <2>4, <3>1, <4>1, <4>2 DEF NextTurn
      <4> QED BY <1>1, <2>3, <4>3 DEF Turns
    <3>4. CASE Found.full
      <4>1. drv'.state = "start"
        BY <2>1, <2>2, <2>18, <3>4, MachineSteps
      <4>2. CASE Calm
        <5>1. ~drv.full
          <6>1. drv.state = "idle" /\ drv.read
            BY <2>7, <2>8, <2>18, <4>2
          <6> QED BY <2>2, <4>2, <6>1 DEF Calm
        <5>2. Found.full = drv.full
          BY <1>0, <1>6, FoundFields
        <5> QED BY <3>4, <5>1, <5>2
      <4>3. CASE ~Calm
        <5>1. NextTurn
          BY <2>4, <2>8, <2>18, <3>1, <4>1, <4>3 DEF NextTurn
        <5> QED BY <1>1, <2>3, <5>1 DEF Turns
      <4> QED BY <4>2, <4>3
    <3> QED BY <3>2, <3>3, <3>4
  <2>19. CASE Found.state = "idle"
    BY <1>1, <2>3, <2>9, <2>19 DEF Turns
  <2> QED BY <2>5, <2>10, <2>12, <2>13, <2>14, <2>15, <2>16, <2>17, <2>18, <2>19 DEF States
<1> QED BY <1>3, <1>4, <1>5, <1>6

-----------------------------------------------------------------------------
\* The data: every action keeps what is filled, owed, sent, read and written.

\* A sector is known by its five parts.
LEMMA Contents ==
  ASSUME NEW c \in Content
  PROVE  c # Nothing /\ c = <<c[1], c[2], c[3], c[4], c[5]>>
<1>1. PICK x1 \in DiskId, x2 \in Tracks, x3 \in {0, 1}, x4 \in Index, x5 \in 0..MaxWrites : c = <<x1, x2, x3, x4, x5>>
  BY DEF Content
<1>2. <<x1, x2, x3, x4, x5>> # <<>>
  OBVIOUS
<1>3. Len(<<x1, x2, x3, x4, x5>>) = 5
  OBVIOUS
<1>4. Len(<<>>) = 0
  OBVIOUS
<1>5. c = <<c[1], c[2], c[3], c[4], c[5]>>
  BY <1>1
<1>6. c # <<>>
  BY <1>1, <1>3, <1>4
<1> QED BY <1>5, <1>6 DEF Nothing

\* What appending does to a sequence.
LEMMA Appended ==
  ASSUME NEW S, NEW s \in Seq(S), NEW x \in S
  PROVE  /\ Append(s, x) \in Seq(S) /\ Len(Append(s, x)) = Len(s) + 1
         /\ \A i \in 1..Len(s) : Append(s, x)[i] = s[i]
         /\ Append(s, x)[Len(s) + 1] = x
OBVIOUS

\* A request becomes a packet by the data that are sent with it.
LEMMA Extended ==
  ASSUME NEW x1, NEW x2, NEW x3, NEW x4, NEW b
  PROVE  Append(<<x1, x2, x3, x4>>, b) = <<x1, x2, x3, x4, b>>
<1> DEFINE S == {x1, x2, x3, x4, b}
           t == <<x1, x2, x3, x4>>
           u == <<x1, x2, x3, x4, b>>
<1>1. t \in Seq(S) /\ Len(t) = 4 /\ u \in Seq(S) /\ Len(u) = 5 /\ b \in S
  OBVIOUS
<1>2. /\ u[1] = t[1] /\ u[2] = t[2] /\ u[3] = t[3] /\ u[4] = t[4] /\ u[5] = b
  OBVIOUS
<1> HIDE DEF S, t, u
<1>3. /\ Append(t, b) \in Seq(S) /\ Len(Append(t, b)) = 5
      /\ \A i \in 1..4 : Append(t, b)[i] = t[i]
      /\ Append(t, b)[5] = b
  <2>1. /\ Append(t, b) \in Seq(S) /\ Len(Append(t, b)) = Len(t) + 1
        /\ \A i \in 1..Len(t) : Append(t, b)[i] = t[i]
        /\ Append(t, b)[Len(t) + 1] = b
    BY <1>1, Appended
  <2> QED BY <1>1, <2>1
<1>4. \A i \in 1..5 : Append(t, b)[i] = u[i]
  <2>1. \A i \in 1..5 : i \in 1..4 \/ i = 5
    OBVIOUS
  <2>2. \A i \in 1..4 : i = 1 \/ i = 2 \/ i = 3 \/ i = 4
    OBVIOUS
  <2> QED BY <1>2, <1>3, <2>1, <2>2
<1>5. Append(t, b) = u
  BY <1>1, <1>3, <1>4, SeqEqual
<1> QED BY <1>5 DEF t, u

\* A request is known by its four parts.
LEMMA Slots ==
  ASSUME NEW s \in Requests, NEW b
  PROVE  /\ Len(s) = 4 /\ s # Nothing /\ s # <<"other">>
         /\ Append(s, b) = <<s[1], s[2], s[3], s[4], b>>
         /\ s[1] \in BOOLEAN /\ s[2] \in Tracks /\ s[3] \in {0, 1} /\ s[4] \in BOOLEAN
<1>1. PICK x1 \in BOOLEAN, x2 \in Tracks, x3 \in {0, 1}, x4 \in BOOLEAN : s = <<x1, x2, x3, x4>>
  BY DEF Requests
<1>2. Len(<<x1, x2, x3, x4>>) = 4
  OBVIOUS
<1>3. Append(<<x1, x2, x3, x4>>, b) = <<x1, x2, x3, x4, b>>
  BY Extended
<1>4. Len(<<"other">>) = 1
  OBVIOUS
<1>5. s[1] = x1 /\ s[2] = x2 /\ s[3] = x3 /\ s[4] = x4
  BY <1>1
<1>6. s # <<>> /\ s # <<"other">> /\ Len(s) = 4
  BY <1>1, <1>2, <1>4
<1> QED BY <1>1, <1>3, <1>5, <1>6 DEF Nothing

\* A disk, a track, a block and an index name a place.
LEMMA Cells ==
  ASSUME NEW d \in DiskId, NEW t \in Tracks, NEW b \in {0, 1}, NEW k \in Index
  PROVE  <<d, t, b, k>> \in Places
BY DEF Places

\* On the SD card a read fills the buffer and a write puts the buffer in its
\* place, in part when the card fails (dd_block_read_request and its peer).
LEMMA SdMoves ==
  ASSUME DataType, NEW d \in Drives, NEW isRead \in BOOLEAN, NEW next \in States,
         SdRequest(d, isRead, next), ~isRead => \A k \in Index : buf[k] # Nothing
  PROVE  /\ buf' \in Buffers /\ medium' \in [Places -> Content] /\ UNCHANGED <<slot, failed>>
         /\ isRead => /\ medium' = medium
                      /\ \A k \in Index : buf[k] # Nothing => buf'[k] # Nothing
                      /\ drv'.valid => \A k \in Index : buf'[k] = medium[<<disk, d.track, d.blk, k>>]
         /\ ~isRead =>
              /\ buf' = buf
              /\ \A x \in Places : medium'[x] # medium[x] =>
                   \E k \in Index : x = <<disk, d.track, d.blk, k>> /\ medium'[x] = buf[k]
              /\ drv'.valid => \A k \in Index : medium'[<<disk, d.track, d.blk, k>>] = buf[k]
<1>0. /\ buf \in Buffers /\ medium \in [Places -> Content] /\ disk \in DiskId
      /\ d.track \in Tracks /\ d.blk \in {0, 1}
  BY DEF DataType, Drives
<1> DEFINE at(k) == <<disk, d.track, d.blk, k>>
<1>1. PICK n \in 0..DataSectors :
        /\ drv' = [d EXCEPT !.state = next, !.ready = TRUE, !.valid = (n = DataSectors)]
        /\ IF isRead
             THEN /\ buf' = [k \in Index |-> IF k < n THEN medium[at(k)] ELSE buf[k]]
                  /\ UNCHANGED medium
             ELSE /\ medium' = [x \in Places |-> IF \E k \in 0..n - 1 : x = at(k) THEN buf[x[4]]
                                                 ELSE medium[x]]
                  /\ UNCHANGED buf
        /\ UNCHANGED <<slot, failed>>
  BY DEF SdRequest
<1>2. drv'.valid => n = DataSectors
  BY <1>1 DEF Drives
<1>3. \A k \in Index : at(k) \in Places /\ medium[at(k)] \in Content
  BY <1>0, Cells
<1>4. DataSectors \in Nat /\ 0..n - 1 \subseteq Index /\ (n = DataSectors => 0..n - 1 = Index)
      /\ \A k \in Index : n = DataSectors => k < n
  BY Constants DEF Index
<1>5. \A c \in Content : c # Nothing
  BY Contents
<1> HIDE DEF at
<1>6. CASE isRead
  <2>1. buf' = [k \in Index |-> IF k < n THEN medium[at(k)] ELSE buf[k]] /\ medium' = medium
    BY <1>1, <1>6
  <2>2. \A k \in Index : buf'[k] = IF k < n THEN medium[at(k)] ELSE buf[k]
    BY <2>1
  <2>3. buf' \in Buffers
    BY <1>0, <1>3, <2>1 DEF Buffers
  <2>4. \A k \in Index : buf[k] # Nothing => buf'[k] # Nothing
    BY <1>3, <1>5, <2>2
  <2>5. drv'.valid => \A k \in Index : buf'[k] = medium[at(k)]
    BY <1>2, <1>4, <2>2
  <2> QED BY <1>0, <1>1, <1>6, <2>1, <2>3, <2>4, <2>5 DEF at
<1>7. CASE ~isRead
  <2>1. /\ medium' = [x \in Places |-> IF \E k \in 0..n - 1 : x = at(k) THEN buf[x[4]] ELSE medium[x]]
        /\ buf' = buf
    BY <1>1, <1>7
  <2>2. \A k : at(k)[4] = k
    BY DEF at
  <2>3. \A k \in Index : buf[k] \in Content
    BY <1>0, <1>7 DEF Buffers
  <2>4. \A x \in Places :
          \/ \E k \in Index : x = at(k) /\ medium'[x] = buf[k]
          \/ medium'[x] = medium[x]
    BY <1>4, <2>1, <2>2
  <2>5. medium' \in [Places -> Content]
    <3>1. \A x \in Places : medium'[x] \in Content
      BY <1>0, <2>3, <2>4
    <3> QED BY <2>1, <3>1
  <2>6. drv'.valid => \A k \in Index : medium'[at(k)] = buf[k]
    BY <1>2, <1>3, <1>4, <2>1, <2>2
  <2> QED BY <1>0, <1>1, <1>7, <2>1, <2>4, <2>5, <2>6 DEF at
<1> QED BY <1>6, <1>7

\* What the PC tool does to the buffer and the medium.
LEMMA HostMoves ==
  ASSUME DataType, WayType, Sent, HostServes
  PROVE  LET r == Head(queue)
         IN  /\ r \in Packets /\ queue # <<>>
             /\ buf' \in Buffers /\ medium' \in [Places -> Content]
             /\ \A k \in Index : buf[k] # Nothing => buf'[k] # Nothing
             /\ \/ host' = "failed" /\ UNCHANGED <<buf, medium>>
                \/ /\ host' = "done" /\ r[1] /\ medium' = medium
                   /\ \A k \in Index : buf'[k] = medium[<<disk, r[2], r[3], k>>]
                \/ /\ host' = "done" /\ ~r[1] /\ buf' = buf
                   /\ \A k \in Index : medium'[<<disk, r[2], r[3], k>>] = r[5][k]
                   /\ \A x \in Places : medium'[x] # medium[x] =>
                        \E k \in Index : x = <<disk, r[2], r[3], k>> /\ medium'[x] = r[5][k]
<1> DEFINE r == Head(queue)
           at(k) == <<disk, r[2], r[3], k>>
<1>0. /\ buf \in Buffers /\ medium \in [Places -> Content] /\ disk \in DiskId
      /\ queue \in Seq(Packets) /\ queue # <<>>
  BY DEF DataType, WayType, HostServes
<1>1. r \in Packets /\ Len(queue) \in Nat /\ Len(queue) >= 1 /\ queue[1] = r
  BY <1>0
<1>2. r[1] \in BOOLEAN /\ r[2] \in Tracks /\ r[3] \in {0, 1} /\ r[5] \in Buffers
  BY <1>1 DEF Packets
<1>3. ~r[1] => \A k \in Index : r[5][k] \in Content
  <2>1. ~r[1] => InPlace(r[5], r)
    BY <1>1 DEF Sent
  <2> QED BY <1>2, <2>1 DEF InPlace, Buffers
<1>4. \A k \in Index : at(k) \in Places /\ medium[at(k)] \in Content
  BY <1>0, <1>2, Cells
<1>5. \A c \in Content : c # Nothing
  BY Contents
<1>6. CASE r[1] /\ host' = "done" /\ buf' = [k \in Index |-> medium[at(k)]] /\ UNCHANGED medium
  <2> HIDE DEF r
  <2>1. \A k \in Index : buf'[k] = medium[at(k)]
    BY <1>6
  <2>2. buf' \in Buffers /\ \A k \in Index : buf'[k] # Nothing
    BY <1>4, <1>5, <1>6 DEF Buffers
  <2> QED BY <1>0, <1>1, <1>6, <2>1, <2>2 DEF r
<1>7. CASE /\ ~r[1] /\ host' = "done" /\ UNCHANGED buf
           /\ medium' = [x \in Places |-> IF x = at(x[4]) THEN r[5][x[4]] ELSE medium[x]]
  <2> HIDE DEF r
  <2>1. \A k : at(k)[4] = k
    OBVIOUS
  <2> HIDE DEF at
  <2>2. \A k \in Index : medium'[at(k)] = r[5][k]
    BY <1>4, <1>7, <2>1
  <2>3. \A x \in Places : x[4] \in Index
    BY DEF Places
  <2>4. \A x \in Places : \/ \E k \in Index : x = at(k) /\ medium'[x] = r[5][k]
                          \/ medium'[x] = medium[x]
    BY <1>7, <2>1, <2>3
  <2>5. medium' \in [Places -> Content]
    <3>1. \A x \in Places : medium'[x] \in Content
      BY <1>0, <1>3, <1>7, <2>4
    <3> QED BY <1>7, <3>1
  <2> QED BY <1>0, <1>1, <1>7, <2>2, <2>4, <2>5 DEF r, at
<1>8. CASE host' = "failed" /\ UNCHANGED <<buf, medium>>
  BY <1>0, <1>1, <1>8
<1> QED BY <1>6, <1>7, <1>8 DEF HostServes

\* A turn keeps the whole handshake.
LEMMA WorkControl ==
  ASSUME ControlInv, Work
  PROVE  ControlInv'
BY WorkIrq, WorkNoted, WorkAtRest, WorkInTransfer, WorkShaped DEF ControlInv

\* What a turn leaves of the control.
LEMMA WorkFacts ==
  ASSUME ControlInv, Work
  PROVE  /\ drv \in Drives /\ drv' \in Drives /\ turn' = "scan"
         /\ ~snap'.start /\ ~snap'.pend
         /\ reg'.start => reg.start
         /\ Busy => reg'.start = reg.start
         /\ Busy /\ drv'.running /\ reg'.pend => reg.pend /\ ~snap.pend
         /\ reg.start => Calm
         /\ n64.phase = "written" => Calm
         /\ Calm /\ drv.running => drv.state = "idle"
         /\ Pend /\ drv.running => drv.state = "idle"
         /\ Pend' /\ drv'.running => drv'.state = "idle"
<1>0. ControlType /\ Shaped /\ Noted /\ AtRest /\ InTransfer /\ ControlInv'
  BY WorkControl DEF ControlInv
<1>1. drv \in Drives /\ drv' \in Drives /\ drv'.irq \in BOOLEAN
  BY <1>0, WorkDrive DEF Drives, ControlType
<1>2. /\ turn' = "scan" /\ ~snap'.start /\ ~snap'.pend
      /\ reg'.start <=> reg.start /\ ~Starts
      /\ reg'.pend <=> reg.pend /\ ~(Starts \/ (snap.pend /\ AfterCommand.running /\ ~snap.stop))
  BY <1>0, <1>1, WorkReg DEF Unread
<1>3. reg.start \in BOOLEAN /\ reg'.start \in BOOLEAN
  BY <1>0 DEF ControlInv, ControlType, RegType
<1>4. Busy => reg'.start = reg.start
  BY <1>2, <1>3 DEF Busy, Starts
<1>5. Busy /\ drv'.running => AfterCommand.running
  BY <1>0, WorkDrive, CommandTyped, StartFields DEF Busy
<1>6. n64.phase \in {"off", "boot", "idle", "cmd", "ready", "wait", "data", "c2", "err", "written"}
  BY <1>0 DEF ControlType, GameType
<1>7. reg.start => Calm
  BY <1>0, <1>6 DEF AtRest, Off, Clearing, Commanding, Idle, Ready, Phase, InTransfer, Fresh
<1>8. n64.phase = "written" => Calm
  BY <1>0 DEF AtRest, Ready, Phase
<1>9. /\ Pend /\ drv.running => drv.state = "idle"
      /\ Pend' /\ drv'.running => drv'.state = "idle"
  BY <1>0 DEF Noted, ControlInv
<1> QED BY <1>1, <1>2, <1>4, <1>5, <1>7, <1>8, <1>9 DEF Calm, Busy

\* A turn asks for something only when nothing is on its way.
LEMMA WorkQuiet ==
  ASSUME ControlInv, Owed, drv.running, ~late, drv.state \notin {"readWait", "writeWait"}
  PROVE  queue = <<>> /\ ~Asked /\ host = "idle"
BY DEF Owed, Outstanding

\* A turn keeps the types of the data.
LEMMA WorkTyped ==
  ASSUME ControlInv, DataInv, Work
  PROVE  WayType' /\ DataType'
<1>0. /\ WayType /\ DataType /\ Filled /\ drv \in Drives
  BY WorkFacts DEF DataInv
<1>1. /\ UNCHANGED <<queue, host, sdMode, disk, n64, disks, late>>
      /\ EndTurn \/ (Busy /\ Turns)
  BY WorkKinds
<1>2. CASE Steady
  BY <1>0, <1>1, <1>2 DEF Steady, WayType, DataType
<1>3. ASSUME NEW isRead \in BOOLEAN, NEW from \in States, NEW next \in States, AskTurn(isRead, from, next),
             ~isRead => \A k \in Index : buf[k] # Nothing
      PROVE  WayType' /\ DataType'
  <2>1. CASE sdMode
    <3>1. PICK d \in Drives : SdRequest(d, isRead, next)
      BY <1>3, <2>1 DEF AskTurn
    <3>2. buf' \in Buffers /\ medium' \in [Places -> Content] /\ UNCHANGED <<slot, failed>>
      BY <1>0, <1>3, <3>1, SdMoves
    <3>3. sec' = sec
      BY <1>3 DEF AskTurn
    <3> QED BY <1>0, <1>1, <3>2, <3>3 DEF WayType, DataType
  <2>2. CASE ~sdMode
    <3>1. /\ slot' = slot \/ slot' = <<isRead, drv.track, drv.blk, late>>
          /\ UNCHANGED <<sec, buf, medium, failed>>
      BY <1>3, <2>2 DEF AskTurn
    <3>2. <<isRead, drv.track, drv.blk, late>> \in Requests
      BY <1>0 DEF Requests, Drives, DataType
    <3> QED BY <1>0, <1>1, <3>1, <3>2 DEF WayType, DataType
  <2> QED BY <2>1, <2>2
<1>4. CASE AskTurn(TRUE, "start", "readWait")
  BY <1>3, <1>4 DEF States
<1>5. CASE AskTurn(FALSE, "blockWrite", "writeWait") /\ drv.running
  <2>1. ~drv.read
    BY <1>5 DEF AskTurn, ControlInv, Shaped
  <2>2. \A k \in Index : buf[k] # Nothing
    BY <1>0, <1>5, <2>1 DEF AskTurn, Filled
  <2> QED BY <1>3, <1>5, <2>2 DEF States
<1>6. CASE SectorTurn
  <2>1. drv.cur \in Index
    BY <1>0, <1>6, Constants DEF SectorTurn, Index, Drives
  <2>2. sec' \in Content \cup {Nothing}
    BY <1>0, <1>6, <2>1 DEF SectorTurn, DataType, Buffers
  <2> QED BY <1>0, <1>1, <1>6, <2>2 DEF SectorTurn, WayType, DataType
<1>7. CASE FillTurn
  <2>1. buf' \in Buffers
    BY <1>0, <1>7 DEF FillTurn, DataType, Buffers
  <2> QED BY <1>0, <1>1, <1>7, <2>1 DEF FillTurn, WayType, DataType
<1>8. CASE DoneTurn
  <2>1. failed' \in BOOLEAN
    BY <1>8 DEF DoneTurn
  <2> QED BY <1>0, <1>1, <1>8, <2>1 DEF DoneTurn, WayType, DataType
<1> QED BY <1>1, <1>2, <1>4, <1>5, <1>6, <1>7, <1>8
       DEF EndTurn, Turns, Busy, IdleTurn, WaitTurn, LoadTurn, NextTurn

\* A turn keeps what the game has written in the block buffer.
LEMMA WorkFilled ==
  ASSUME ControlInv, DataInv, Work
  PROVE  Filled'
<1> SUFFICES ASSUME drv'.running, ~drv'.read
             PROVE  /\ Pend' /\ drv'.cur < DataSectors =>
                         \E d \in disks' : sec' = <<d, drv'.track, drv'.blk, drv'.cur, n64'.ver>>
                    /\ drv'.state = "idle" /\ drv'.cur < DataSectors =>
                         \A k \in 0..drv'.cur - 1 : buf'[k] # Nothing /\ (~late' => Tagged(k)')
                    /\ drv'.state = "blockWrite" =>
                         \A k \in Index : buf'[k] # Nothing /\ (~late' => Tagged(k)')
  BY DEF Filled
<1>0. /\ WayType /\ DataType /\ Filled /\ drv \in Drives /\ drv' \in Drives
      /\ Pend' => drv'.state = "idle"
      /\ Pend /\ drv.running => drv.state = "idle"
  BY WorkFacts DEF DataInv
<1>1. /\ UNCHANGED <<queue, host, sdMode, disk, n64, disks, late>>
      /\ EndTurn \/ (Busy /\ Turns)
  BY WorkKinds
<1>2. Busy => drv.running /\ (Pend' => Pend /\ ~snap.pend)
  BY WorkFacts DEF Pend, Busy
<1>3. DataSectors \in Nat /\ DataSectors > 0 /\ drv.cur \in Nat /\ drv'.cur \in Nat
  BY <1>0, Constants DEF Drives
<1>4. CASE EndTurn
  BY <1>0, <1>4 DEF EndTurn
<1>5. CASE Busy /\ IdleTurn
  <2>1. ~drv.read /\ drv'.cur = drv.cur /\ drv'.state = "idle" /\ drv.state = "idle" /\ Steady
    BY <1>5 DEF IdleTurn
  <2>2. SUFFICES ASSUME drv.cur < DataSectors
                 PROVE  /\ Pend' => \E d \in disks' : sec' = <<d, drv'.track, drv'.blk, drv'.cur, n64'.ver>>
                        /\ \A k \in 0..drv'.cur - 1 : buf'[k] # Nothing /\ (~late' => Tagged(k)')
    BY <2>1
  <2>3. ~Calm
    BY <1>2, <1>3, <1>5, <2>1, <2>2 DEF Calm
  <2>4. drv'.track = drv.track /\ drv'.blk = drv.blk
    BY <1>5, <2>3 DEF IdleTurn
  <2>5. Pend => \E d \in disks : sec = <<d, drv.track, drv.blk, drv.cur, n64.ver>>
    BY <1>0, <1>2, <1>5, <2>1, <2>2 DEF Filled
  <2>6. \A k \in 0..drv.cur - 1 : buf[k] # Nothing /\ (~late => Tagged(k))
    BY <1>0, <1>2, <1>5, <2>1, <2>2 DEF Filled
  <2>7. \A k : Tagged(k) => Tagged(k)'
    BY <1>1, <2>1, <2>4 DEF Tagged, Steady
  <2> QED BY <1>1, <1>2, <1>5, <2>1, <2>4, <2>5, <2>6, <2>7 DEF Steady
<1>6. CASE Busy /\ FillTurn
  <2>1. ~drv.read /\ drv.cur < DataSectors /\ drv.state = "idle" /\ Pend /\ drv.running
    BY <1>2, <1>6 DEF FillTurn, Pend
  <2>2. PICK e \in disks : sec = <<e, drv.track, drv.blk, drv.cur, n64.ver>>
    BY <1>0, <2>1 DEF Filled
  <2>3. \A k \in 0..drv.cur - 1 : buf[k] # Nothing /\ (~late => Tagged(k))
    BY <1>0, <2>1 DEF Filled
  <2>4. sec # Nothing
    <3>1. Len(<<e, drv.track, drv.blk, drv.cur, n64.ver>>) = 5 /\ Len(<<>>) = 0
      OBVIOUS
    <3> QED BY <2>2, <3>1 DEF Nothing
  <2>5. \A k \in 0..drv.cur : buf'[k] # Nothing /\ (~late => Tagged(k)')
    <3> SUFFICES ASSUME NEW k \in 0..drv.cur PROVE buf'[k] # Nothing /\ (~late => Tagged(k)')
      OBVIOUS
    <3>1. k \in Index /\ drv.cur \in Index
      BY <1>3, <2>1 DEF Index
    <3>2. buf'[k] = IF k = drv.cur THEN sec ELSE buf[k]
      BY <1>0, <1>6, <3>1 DEF FillTurn, DataType, Buffers
    <3>3. CASE k = drv.cur
      <4>1. Tagged(k)'
        BY <1>1, <1>6, <2>2, <3>2, <3>3 DEF Tagged, FillTurn, Keeps
      <4> QED BY <2>4, <3>2, <3>3, <4>1
    <3>4. CASE k # drv.cur
      <4>1. k \in 0..drv.cur - 1
        BY <1>3, <3>4
      <4>2. buf'[k] = buf[k]
        BY <3>2, <3>4
      <4>3. Tagged(k) => Tagged(k)'
        BY <1>1, <1>6, <4>2 DEF Tagged, FillTurn, Keeps
      <4> QED BY <2>3, <4>1, <4>2, <4>3
    <3> QED BY <3>3, <3>4
  <2>6. /\ drv'.cur = drv.cur + 1
        /\ drv'.state = (IF drv.cur + 1 < DataSectors THEN "idle" ELSE "blockWrite")
        /\ ~Pend'
    BY <1>2, <1>6 DEF FillTurn
  <2>7. drv'.cur - 1 = drv.cur
    BY <1>3, <2>6
  <2>8. drv'.state = "blockWrite" => Index = 0..drv.cur
    BY <1>3, <2>1, <2>6 DEF Index
  <2> QED BY <1>1, <2>5, <2>6, <2>7, <2>8
<1>7. CASE Busy /\ AskTurn(FALSE, "blockWrite", "writeWait")
  <2>1. /\ drv'.state = "writeWait" \/ (drv'.state = "blockWrite" /\ UNCHANGED <<buf>>)
        /\ drv.state = "blockWrite" /\ Keeps
    BY <1>7 DEF AskTurn
  <2>2. drv'.state = "blockWrite" => \A k \in Index : buf[k] # Nothing /\ (~late => Tagged(k))
    BY <1>0, <1>2, <1>7, <2>1 DEF Filled, Keeps
  <2>3. drv'.state = "blockWrite" => \A k \in Index : Tagged(k) => Tagged(k)'
    BY <1>1, <2>1 DEF Tagged, Keeps
  <2> QED BY <1>0, <1>1, <2>1, <2>2, <2>3
<1>8. CASE Busy /\ AskTurn(TRUE, "start", "readWait")
  <2>1. drv'.state \in {"start", "readWait"}
    BY <1>8 DEF AskTurn
  <2> QED BY <1>0, <2>1
<1>9. CASE Busy /\ LoadTurn
  <2>1. drv'.cur = 0 /\ drv'.state = "idle" /\ ~Pend' /\ 0..drv'.cur - 1 = {}
    <3>1. drv'.cur = 0 /\ drv'.state = "idle" /\ drv.state = "readWait"
      BY <1>9 DEF LoadTurn, Keeps
    <3> QED BY <1>0, <1>2, <1>9, <3>1
  <2> QED BY <2>1
<1>10. CASE Busy /\ NextTurn
  <2>1. drv'.state = "start" \/ (drv'.state = "idle" /\ drv'.cur = DataSectors)
    BY <1>10 DEF NextTurn
  <2> QED BY <1>0, <1>3, <2>1
<1>11. CASE Busy /\ (WaitTurn \/ DoneTurn)
  <2>1. drv'.state \in {"readWait", "writeWait", "nextBlock"}
    BY <1>11 DEF WaitTurn, DoneTurn
  <2> QED BY <1>0, <2>1
<1>12. CASE Busy /\ SectorTurn
  BY <1>12 DEF SectorTurn, Keeps
<1> QED BY <1>1, <1>4, <1>5, <1>6, <1>7, <1>8, <1>9, <1>10, <1>11, <1>12 DEF Turns

\* What a request is made of, once it is in the slot.
LEMMA NewRequest ==
  ASSUME ControlInv, DataInv, NEW isRead \in BOOLEAN, slot' = <<isRead, drv.track, drv.blk, late>>
  PROVE  /\ Asked' /\ slot'[1] = isRead /\ slot'[2] = drv.track /\ slot'[3] = drv.blk /\ slot'[4] = late
         /\ slot' # Nothing
<1>1. drv \in Drives
  BY DEF ControlInv, ControlType
<1>2. Len(<<isRead, drv.track, drv.blk, late>>) = 4 /\ Len(<<>>) = 0
  OBVIOUS
<1>3. Asked' /\ slot' # Nothing
  BY <1>2 DEF Asked, Nothing
<1> QED BY <1>3

\* An empty slot holds no request.
LEMMA EmptySlot == ~Asked \/ slot # Nothing
<1>1. Len(<<>>) = 0
  OBVIOUS
<1> QED BY <1>1 DEF Asked, Nothing

\* A turn asks only when nothing else is owed to this transfer.
LEMMA WorkOwed ==
  ASSUME ControlInv, DataInv, Work
  PROVE  Owed'
<1>0. /\ WayType /\ DataType /\ Owed /\ drv \in Drives /\ drv' \in Drives
  BY WorkFacts DEF DataInv
<1>1. /\ UNCHANGED <<queue, host, sdMode, disk, n64, disks, late>>
      /\ EndTurn \/ (Busy /\ Turns)
  BY WorkKinds
<1>2. /\ ~snap'.start /\ (reg'.start => reg.start)
      /\ reg.start => Calm
      /\ n64.phase = "written" => Calm
      /\ Calm /\ drv.running => drv.state = "idle"
  BY WorkFacts
<1>3. Busy => drv.running
  BY DEF Busy
\* With the slot as it was only the state of the drive can be wrong.
<1>4. ASSUME slot' = slot,
             drv'.running /\ Asked /\ ~slot[4] =>
               drv'.state = "start" \/ (~late /\ drv'.state \in {"readWait", "writeWait"}),
             drv'.running /\ ~late /\ Outstanding =>
               /\ drv'.state = (IF Oldest[1] THEN "readWait" ELSE "writeWait") /\ ~drv'.ready
               /\ Oldest[2] = drv'.track /\ Oldest[3] = drv'.blk
      PROVE  Owed'
  <2>1. /\ Asked' = Asked /\ Outstanding' = Outstanding /\ Oldest' = Oldest
    BY <1>1, <1>4 DEF Asked, Outstanding, Oldest
  <2>2. /\ host' # "idle" => queue' # <<>>
        /\ sdMode' => slot' = Nothing /\ queue' = <<>> /\ host' = "idle" /\ ~late'
    BY <1>0, <1>1, <1>4 DEF Owed
  <2>3. Asked' /\ ~slot'[4] =>
          /\ queue' = <<>>
          /\ drv'.running => drv'.state = "start" \/ (~late' /\ drv'.state \in {"readWait", "writeWait"})
    <3>1. Asked /\ ~slot[4] => queue = <<>>
      BY <1>0 DEF Owed
    <3> QED BY <1>1, <1>4, <2>1, <3>1
  <2>4. ~late' => /\ Len(queue') <= 1 /\ (queue' # <<>> => ~Asked')
                  /\ Outstanding' => ~Oldest'[4]
    <3>1. ~late => /\ Len(queue) <= 1 /\ (queue # <<>> => ~Asked) /\ (Outstanding => ~Oldest[4])
      BY <1>0 DEF Owed
    <3> QED BY <1>1, <2>1, <3>1
  <2>5. ~late' => (reg'.start \/ snap'.start \/ n64'.phase = "written" => ~Outstanding')
    <3>1. ~late => (reg.start \/ n64.phase = "written" => ~Outstanding)
      BY <1>0 DEF Owed
    <3> QED BY <1>1, <1>2, <2>1, <3>1
  <2>6. ~late' /\ drv'.running /\ Outstanding' =>
            /\ drv'.state = (IF Oldest'[1] THEN "readWait" ELSE "writeWait") /\ ~drv'.ready
            /\ Oldest'[2] = drv'.track /\ Oldest'[3] = drv'.blk
    BY <1>1, <1>4, <2>1
  <2> HIDE DEF Asked, Outstanding, Oldest
  <2> QED BY <2>2, <2>3, <2>4, <2>5, <2>6 DEF Owed
<1>5. CASE EndTurn
  <2>1. slot' = slot /\ (drv'.running => snap.start /\ drv'.state = "start")
    BY <1>5 DEF EndTurn, Steady
  <2>2. snap.start /\ ~late => ~Outstanding
    BY <1>0 DEF Owed
  <2> QED BY <1>4, <2>1, <2>2
<1>6. ASSUME Busy, slot' = slot, drv.state \notin {"readWait", "writeWait"},
             drv.state = "start" => drv'.state = "start" \/ slot = Nothing
      PROVE  Owed'
  <2>1. ~late => ~Outstanding
    BY <1>0, <1>3, <1>6 DEF Owed
  <2>2. drv.running /\ Asked /\ ~slot[4] => drv.state = "start"
    BY <1>0, <1>6 DEF Owed
  <2>3. Asked => slot # Nothing
    BY EmptySlot
  <2> QED BY <1>3, <1>4, <1>6, <2>1, <2>2, <2>3
<1>7. CASE Busy /\ WaitTurn
  <2>1. /\ slot' = slot /\ drv'.state = drv.state /\ ~drv'.ready /\ drv'.track = drv.track
        /\ drv'.blk = drv.blk /\ drv.state \in {"readWait", "writeWait"}
    BY <1>7 DEF WaitTurn, Steady, Keeps
  <2>2. Asked /\ ~slot[4] => ~late /\ drv.state \in {"readWait", "writeWait"}
    BY <1>0, <1>3, <1>7, <2>1 DEF Owed
  <2>3. ~late /\ Outstanding =>
               /\ drv.state = (IF Oldest[1] THEN "readWait" ELSE "writeWait")
               /\ Oldest[2] = drv.track /\ Oldest[3] = drv.blk
    BY <1>0, <1>3, <1>7 DEF Owed
  <2>4. drv'.running /\ Asked /\ ~slot[4] =>
               drv'.state = "start" \/ (~late /\ drv'.state \in {"readWait", "writeWait"})
    BY <2>1, <2>2
  <2>5. drv'.running /\ ~late /\ Outstanding =>
               /\ drv'.state = (IF Oldest[1] THEN "readWait" ELSE "writeWait") /\ ~drv'.ready
               /\ Oldest[2] = drv'.track /\ Oldest[3] = drv'.blk
    BY <2>1, <2>3
  <2> QED BY <1>4, <2>1, <2>4, <2>5
<1>8. CASE Busy /\ (LoadTurn \/ DoneTurn)
  <2>1. slot' = slot /\ drv.ready /\ drv.state \in {"readWait", "writeWait"}
    BY <1>8 DEF LoadTurn, DoneTurn, Steady
  <2>2. ~late => ~Outstanding
    BY <1>0, <1>3, <1>8, <2>1 DEF Owed
  <2>3. ~(Asked /\ ~slot[4])
    BY <1>0, <1>3, <1>8, <2>1, <2>2 DEF Owed, Outstanding
  <2> QED BY <1>4, <2>1, <2>2, <2>3
<1>9. CASE Busy /\ IdleTurn
  BY <1>6, <1>9 DEF IdleTurn, Steady
<1>10. CASE Busy /\ SectorTurn
  BY <1>6, <1>10 DEF SectorTurn
<1>11. CASE Busy /\ FillTurn
  BY <1>6, <1>11 DEF FillTurn
<1>12. CASE Busy /\ NextTurn
  BY <1>6, <1>12 DEF NextTurn, Steady
<1>13. ASSUME Busy, NEW isRead \in BOOLEAN, NEW from \in {"start", "blockWrite"}, NEW next \in States,
              AskTurn(isRead, from, next), next = (IF isRead THEN "readWait" ELSE "writeWait")
       PROVE  Owed'
  <2>1. drv.state = from /\ drv'.track = drv.track /\ drv'.blk = drv.blk /\ drv'.read = drv.read
    BY <1>13 DEF AskTurn, Keeps
  <2>2. CASE sdMode
    <3>1. slot = Nothing
      BY <1>0, <2>2 DEF Owed
    <3>2. slot' = slot
      BY <1>13, <2>2 DEF AskTurn, SdRequest
    <3> QED BY <1>6, <1>13, <2>1, <3>1, <3>2
  <2>3. CASE ~sdMode /\ slot' = slot /\ drv'.state = from
    BY <1>6, <1>13, <2>1, <2>3
  <2>4. CASE /\ ~sdMode /\ slot = Nothing /\ slot' = <<isRead, drv.track, drv.blk, late>>
             /\ drv'.state = next /\ ~drv'.ready /\ UNCHANGED <<buf, medium, failed>>
    <3>1. /\ Asked' /\ slot'[1] = isRead /\ slot'[2] = drv.track /\ slot'[3] = drv.blk /\ slot'[4] = late
      BY <2>4, NewRequest
    <3>2. ~late => queue = <<>> /\ host = "idle"
      BY <1>0, <1>3, <1>13, <2>1, WorkQuiet
    <3>3. ~reg'.start /\ n64.phase # "written"
      BY <1>2, <1>3, <1>13, <2>1
    <3>4. ~late => queue' = <<>> /\ Oldest' = slot' /\ Len(queue') <= 1
      <4>1. Len(<<>>) = 0
        OBVIOUS
      <4> QED BY <1>1, <3>2, <4>1 DEF Oldest
    <3>5. host' # "idle" => queue' # <<>>
      BY <1>0, <1>1 DEF Owed
    <3>6. drv'.state = (IF isRead THEN "readWait" ELSE "writeWait")
      BY <1>13, <2>4
    <3>7. Asked' /\ ~slot'[4] =>
          /\ queue' = <<>>
          /\ drv'.running => drv'.state = "start" \/ (~late' /\ drv'.state \in {"readWait", "writeWait"})
      BY <1>1, <3>1, <3>4, <3>6
    <3>8. ~late' =>
            /\ drv'.state = (IF Oldest'[1] THEN "readWait" ELSE "writeWait") /\ ~drv'.ready
            /\ Oldest'[2] = drv'.track /\ Oldest'[3] = drv'.blk /\ ~Oldest'[4]
      BY <1>1, <2>1, <2>4, <3>1, <3>4, <3>6
    <3> HIDE DEF Asked, Outstanding, Oldest
    <3>9. ~late' => ~(reg'.start \/ snap'.start \/ n64'.phase = "written")
      BY <1>1, <1>2, <3>3
    <3>10. ~sdMode'
      BY <1>1, <2>4
    <3>11. ~late' => Len(queue') <= 1 /\ queue' = <<>>
      BY <1>1, <3>4
    <3> QED BY <3>5, <3>7, <3>8, <3>9, <3>10, <3>11 DEF Owed
  <2> QED BY <1>13, <2>2, <2>3, <2>4 DEF AskTurn
<1>14. CASE Busy /\ AskTurn(TRUE, "start", "readWait")
  BY <1>13, <1>14 DEF States
<1>15. CASE Busy /\ AskTurn(FALSE, "blockWrite", "writeWait")
  BY <1>13, <1>15 DEF States
<1> QED BY <1>1, <1>5, <1>7, <1>8, <1>9, <1>10, <1>11, <1>12, <1>14, <1>15 DEF Turns

\* A turn leaves the data of a write alone until its request is sent.
LEMMA WorkSent ==
  ASSUME ControlInv, DataInv, Work
  PROVE  Sent'
<1>0. /\ WayType /\ DataType /\ Owed /\ Sent /\ Filled /\ drv \in Drives
  BY WorkFacts DEF DataInv
<1>1. /\ UNCHANGED <<queue, host, sdMode, disk, n64, disks, late>>
      /\ EndTurn \/ (Busy /\ Turns)
  BY WorkKinds
<1>2. Busy => drv.running
  BY DEF Busy
<1>4. \A i \in 1..Len(queue') : ~queue'[i][1] => InPlace(queue[i][5], queue[i])'
  BY <1>0, <1>1 DEF Sent, InPlace
<1>5. ASSUME Asked' /\ ~slot'[1] => InPlace(buf, slot)' PROVE Sent'
  BY <1>4, <1>5 DEF Sent
<1>6. ASSUME slot' = slot, buf' = buf PROVE Sent'
  <2>1. Asked' = Asked
    BY <1>6 DEF Asked
  <2>2. Asked /\ ~slot[1] => InPlace(buf, slot)'
    BY <1>0, <1>1, <1>6 DEF Sent, InPlace
  <2> QED BY <1>1, <1>6, <2>1, <2>2, <1>4 DEF Sent, InPlace
<1>7. CASE Busy /\ FillTurn
  <2>1. slot' = slot /\ ~drv.read /\ drv.cur < DataSectors /\ drv.state = "idle" /\ snap.pend
        /\ buf' = [buf EXCEPT ![drv.cur] = sec]
    BY <1>7 DEF FillTurn
  <2>2. sec # Nothing
    <3>1. PICK d \in disks : sec = <<d, drv.track, drv.blk, drv.cur, n64.ver>>
      BY <1>0, <1>2, <1>7, <2>1 DEF Filled, Pend
    <3>2. Len(<<d, drv.track, drv.blk, drv.cur, n64.ver>>) = 5 /\ Len(<<>>) = 0
      OBVIOUS
    <3> QED BY <3>1, <3>2 DEF Nothing
  <2>3. Asked => slot[4]
    BY <1>0, <1>2, <1>7, <2>1 DEF Owed
  <2>4. \A k \in Index : buf[k] # Nothing => buf'[k] # Nothing
    BY <1>0, <2>1, <2>2 DEF DataType, Buffers
  <2>5. Asked' = Asked
    BY <2>1 DEF Asked
  <2>6. Asked /\ ~slot[1] => \A k \in Index : buf[k] # Nothing
    BY <1>0 DEF Sent, InPlace
  <2> QED BY <1>4, <2>1, <2>3, <2>4, <2>5, <2>6, <1>1 DEF Sent, InPlace
<1>8. ASSUME Busy, NEW isRead \in BOOLEAN, NEW from \in States, NEW next \in States,
             AskTurn(isRead, from, next),
             ~isRead => from = "blockWrite"
      PROVE  Sent'
  <2>0. ~isRead => \A k \in Index : buf[k] # Nothing /\ (~late => Tagged(k))
    <3>1. ~isRead => drv.state = "blockWrite" /\ ~drv.read
      BY <1>2, <1>8 DEF AskTurn, ControlInv, Shaped
    <3> QED BY <1>0, <1>2, <1>8, <3>1 DEF Filled
  <2>1. CASE sdMode
    <3>1. slot = Nothing /\ ~Asked
      BY <1>0, <2>1, EmptySlot DEF Owed
    <3>2. slot' = slot
      BY <1>8, <2>1 DEF AskTurn, SdRequest
    <3>3. ~Asked'
      BY <3>1, <3>2 DEF Asked
    <3> QED BY <1>4, <1>1, <3>3 DEF Sent, InPlace
  <2>2. CASE ~sdMode /\ slot' = slot /\ UNCHANGED <<buf, medium, failed>>
    BY <1>6, <2>2
  <2>3. CASE /\ ~sdMode /\ slot = Nothing /\ slot' = <<isRead, drv.track, drv.blk, late>>
             /\ drv'.state = next /\ ~drv'.ready /\ UNCHANGED <<buf, medium, failed>>
    <3>1. /\ Asked' /\ slot'[1] = isRead /\ slot'[2] = drv.track /\ slot'[3] = drv.blk /\ slot'[4] = late
      BY <2>3, NewRequest
    <3>2. ASSUME ~isRead, NEW k \in Index
          PROVE  /\ buf'[k] # Nothing
                 /\ ~slot'[4] => /\ buf'[k][2] = slot'[2] /\ buf'[k][3] = slot'[3] /\ buf'[k][4] = k
                                 /\ ~late' => buf'[k][1] \in disks' /\ buf'[k][5] = n64'.ver
      <4>1. buf' = buf /\ buf[k] # Nothing
        BY <2>0, <2>3, <3>2
      <4>2. CASE late
        BY <3>1, <4>1, <4>2
      <4>3. CASE ~late
        <5>1. PICK d \in disks : buf[k] = <<d, drv.track, drv.blk, k, n64.ver>>
          BY <2>0, <3>2, <4>3 DEF Tagged
        <5> QED BY <1>1, <3>1, <4>1, <5>1
      <4> QED BY <4>2, <4>3
    <3> QED BY <1>4, <1>1, <3>1, <3>2 DEF Sent, InPlace
  <2> QED BY <1>8, <2>1, <2>2, <2>3 DEF AskTurn
<1>9. CASE Busy /\ AskTurn(TRUE, "start", "readWait")
  BY <1>8, <1>9 DEF States
<1>10. CASE Busy /\ AskTurn(FALSE, "blockWrite", "writeWait")
  BY <1>8, <1>10 DEF States
<1>11. CASE Steady \/ SectorTurn \/ DoneTurn
  BY <1>6, <1>11 DEF Steady, SectorTurn, DoneTurn
<1> QED BY <1>1, <1>7, <1>9, <1>10, <1>11 DEF Turns, EndTurn, IdleTurn, WaitTurn, LoadTurn, NextTurn

\* A turn keeps what was read what is on the disk.
LEMMA WorkRead ==
  ASSUME ControlInv, DataInv, Work
  PROVE  Read'
<1>0. /\ WayType /\ DataType /\ Owed /\ Read /\ drv \in Drives /\ drv' \in Drives /\ disk \in disks
  BY WorkFacts DEF DataInv, DataType
<1>1. /\ UNCHANGED <<queue, host, sdMode, disk, n64, disks, late>>
      /\ EndTurn \/ (Busy /\ Turns)
  BY WorkKinds
<1>2. Busy => drv.running
  BY DEF Busy
<1>3. DataSectors \in Nat /\ DataSectors > 0 /\ drv.cur \in Nat /\ drv'.cur \in Nat
      /\ BlockSectors = DataSectors + 4
  BY <1>0, Constants DEF Drives
<1> SUFFICES ASSUME drv'.running, ~late
             PROVE  /\ drv'.state = "readWait" /\ ((drv'.ready /\ drv'.valid) \/ host = "done") => Loaded'
                    /\ drv'.read /\ ~drv'.err /\ (drv'.state = "sectorRead" \/ (drv'.state = "idle" /\ drv'.cur <= DataSectors)) => Loaded'
                    /\ drv'.read /\ drv'.state = "idle" /\ drv'.cur \in 1..DataSectors => sec' = buf'[drv'.cur - 1]
  BY <1>1 DEF Read
<1>4. ASSUME UNCHANGED <<buf, medium>>, drv'.track = drv.track, drv'.blk = drv.blk, Loaded PROVE Loaded'
  BY <1>1, <1>4 DEF Loaded
<1>5. CASE EndTurn
  BY <1>5 DEF EndTurn
<1>6. CASE Busy /\ IdleTurn
  <2>1. /\ UNCHANGED <<sec, buf, medium>> /\ drv'.state = "idle" /\ drv.state = "idle"
        /\ drv'.read = drv.read /\ drv'.err = drv.err
        /\ drv'.cur = drv.cur \/ (drv.read /\ drv'.cur > DataSectors)
    BY <1>6 DEF IdleTurn, Steady
  <2>2. SUFFICES ASSUME drv.read, drv'.cur <= DataSectors
                 PROVE  /\ ~drv.err => Loaded'
                        /\ drv'.cur \in 1..DataSectors => sec' = buf'[drv'.cur - 1]
    BY <1>3, <2>1
  <2>3. drv'.cur = drv.cur
    BY <1>3, <2>1, <2>2
  <2>4. ~Calm
    BY <1>2, <1>3, <1>6, <2>2, <2>3 DEF Calm
  <2>5. drv'.track = drv.track /\ drv'.blk = drv.blk
    BY <1>6, <2>4 DEF IdleTurn
  <2>6. /\ ~drv.err => Loaded
        /\ drv.cur \in 1..DataSectors => sec = buf[drv.cur - 1]
    BY <1>0, <1>2, <1>6, <2>1, <2>2, <2>3 DEF Read
  <2> QED BY <1>4, <2>1, <2>3, <2>5, <2>6
<1>7. CASE Busy /\ WaitTurn
  <2>1. /\ UNCHANGED <<buf, medium>> /\ drv'.track = drv.track /\ drv'.blk = drv.blk
        /\ drv'.state = drv.state /\ ~drv'.ready /\ drv.state \in {"readWait", "writeWait"}
    BY <1>7 DEF WaitTurn, Steady, Keeps
  <2>2. drv.state = "readWait" /\ host = "done" => Loaded
    BY <1>0, <1>2, <1>7 DEF Read
  <2> QED BY <1>4, <2>1, <2>2
<1>8. CASE Busy /\ AskTurn(TRUE, "start", "readWait")
  <2>1. drv'.track = drv.track /\ drv'.blk = drv.blk /\ drv.state = "start"
    BY <1>8 DEF AskTurn, Keeps
  <2>2. host = "idle"
    BY <1>2, <1>8, <2>1, WorkQuiet DEF DataInv
  <2>3. drv'.state \in {"start", "readWait"}
    BY <1>8 DEF AskTurn
  <2>4. drv'.ready /\ drv'.valid /\ drv'.state = "readWait" => Loaded'
    <3>1. CASE ~sdMode
      BY <1>8, <3>1 DEF AskTurn
    <3>2. CASE sdMode
      <4>1. PICK d \in Drives : d.track = drv.track /\ d.blk = drv.blk /\ SdRequest(d, TRUE, "readWait")
        BY <1>8, <3>2 DEF AskTurn
      <4>2. /\ medium' = medium
            /\ drv'.valid => \A k \in Index : buf'[k] = medium[<<disk, d.track, d.blk, k>>]
        <5>1. TRUE \in BOOLEAN /\ "readWait" \in States
          BY DEF States
        <5> QED BY <1>0, <4>1, <5>1, SdMoves
      <4> QED BY <1>0, <1>1, <2>1, <4>1, <4>2 DEF Loaded
    <3> QED BY <3>1, <3>2
  <2> QED BY <2>2, <2>3, <2>4
<1>9. CASE Busy /\ LoadTurn
  <2>1. /\ UNCHANGED <<buf, medium>> /\ drv'.track = drv.track /\ drv'.blk = drv.blk /\ drv'.read = drv.read
        /\ drv.state = "readWait" /\ drv.ready /\ drv'.state = (IF drv.read THEN "sectorRead" ELSE "idle")
        /\ drv.valid \/ drv'.err
    BY <1>9 DEF LoadTurn, Steady, Keeps
  <2>2. drv.valid => Loaded
    BY <1>0, <1>2, <1>9, <2>1 DEF Read
  <2>3. CASE drv.read
    BY <1>4, <2>1, <2>2, <2>3
  <2>4. CASE ~drv.read
    BY <2>1, <2>4
  <2> QED BY <2>3, <2>4
<1>10. CASE Busy /\ SectorTurn
  <2>1. /\ UNCHANGED <<buf, medium>> /\ drv'.track = drv.track /\ drv'.blk = drv.blk
        /\ drv.read /\ drv.cur < DataSectors /\ (drv.state = "sectorRead" \/ drv.state = "idle")
        /\ sec' = buf[drv.cur] /\ drv'.state = "idle" /\ drv'.cur = drv.cur + 1 /\ drv'.err = drv.err
    BY <1>10 DEF SectorTurn, Keeps
  <2>2. ~drv.err => Loaded
    BY <1>0, <1>2, <1>3, <1>10, <2>1 DEF Read
  <2>3. drv'.cur - 1 = drv.cur
    BY <1>3, <2>1
  <2> QED BY <1>4, <2>1, <2>2, <2>3
<1>11. CASE Busy /\ FillTurn
  <2>1. ~drv'.read /\ drv'.state # "readWait"
    BY <1>11 DEF FillTurn, Keeps
  <2> QED BY <2>1
<1>12. CASE Busy /\ AskTurn(FALSE, "blockWrite", "writeWait")
  <2>1. drv'.state \in {"blockWrite", "writeWait"}
    BY <1>12 DEF AskTurn
  <2> QED BY <2>1
<1>13. CASE Busy /\ DoneTurn
  BY <1>13 DEF DoneTurn
<1>14. CASE Busy /\ NextTurn
  <2>1. drv'.state = "start" \/ (drv.state = "nextBlock" /\ drv'.state = "idle")
    BY <1>14 DEF NextTurn
  <2>2. drv.state = "nextBlock" => ~drv'.read
    BY <1>2, <1>14 DEF NextTurn, ControlInv, Shaped
  <2> QED BY <2>1, <2>2
<1> QED BY <1>1, <1>5, <1>6, <1>7, <1>8, <1>9, <1>10, <1>11, <1>12, <1>13, <1>14 DEF Turns

\* A turn does not call a write done before it is on the disk.
LEMMA WorkWrote ==
  ASSUME ControlInv, DataInv, Work
  PROVE  Wrote'
<1>0. /\ WayType /\ DataType /\ Owed /\ Filled /\ Wrote /\ drv \in Drives /\ drv' \in Drives /\ disk \in disks
      /\ ControlInv'
  BY WorkFacts, WorkControl DEF DataInv, DataType
<1>1. /\ UNCHANGED <<queue, host, sdMode, disk, n64, disks, late>>
      /\ EndTurn \/ (Busy /\ Turns)
  BY WorkKinds
<1>2. Busy => drv.running /\ (reg.start <=> reg'.start)
  BY WorkFacts DEF Busy
<1>3. DataSectors \in Nat /\ DataSectors > 0 /\ drv.cur \in Nat /\ drv'.cur \in Nat
      /\ BlockSectors = DataSectors + 4
  BY <1>0, Constants DEF Drives
<1>4. n64.phase = "written" /\ drv.running => drv.state = "idle"
  BY WorkFacts
<1> SUFFICES ASSUME ~late, disks = {disk}
             PROVE  /\ drv'.running /\ drv'.state = "writeWait" /\ ((drv'.ready /\ drv'.valid) \/ host = "done")
                         => Has(drv.track, drv.blk)'
                    /\ drv'.running /\ drv'.state = "nextBlock" /\ ~failed' => Has(drv.track, drv.blk)'
                    /\ WriteEnd' /\ ~failed' => Has(n64.track, n64.blk)'
  BY <1>1 DEF Wrote, Has
<1>5. ASSUME medium' = medium, Has(n64.track, n64.blk) PROVE Has(n64.track, n64.blk)'
  BY <1>1, <1>5 DEF Has
<1>6. n64.phase = "written" /\ ~failed => Has(n64.track, n64.blk)
  BY <1>0 DEF Wrote, WriteEnd
\* Most turns leave the medium, and the end of a write is none of them.
<1>7. ASSUME UNCHANGED <<medium, failed>>,
             drv'.running => drv'.state # "writeWait" /\ drv'.state # "nextBlock",
             drv'.running /\ drv'.state = "idle" /\ drv'.cur = DataSectors /\ ~drv'.read =>
               Busy /\ drv.state = "idle" /\ drv.cur = DataSectors
      PROVE  /\ drv'.running /\ drv'.state = "writeWait" /\ ((drv'.ready /\ drv'.valid) \/ host = "done")
                         => Has(drv.track, drv.blk)'
             /\ drv'.running /\ drv'.state = "nextBlock" /\ ~failed' => Has(drv.track, drv.blk)'
             /\ WriteEnd' /\ ~failed' => Has(n64.track, n64.blk)'
  <2>1. SUFFICES ASSUME WriteEnd', ~failed' PROVE Has(n64.track, n64.blk)'
    BY <1>7
  <2>2. CASE n64.phase = "written"
    <3>1. Has(n64.track, n64.blk)
      BY <1>6, <1>7, <2>1, <2>2
    <3> QED BY <1>5, <1>7, <3>1
  <2>3. CASE /\ n64.phase = "wait" /\ ~reg'.start /\ ~n64.read /\ drv'.state = "idle" /\ drv'.cur = DataSectors
             /\ drv'.running
    <3>1. drv'.read = n64'.read
      BY <1>0, <1>1, <2>3 DEF ControlInv, InTransfer, Live
    <3>2. Busy /\ drv.state = "idle" /\ drv.cur = DataSectors
      BY <1>1, <1>7, <2>3, <3>1
    <3>3. WriteEnd
      BY <1>1, <1>2, <2>3, <3>2 DEF WriteEnd
    <3>4. Has(n64.track, n64.blk)
      BY <1>0, <1>7, <2>1, <3>3 DEF Wrote
    <3> QED BY <1>5, <1>7, <3>4
  <2> QED BY <1>1, <2>1, <2>2, <2>3 DEF WriteEnd
<1>8. CASE EndTurn
  BY <1>7, <1>8 DEF EndTurn, Steady
<1>9. CASE Busy /\ IdleTurn
  <2>1. /\ UNCHANGED <<medium, failed>> /\ drv'.state = "idle" /\ drv.state = "idle"
        /\ drv'.read = drv.read
        /\ drv'.cur = drv.cur \/ (drv.read /\ drv'.cur > DataSectors)
    BY <1>9 DEF IdleTurn, Steady
  <2>2. drv'.cur = DataSectors /\ ~drv'.read => drv.cur = DataSectors
    BY <1>3, <2>1
  <2> QED BY <1>7, <1>9, <2>1, <2>2
<1>10. CASE Busy /\ LoadTurn
  <2>1. UNCHANGED <<medium, failed>> /\ drv'.cur = 0 /\ drv'.state \in {"idle", "sectorRead"}
    BY <1>10 DEF LoadTurn, Steady
  <2> QED BY <1>3, <1>7, <2>1
<1>11. CASE Busy /\ SectorTurn
  <2>1. UNCHANGED <<medium, failed>> /\ drv'.read = drv.read /\ drv.read /\ drv'.state = "idle"
    BY <1>11 DEF SectorTurn, Keeps
  <2> QED BY <1>7, <2>1
<1>12. CASE Busy /\ FillTurn
  <2>1. /\ UNCHANGED <<medium, failed>> /\ drv'.cur = drv.cur + 1
        /\ drv'.state = (IF drv.cur + 1 < DataSectors THEN "idle" ELSE "blockWrite")
    BY <1>12 DEF FillTurn
  <2>2. drv'.state = "idle" => drv'.cur # DataSectors
    BY <1>3, <2>1
  <2> QED BY <1>7, <2>1, <2>2
<1>13. CASE Busy /\ AskTurn(TRUE, "start", "readWait")
  <2>1. medium' = medium /\ failed' = failed /\ drv'.state \in {"start", "readWait"}
    BY <1>13 DEF AskTurn, SdRequest
  <2> QED BY <1>7, <2>1
<1>14. CASE Busy /\ WaitTurn
  <2>1. /\ UNCHANGED <<medium, failed>> /\ drv'.track = drv.track /\ drv'.blk = drv.blk
        /\ drv'.state = drv.state /\ ~drv'.ready /\ drv.state \in {"readWait", "writeWait"}
    BY <1>14 DEF WaitTurn, Steady, Keeps
  <2>2. drv.state = "writeWait" /\ host = "done" => Has(drv.track, drv.blk)
    BY <1>0, <1>2, <1>14 DEF Wrote
  <2>3. WriteEnd' => n64.phase = "written"
    BY <1>1, <2>1 DEF WriteEnd
  <2>4. n64.phase # "written"
    BY <1>2, <1>4, <1>14, <2>1
  <2>5. Has(drv.track, drv.blk) => Has(drv.track, drv.blk)'
    BY <1>1, <2>1 DEF Has
  <2> QED BY <2>1, <2>2, <2>3, <2>4, <2>5
<1>15. CASE Busy /\ AskTurn(FALSE, "blockWrite", "writeWait")
  <2>1. /\ drv'.track = drv.track /\ drv'.blk = drv.blk /\ drv.state = "blockWrite"
        /\ drv'.state \in {"blockWrite", "writeWait"}
    BY <1>15 DEF AskTurn, Keeps
  <2>2. host = "idle"
    BY <1>2, <1>15, <2>1, WorkQuiet DEF DataInv
  <2>3. n64.phase # "written" /\ ~WriteEnd'
    BY <1>1, <1>2, <1>4, <1>15, <2>1 DEF WriteEnd
  <2>4. drv'.ready /\ drv'.valid /\ drv'.state = "writeWait" => Has(drv.track, drv.blk)'
    <3>1. CASE ~sdMode
      BY <1>15, <3>1 DEF AskTurn
    <3>2. CASE sdMode
      <4>1. PICK d \in Drives : d.track = drv.track /\ d.blk = drv.blk /\ SdRequest(d, FALSE, "writeWait")
        BY <1>15, <3>2 DEF AskTurn
      <4>2. ~drv.read
        BY <1>2, <1>15, <2>1 DEF ControlInv, Shaped
      <4>3. \A k \in Index : buf[k] # Nothing /\ Tagged(k)
        BY <1>0, <1>2, <1>15, <2>1, <4>2 DEF Filled
      <4>4. drv'.valid => \A k \in Index : medium'[<<disk, d.track, d.blk, k>>] = buf[k]
        <5>1. FALSE \in BOOLEAN /\ "writeWait" \in States
          BY DEF States
        <5> QED BY ZenonT(30), <1>0, <4>1, <4>3, <5>1, SdMoves
      <4>5. \A k \in Index : buf[k] = <<disk, drv.track, drv.blk, k, n64.ver>>
        BY <4>3 DEF Tagged
      <4> QED BY <1>1, <2>1, <4>1, <4>4, <4>5 DEF Has
    <3> QED BY <3>1, <3>2
  <2> QED BY <2>1, <2>2, <2>3, <2>4
<1>16. CASE Busy /\ DoneTurn
  <2>1. /\ medium' = medium /\ drv'.track = drv.track /\ drv'.blk = drv.blk /\ drv.state = "writeWait"
        /\ drv.ready /\ drv'.state = "nextBlock" /\ failed' = (failed \/ ~drv.valid)
    BY <1>16 DEF DoneTurn, Keeps
  <2>2. ~WriteEnd'
    BY <1>1, <1>2, <1>4, <1>16, <2>1 DEF WriteEnd
  <2>3. ~failed' => Has(drv.track, drv.blk)
    BY <1>0, <1>2, <1>16, <2>1 DEF Wrote
  <2>4. Has(drv.track, drv.blk) => Has(drv.track, drv.blk)'
    BY <1>1, <2>1 DEF Has
  <2> QED BY <2>1, <2>2, <2>3, <2>4
<1>17. CASE Busy /\ NextTurn /\ drv'.state = "start"
  BY <1>7, <1>17 DEF NextTurn, Steady
<1>18. CASE Busy /\ NextTurn /\ drv'.state # "start"
  <2>1. /\ UNCHANGED <<medium, failed>> /\ drv.state = "nextBlock" /\ drv'.state = "idle"
        /\ drv'.blk = drv.blk /\ drv'.track = drv.track /\ drv'.cur = DataSectors
    BY <1>18 DEF NextTurn, Steady
  <2>2. SUFFICES ASSUME WriteEnd', ~failed' PROVE Has(n64.track, n64.blk)'
    BY <2>1
  <2>3. Has(drv.track, drv.blk)
    BY <1>0, <1>2, <1>18, <2>1, <2>2 DEF Wrote
  <2>4. n64.phase = "wait" /\ ~reg'.start /\ ~n64.read
    BY <1>1, <1>2, <1>4, <1>18, <2>1, <2>2 DEF WriteEnd
  <2>5. Live' /\ drv'.track = n64'.track
    BY <1>0, <1>1, <2>4 DEF ControlInv, InTransfer, AtRest, Going, Phase
  <2>6. ~drv'.read /\ drv'.cur = DataSectors /\ drv'.state = "idle" /\ n64'.phase = "wait"
        /\ n64'.k \in 0..DataSectors
    BY <1>0, <1>1, <2>1, <2>4, <2>5 DEF Live, ControlInv, ControlType, GameType
  <2>7. Told'
    <3>1. ~Moved'
      BY <1>3, <2>6 DEF Moved
    <3> QED BY <1>3, <2>5, <2>6, <3>1 DEF Live, Loading, Gap, AtGame, Writing
  <2>8. Same'
    BY <1>3, <2>6, <2>7 DEF Told, AtSector
  <2>9. drv'.blk = n64'.blk
    BY <2>8 DEF Same
  <2> QED BY <1>1, <2>1, <2>3, <2>5, <2>9 DEF Has
<1> QED BY <1>1, <1>8, <1>9, <1>10, <1>11, <1>12, <1>13, <1>14, <1>15, <1>16, <1>17, <1>18 DEF Turns

\* What the other actions leave of the block buffer, of what was read and of
\* what was written.
LEMMA FilledKept ==
  ASSUME Filled, Others(drv, drv'), drv'.state = drv.state, late' = late, n64'.ver = n64.ver,
         disks \subseteq disks',
         \A k \in Index : buf[k] # Nothing => buf'[k] # Nothing,
         ~late /\ drv.running /\ drv.state \in {"idle", "blockWrite"} => buf' = buf,
         drv.cur \in Nat,
         drv.running /\ ~drv.read /\ Pend' /\ drv.cur < DataSectors =>
           \E d \in disks' : sec' = <<d, drv.track, drv.blk, drv.cur, n64.ver>>
  PROVE  Filled'
<1>1. /\ drv'.read = drv.read /\ drv'.blk = drv.blk /\ drv'.track = drv.track /\ drv'.cur = drv.cur
      /\ drv'.running = drv.running
  BY DEF Others
<1>2. SUFFICES ASSUME drv.running, ~drv.read
               PROVE  /\ Pend' /\ drv.cur < DataSectors =>
                           \E d \in disks' : sec' = <<d, drv.track, drv.blk, drv.cur, n64.ver>>
                      /\ drv.state = "idle" /\ drv.cur < DataSectors =>
                           \A k \in 0..drv.cur - 1 : buf'[k] # Nothing /\ (~late => Tagged(k)')
                      /\ drv.state = "blockWrite" =>
                           \A k \in Index : buf'[k] # Nothing /\ (~late => Tagged(k)')
  BY <1>1 DEF Filled
<1>3. \A k : drv.state \in {"idle", "blockWrite"} /\ ~late /\ Tagged(k) => Tagged(k)'
  BY <1>1, <1>2 DEF Tagged
<1>4. drv.cur < DataSectors => 0..drv.cur - 1 \subseteq Index
  BY Constants DEF Index
<1>5. /\ drv.state = "idle" /\ drv.cur < DataSectors =>
           \A k \in 0..drv.cur - 1 : buf[k] # Nothing /\ (~late => Tagged(k))
      /\ drv.state = "blockWrite" => \A k \in Index : buf[k] # Nothing /\ (~late => Tagged(k))
  BY <1>2 DEF Filled
<1> QED BY <1>2, <1>3, <1>4, <1>5

\* The same of what was read.
LEMMA ReadKept ==
  ASSUME Read, Others(drv, drv'), drv'.state = drv.state, late' = late, disks \subseteq disks',
         ~late /\ drv.running /\ drv.state \in {"idle", "sectorRead"} => buf' = buf /\ medium' = medium,
         drv.running /\ drv.read => sec' = sec,
         drv.running /\ ~late /\ drv.state = "readWait" /\ ((drv'.ready /\ drv'.valid) \/ host' = "done")
           => Loaded'
  PROVE  Read'
<1>1. /\ drv'.read = drv.read /\ drv'.blk = drv.blk /\ drv'.track = drv.track /\ drv'.cur = drv.cur
      /\ drv'.running = drv.running /\ drv'.err = drv.err
  BY DEF Others
<1>2. SUFFICES ASSUME drv.running, ~late, drv.read, drv.state \in {"idle", "sectorRead"}
               PROVE  /\ Loaded => Loaded'
                      /\ drv.cur \in 1..DataSectors /\ sec = buf[drv.cur - 1] => sec' = buf'[drv.cur - 1]
  BY <1>1 DEF Read
<1> QED BY <1>1, <1>2 DEF Loaded

\* The same of what was written.
LEMMA WroteKept ==
  ASSUME Wrote, Others(drv, drv'), drv'.state = drv.state, late' = late, n64'.ver = n64.ver,
         ~late /\ disks' = {disk'} => disks = {disk} /\ disk' = disk,
         failed' = failed,
         ~late /\ drv.running /\ drv.state = "nextBlock" => medium' = medium,
         ~late /\ WriteEnd' =>
           WriteEnd /\ medium' = medium /\ n64'.track = n64.track /\ n64'.blk = n64.blk,
         ~late /\ disks = {disk} /\ disk' = disk /\ drv.running /\ drv.state = "writeWait"
           /\ ((drv'.ready /\ drv'.valid) \/ host' = "done") => Has(drv.track, drv.blk)'
  PROVE  Wrote'
<1>1. /\ drv'.blk = drv.blk /\ drv'.track = drv.track /\ drv'.running = drv.running
  BY DEF Others
<1> SUFFICES ASSUME ~late, disks = {disk}, disk' = disk
             PROVE  /\ drv.running /\ drv.state = "writeWait" /\ ((drv'.ready /\ drv'.valid) \/ host' = "done")
                         => Has(drv.track, drv.blk)'
                    /\ drv.running /\ drv.state = "nextBlock" /\ ~failed => Has(drv.track, drv.blk)'
                    /\ WriteEnd' /\ ~failed => Has(n64.track, n64.blk)'
  BY <1>1 DEF Wrote
<1>2. ASSUME drv.running, drv.state = "nextBlock", ~failed PROVE Has(drv.track, drv.blk)'
  <2>1. Has(drv.track, drv.blk)
    BY <1>2 DEF Wrote
  <2> QED BY <1>1, <1>2, <2>1 DEF Has
<1>3. ASSUME WriteEnd', ~failed PROVE Has(n64.track, n64.blk)'
  <2>1. Has(n64.track, n64.blk)
    BY <1>3 DEF Wrote
  <2> QED BY <1>3, <2>1 DEF Has
<1> QED BY <1>2, <1>3

\* The requests on their way keep what they were sent with.
LEMMA SentKept ==
  ASSUME Sent, late' = late, n64'.ver = n64.ver, disks \subseteq disks', slot' = slot \/ ~Asked',
         \A k \in Index : buf[k] # Nothing => buf'[k] # Nothing,
         Asked /\ ~slot[4] => buf' = buf,
         \A i \in 1..Len(queue') : \/ queue'[i][1]
                                   \/ \E j \in 1..Len(queue) : queue'[i] = queue[j]
  PROVE  Sent'
<1>1. \A b, r : InPlace(b, r) => InPlace(b, r)'
  BY DEF InPlace
<1>2. ASSUME Asked', ~slot'[1] PROVE InPlace(buf, slot)'
  <2>1. slot' = slot /\ Asked /\ ~slot[1]
    BY <1>2 DEF Asked
  <2>2. InPlace(buf, slot)
    BY <2>1 DEF Sent
  <2> QED BY <2>1, <2>2 DEF InPlace
<1>3. ASSUME NEW i \in 1..Len(queue'), ~queue'[i][1] PROVE InPlace(queue[i][5], queue[i])'
  <2>1. PICK j \in 1..Len(queue) : queue'[i] = queue[j]
    BY <1>3
  <2>2. InPlace(queue[j][5], queue[j])
    BY <1>3, <2>1 DEF Sent
  <2> QED BY <2>1, <2>2 DEF InPlace
<1> QED BY <1>2, <1>3 DEF Sent

\* With the drive as it was, what is owed can change by the way only.
LEMMA OwedKept ==
  ASSUME Owed, Others(drv, drv'), drv'.state = drv.state, drv'.ready = drv.ready,
         UNCHANGED <<slot, queue, sdMode, late>>, host' # "idle" => host # "idle" \/ queue # <<>>,
         sdMode => host' = "idle",
         reg'.start \/ snap'.start \/ n64'.phase = "written" =>
           \/ reg.start \/ snap.start \/ n64.phase = "written"
           \/ ~late => ~Outstanding
  PROVE  Owed'
<1>1. /\ drv'.blk = drv.blk /\ drv'.track = drv.track /\ drv'.running = drv.running
  BY DEF Others
<1>2. Asked' = Asked /\ Outstanding' = Outstanding /\ Oldest' = Oldest
  BY DEF Asked, Outstanding, Oldest
<1> QED BY <1>1, <1>2 DEF Owed

\* To read the status register changes nothing of the data.
LEMMA ScanData ==
  ASSUME ControlInv, DataInv, Scan
  PROVE  DataInv'
<1>0. /\ WayType /\ DataType /\ Filled /\ Owed /\ Sent /\ Read /\ Wrote /\ drv \in Drives
  BY DEF DataInv, ControlInv, ControlType
<1>1. /\ UNCHANGED <<reg, sec, buf, drv, slot, queue, host, sdMode, disk, medium, n64, disks, late, failed>>
      /\ snap'.start = reg.start /\ snap'.pend = reg.pend
  BY DEF Scan, ways, history
<1>2. Others(drv, drv') /\ (Pend' => Pend) /\ drv.cur \in Nat /\ drv' = drv
  BY <1>0, <1>1, Constants DEF Others, Pend, Drives
<1>3. WayType' /\ DataType'
  BY <1>0, <1>1 DEF WayType, DataType
<1>4. Filled'
  <2>1. drv.running /\ ~drv.read /\ Pend' /\ drv.cur < DataSectors =>
           \E d \in disks' : sec' = <<d, drv.track, drv.blk, drv.cur, n64.ver>>
    BY <1>0, <1>1, <1>2 DEF Filled
  <2> QED BY <1>0, <1>1, <1>2, <2>1, FilledKept
<1>5. Owed'
  <2>1. reg'.start \/ snap'.start \/ n64'.phase = "written" => reg.start \/ snap.start \/ n64.phase = "written"
    BY <1>1
  <2>2. UNCHANGED <<slot, queue, sdMode, late>> /\ host' = host /\ drv'.state = drv.state /\ drv'.ready = drv.ready
    BY <1>1, <1>2
  <2>3. sdMode => host' = "idle"
    BY <1>0, <1>1 DEF Owed
  <2> QED BY <1>0, <1>2, <2>1, <2>2, <2>3, OwedKept
<1>6. Sent'
  BY <1>0, <1>1 DEF Sent, InPlace, Asked
<1>7. Read'
  BY <1>0, <1>1 DEF Read, Loaded
<1>8. Wrote'
  BY <1>0, <1>1 DEF Wrote, Has, WriteEnd
<1> QED BY <1>3, <1>4, <1>5, <1>6, <1>7, <1>8 DEF DataInv

\* The timer, another packet, a reset of the link and the button.
LEMMA LinkData ==
  ASSUME ControlInv, DataInv, SpinsUp \/ OtherPacket \/ LinkReset \/ Button
  PROVE  DataInv'
<1>0. /\ WayType /\ DataType /\ Filled /\ Owed /\ Sent /\ Read /\ Wrote /\ drv \in Drives
  BY DEF DataInv, ControlInv, ControlType
<1>1. /\ Others(drv, drv') /\ drv'.state = drv.state /\ UNCHANGED <<reg, snap, turn, n64>>
      /\ drv.cur \in Nat
  BY <1>0, WayControl, Constants DEF Drives
<1>2. /\ UNCHANGED <<sec, buf, sdMode, medium, late, failed>>
      /\ drv'.ready = drv.ready /\ drv'.valid = drv.valid
  BY <1>0 DEF SpinsUp, OtherPacket, LinkReset, Button, others, ways, history, Drives
<1>3. /\ \/ disk' = disk /\ disks' = disks
         \/ disks' = disks \cup {disk'} /\ disk' \in DiskId
      /\ \/ UNCHANGED <<slot, queue, host>>
         \/ ~sdMode /\ slot' = <<"other">> /\ slot = Nothing /\ UNCHANGED <<queue, host>>
         \/ ~sdMode /\ slot' = Nothing /\ queue' = <<>> /\ host' = "idle"
  <2>1. CASE SpinsUp
    BY <2>1 DEF SpinsUp, ways, history
  <2>2. CASE OtherPacket
    BY <2>2 DEF OtherPacket, history
  <2>3. CASE LinkReset
    BY <2>3 DEF LinkReset
  <2>4. CASE Button
    <3>1. disk' = disk \/ disk' = (disk + 1) % Disks
      BY <2>4 DEF Button
    <3>2. disk \in 0..Disks - 1 /\ Disks \in Nat \ {0}
      BY <1>0, SizesAssumption DEF DataType, DiskId
    <3>3. disk' \in DiskId
      BY <3>1, <3>2 DEF DiskId
    <3> QED BY <2>4, <3>3 DEF Button, ways
  <2> QED BY <2>1, <2>2, <2>3, <2>4
<1>4. /\ disks \subseteq disks' /\ disk' \in disks' /\ disks' \subseteq DiskId
      /\ disks' = {disk'} => disks = {disk} /\ disk' = disk
      /\ disk \in disks
  BY <1>0, <1>3 DEF DataType
<1>5. Len(<<"other">>) = 1 /\ Len(<<>>) = 0 /\ <<"other">> \in {<<"other">>}
  OBVIOUS
<1>6. slot' = slot \/ ~Asked'
  BY <1>3, <1>5 DEF Asked, Nothing
<1>7. WayType' /\ DataType'
  <2>1. WayType'
    <3>1. queue' \in Seq(Packets)
      <4>1. queue' = queue \/ queue' = <<>>
        BY <1>3
      <4>2. queue \in Seq(Packets) /\ <<>> \in Seq(Packets)
        BY <1>0 DEF WayType
      <4> QED BY <4>1, <4>2
    <3>2. slot' \in Requests \cup {Nothing, <<"other">>}
      <4> DEFINE o == <<"other">>
      <4>1. slot' = slot \/ slot' = o \/ slot' = Nothing
        BY <1>3
      <4>2. slot \in Requests \cup {Nothing, o}
        BY <1>0 DEF WayType
      <4> HIDE DEF o
      <4>3. slot' \in Requests \cup {Nothing, o}
        BY <4>1, <4>2
      <4> QED BY <4>3 DEF o
    <3>3. host' \in {"idle", "done", "failed"} /\ sdMode' \in BOOLEAN
      BY <1>0, <1>2, <1>3 DEF WayType
    <3> QED BY <3>1, <3>2, <3>3 DEF WayType
  <2>2. DataType'
    BY <1>0, <1>2, <1>4 DEF DataType
  <2> QED BY <2>1, <2>2
<1>8. Filled'
  <2>1. Pend' = Pend
    BY <1>1 DEF Pend
  <2>2. drv.running /\ ~drv.read /\ Pend' /\ drv.cur < DataSectors =>
           \E d \in disks' : sec' = <<d, drv.track, drv.blk, drv.cur, n64.ver>>
    BY <1>0, <1>2, <1>4, <2>1 DEF Filled
  <2> QED BY <1>0, <1>1, <1>2, <1>4, <2>2, FilledKept
<1>9. Owed'
  <2>1. CASE UNCHANGED <<slot, queue, host>>
    BY <1>0, <1>1, <1>2, <2>1, OwedKept DEF Owed
  <2>2. CASE ~sdMode /\ slot' = <<"other">> /\ slot = Nothing /\ UNCHANGED <<queue, host>>
    <3>1. ~Asked /\ ~Asked' /\ (Outstanding' <=> Outstanding) /\ (Outstanding => Oldest' = Oldest)
      BY <1>5, <2>2 DEF Asked, Outstanding, Oldest, Nothing
    <3> QED BY <1>0, <1>1, <1>2, <2>2, <3>1 DEF Owed, Others
  <2>3. CASE ~sdMode /\ slot' = Nothing /\ queue' = <<>> /\ host' = "idle"
    <3>1. ~Asked' /\ ~Outstanding' /\ Len(queue') = 0
      BY <1>5, <2>3 DEF Asked, Outstanding, Nothing
    <3> QED BY <1>2, <2>3, <3>1 DEF Owed
  <2> QED BY <1>3, <2>1, <2>2, <2>3
<1>10. Sent'
  <2>1. \A i \in 1..Len(queue') : \E j \in 1..Len(queue) : queue'[i] = queue[j]
    BY <1>3, <1>5
  <2> QED BY <1>0, <1>1, <1>2, <1>4, <1>6, <2>1, SentKept
<1>11. host' = "done" => host = "done"
  BY <1>3
<1>12. Read'
  <2>1. Loaded => Loaded'
    BY <1>1, <1>2, <1>4 DEF Loaded, Others
  <2>2. drv.running /\ ~late /\ drv.state = "readWait" /\ ((drv'.ready /\ drv'.valid) \/ host' = "done")
          => Loaded'
    BY <1>0, <1>2, <1>11, <2>1 DEF Read
  <2> QED BY <1>0, <1>1, <1>2, <1>4, <2>2, ReadKept
<1>13. Wrote'
  <2>1. WriteEnd' => WriteEnd
    BY <1>1 DEF WriteEnd, Others
  <2>2. ~late /\ disks = {disk} /\ disk' = disk /\ drv.running /\ drv.state = "writeWait"
          /\ ((drv'.ready /\ drv'.valid) \/ host' = "done") => Has(drv.track, drv.blk)'
    <3>1. ~late /\ disks = {disk} /\ drv.running /\ drv.state = "writeWait"
          /\ ((drv'.ready /\ drv'.valid) \/ host' = "done") => Has(drv.track, drv.blk)
      BY <1>0, <1>2, <1>11 DEF Wrote
    <3>2. disk' = disk /\ Has(drv.track, drv.blk) => Has(drv.track, drv.blk)'
      BY <1>1, <1>2 DEF Has, Others
    <3> QED BY <3>1, <3>2
  <2> QED BY <1>0, <1>1, <1>2, <1>4, <2>1, <2>2, WroteKept
<1> QED BY <1>7, <1>8, <1>9, <1>10, <1>12, <1>13 DEF DataInv

\* A packet takes its request, and the data of a write, to the PC.
LEMMA TransmitData ==
  ASSUME ControlInv, DataInv, Transmit
  PROVE  DataInv'
<1>0. /\ WayType /\ DataType /\ Filled /\ Owed /\ Sent /\ Read /\ Wrote /\ drv \in Drives
  BY DEF DataInv, ControlInv, ControlType
<1>1. /\ Others(drv, drv') /\ drv'.state = drv.state /\ UNCHANGED <<reg, snap, turn, n64>>
      /\ drv.cur \in Nat
  BY <1>0, WayControl, Constants DEF Drives
<1>2. /\ UNCHANGED <<sec, buf, sdMode, medium, late, failed, drv, host, disk, disks>>
      /\ slot # Nothing /\ slot' = Nothing
      /\ queue' = IF slot = <<"other">> THEN queue ELSE Append(queue, Append(slot, buf))
  BY DEF Transmit, others, history
<1> DEFINE p == Append(slot, buf)
<1>3. /\ ~Asked'
      /\ slot = <<"other">> => ~Asked
  <2>1. Len(<<"other">>) = 1 /\ Len(<<>>) = 0
    OBVIOUS
  <2> QED BY <1>2, <2>1 DEF Asked, Nothing
<1>4. CASE slot = <<"other">>
  <2>1. queue' = queue
    BY <1>2, <1>4
  <2>2. ~Asked /\ (Outstanding' <=> Outstanding) /\ (Outstanding => Oldest' = Oldest)
    BY <1>3, <1>4, <2>1 DEF Outstanding, Oldest
  <2>3. WayType' /\ DataType'
    BY <1>0, <1>2, <2>1 DEF WayType, DataType
  <2>4. Filled' /\ Read'
    <3>1. Filled'
      BY <1>0, <1>1, <1>2 DEF Filled, Pend, Tagged
    <3>2. Read'
      BY <1>0, <1>1, <1>2 DEF Read, Loaded
    <3> QED BY <3>1, <3>2
  <2>5. Wrote'
    BY <1>0, <1>1, <1>2 DEF Wrote, Has, WriteEnd
  <2>6. Owed'
    BY <1>0, <1>1, <1>2, <1>3, <2>1, <2>2 DEF Owed, Others
  <2>7. Sent'
    BY <1>0, <1>1, <1>2, <1>3, <2>1 DEF Sent, InPlace
  <2> QED BY <2>3, <2>4, <2>5, <2>6, <2>7 DEF DataInv
<1>5. CASE slot # <<"other">>
  <2>1. slot \in Requests /\ queue' = Append(queue, p)
    BY <1>0, <1>2, <1>5 DEF WayType
  <2>2. /\ Len(slot) = 4 /\ p = <<slot[1], slot[2], slot[3], slot[4], buf>>
        /\ slot[1] \in BOOLEAN /\ slot[2] \in Tracks /\ slot[3] \in {0, 1} /\ slot[4] \in BOOLEAN
    BY <2>1, Slots
  <2>3. p \in Packets
    BY <1>0, <2>2 DEF Packets, DataType
  <2>4. p[1] = slot[1] /\ p[2] = slot[2] /\ p[3] = slot[3] /\ p[4] = slot[4] /\ p[5] = buf
    BY <2>2
  <2> HIDE DEF p
  <2>5. queue \in Seq(Packets)
    BY <1>0 DEF WayType
  <2>6. /\ queue' \in Seq(Packets) /\ Len(queue') = Len(queue) + 1 /\ Len(queue) \in Nat
        /\ \A i \in 1..Len(queue) : queue'[i] = queue[i]
        /\ queue'[Len(queue) + 1] = p
    BY <2>1, <2>3, <2>5, Appended
  <2>7. queue' # <<>>
    <3>1. Len(<<>>) = 0
      OBVIOUS
    <3> QED BY <2>6, <3>1
  <2>8. WayType' /\ DataType'
    BY <1>0, <1>2, <2>6 DEF WayType, DataType
  <2>9. Filled'
    BY <1>0, <1>1, <1>2 DEF Filled, Pend, Tagged
  <2>10. Read'
    BY <1>0, <1>1, <1>2 DEF Read, Loaded
  <2>11. Wrote'
    BY <1>0, <1>1, <1>2 DEF Wrote, Has, WriteEnd
  <2>12. Asked /\ Outstanding
    BY <2>2 DEF Asked, Outstanding
  <2>13. ~late => queue = <<>> /\ Oldest = slot /\ Oldest' = p /\ Len(queue') = 1
    <3>1. ~late => queue = <<>>
      BY <1>0, <2>12 DEF Owed
    <3>2. queue = <<>> => Len(queue) = 0
      OBVIOUS
    <3>3. queue = <<>> => queue'[1] = p /\ Len(queue') = 1
      BY <2>6, <3>2
    <3> QED BY <2>7, <3>1, <3>3 DEF Oldest
  <2>14. Owed'
    <3>1. ~late =>
       /\ ~Oldest[4]
       /\ reg.start \/ snap.start \/ n64.phase = "written" => ~Outstanding
       /\ drv.running =>
            /\ drv.state = (IF Oldest[1] THEN "readWait" ELSE "writeWait") /\ ~drv.ready
            /\ Oldest[2] = drv.track /\ Oldest[3] = drv.blk
      BY <1>0, <2>12 DEF Owed
    <3>2. ~late =>
       /\ ~Oldest'[4]
       /\ drv.running =>
            /\ drv.state = (IF Oldest'[1] THEN "readWait" ELSE "writeWait") /\ ~drv.ready
            /\ Oldest'[2] = drv.track /\ Oldest'[3] = drv.blk
      BY <2>4, <2>13, <3>1
    <3>3. ~late => ~(reg'.start \/ snap'.start \/ n64'.phase = "written")
      BY <1>1, <2>12, <3>1
    <3>4. ~sdMode
      BY <1>0, <1>2 DEF Owed
    <3>5. ~late => Len(queue') <= 1
      BY <2>6, <2>13
    <3> QED BY <1>1, <1>2, <1>3, <2>7, <3>2, <3>3, <3>4, <3>5 DEF Owed
  <2>15. Sent'
    <3>1. ASSUME NEW i \in 1..Len(queue'), ~queue'[i][1] PROVE InPlace(queue[i][5], queue[i])'
      <4>1. CASE i \in 1..Len(queue)
        <5>1. queue'[i] = queue[i] /\ InPlace(queue[i][5], queue[i])
          BY <1>0, <2>6, <3>1, <4>1 DEF Sent
        <5> QED BY <1>1, <1>2, <5>1 DEF InPlace
      <4>2. CASE i = Len(queue) + 1
        <5>1. queue'[i] = p /\ InPlace(buf, slot)
          BY <1>0, <2>4, <2>6, <2>12, <3>1, <4>2 DEF Sent
        <5>2. /\ queue'[i][5] = buf /\ queue'[i][2] = slot[2] /\ queue'[i][3] = slot[3]
              /\ queue'[i][4] = slot[4]
          BY <2>4, <5>1
        <5>3. \A k \in Index :
                /\ buf[k] # Nothing
                /\ ~slot[4] => /\ buf[k][2] = slot[2] /\ buf[k][3] = slot[3] /\ buf[k][4] = k
                               /\ ~late => buf[k][1] \in disks /\ buf[k][5] = n64.ver
          BY <5>1 DEF InPlace
        <5>4. late' = late /\ disks' = disks /\ n64' = n64
          BY <1>1, <1>2
        <5> HIDE <1>2, <1>1, <2>4
        <5> QED BY <5>2, <5>3, <5>4 DEF InPlace
      <4> QED BY <2>6, <4>1, <4>2
    <3> QED BY <1>3, <3>1 DEF Sent
  <2> QED BY <2>8, <2>9, <2>10, <2>11, <2>14, <2>15 DEF DataInv
<1> QED BY <1>4, <1>5

\* The PC tool serves the request the drive is waiting for, or one of a
\* transfer whose successor began too early.
LEMMA ServeData ==
  ASSUME ControlInv, DataInv, HostServes
  PROVE  DataInv'
<1> DEFINE r == Head(queue)
<1>0. /\ WayType /\ DataType /\ Filled /\ Owed /\ Sent /\ Read /\ Wrote /\ drv \in Drives
      /\ disk \in disks
  BY DEF DataInv, ControlInv, ControlType, DataType
<1>1. /\ Others(drv, drv') /\ drv'.state = drv.state /\ UNCHANGED <<reg, snap, turn, n64>>
      /\ drv.cur \in Nat
  BY <1>0, WayControl, Constants DEF Drives
<1>2. /\ UNCHANGED <<sec, drv, slot, queue, sdMode, disk, disks, late, failed>>
      /\ host = "idle" /\ queue # <<>>
  BY DEF HostServes, others, history
<1>3. /\ r \in Packets /\ buf' \in Buffers /\ medium' \in [Places -> Content]
      /\ \A k \in Index : buf[k] # Nothing => buf'[k] # Nothing
      /\ \/ host' = "failed" /\ UNCHANGED <<buf, medium>>
         \/ /\ host' = "done" /\ r[1] /\ medium' = medium
            /\ \A k \in Index : buf'[k] = medium[<<disk, r[2], r[3], k>>]
         \/ /\ host' = "done" /\ ~r[1] /\ buf' = buf
            /\ \A k \in Index : medium'[<<disk, r[2], r[3], k>>] = r[5][k]
  BY <1>0, HostMoves
<1>4. ~r[1] => InPlace(r[5], r)
  <2>1. Len(queue) \in Nat /\ Len(queue) >= 1 /\ queue[1] = r
    BY <1>0, <1>2 DEF WayType
  <2> QED BY <1>0, <2>1 DEF Sent
<1> HIDE DEF r
<1>5. ~late => /\ ~r[4] /\ ~(reg.start \/ snap.start \/ n64.phase = "written")
               /\ drv.running =>
                    /\ drv.state = (IF r[1] THEN "readWait" ELSE "writeWait") /\ ~drv.ready
                    /\ r[2] = drv.track /\ r[3] = drv.blk
  <2>1. Outstanding /\ Oldest = r
    BY <1>2 DEF Outstanding, Oldest, r
  <2> QED BY <1>0, <2>1 DEF Owed
<1>6. ~sdMode
  BY <1>0, <1>2 DEF Owed
<1>7. WayType' /\ DataType'
  BY <1>0, <1>2, <1>3 DEF WayType, DataType
<1>8. Filled'
  <2>1. Pend' = Pend
    BY <1>1 DEF Pend
  <2>2. drv.running /\ ~drv.read /\ Pend' /\ drv.cur < DataSectors =>
           \E d \in disks' : sec' = <<d, drv.track, drv.blk, drv.cur, n64.ver>>
    BY <1>0, <1>2, <2>1 DEF Filled
  <2>3. ~late /\ drv.running => drv.state \notin {"idle", "blockWrite"}
    BY <1>5
  <2> QED BY <1>0, <1>1, <1>2, <1>3, <2>2, <2>3, FilledKept
<1>9. Owed'
  BY <1>0, <1>1, <1>2, <1>6, OwedKept
<1>10. Sent'
  <2>1. Asked /\ ~slot[4] => queue = <<>>
    BY <1>0 DEF Owed
  <2>2. \A i \in 1..Len(queue') : \E j \in 1..Len(queue) : queue'[i] = queue[j]
    BY <1>2
  <2> QED BY <1>0, <1>1, <1>2, <1>3, <2>1, <2>2, SentKept
<1>11. Read'
  <2>1. drv.running /\ ~late /\ drv.state = "readWait" /\ ((drv'.ready /\ drv'.valid) \/ host' = "done")
          => Loaded'
    <3> SUFFICES ASSUME drv.running, ~late, drv.state = "readWait", host' = "done" PROVE Loaded'
      BY <1>2, <1>5
    <3>1. r[1] /\ r[2] = drv.track /\ r[3] = drv.blk
      BY <1>5
    <3>2. medium' = medium /\ \A k \in Index : buf'[k] = medium[<<disk, drv.track, drv.blk, k>>]
      BY <1>3, <3>1
    <3> QED BY <1>0, <1>2, <3>2 DEF Loaded
  <2>2. ~late /\ drv.running => drv.state \notin {"idle", "sectorRead"}
    BY <1>5
  <2> QED BY <1>0, <1>1, <1>2, <2>1, <2>2, ReadKept
<1>12. Wrote'
  <2>1. ~late => ~WriteEnd'
    BY <1>1, <1>2, <1>5 DEF WriteEnd
  <2>2. ~late /\ drv.running => drv.state # "nextBlock"
    BY <1>5
  <2>3. ~late /\ disks = {disk} /\ disk' = disk /\ drv.running /\ drv.state = "writeWait"
          /\ ((drv'.ready /\ drv'.valid) \/ host' = "done") => Has(drv.track, drv.blk)'
    <3> SUFFICES ASSUME ~late, disks = {disk}, drv.running, drv.state = "writeWait", host' = "done"
                 PROVE  Has(drv.track, drv.blk)'
      BY <1>2, <1>5
    <3>1. ~r[1] /\ ~r[4] /\ r[2] = drv.track /\ r[3] = drv.blk
      BY <1>5
    <3>2. \A k \in Index : medium'[<<disk, drv.track, drv.blk, k>>] = r[5][k]
      BY <1>3, <3>1
    <3>3. ASSUME NEW k \in Index PROVE r[5][k] = <<disk, drv.track, drv.blk, k, n64.ver>>
      <4>1. /\ r[5][k] # Nothing /\ r[5][k][2] = r[2] /\ r[5][k][3] = r[3] /\ r[5][k][4] = k
            /\ r[5][k][1] = disk /\ r[5][k][5] = n64.ver
        BY <1>4, <3>1 DEF InPlace
      <4>2. r[5][k] \in Content
        BY <1>3, <4>1 DEF Packets, Buffers
      <4> QED BY <3>1, <4>1, <4>2, Contents
    <3> QED BY <1>1, <1>2, <3>2, <3>3 DEF Has
  <2> QED BY <1>0, <1>1, <1>2, <2>1, <2>2, <2>3, WroteKept
<1> QED BY <1>7, <1>8, <1>9, <1>10, <1>11, <1>12 DEF DataInv

\* An answer is for the oldest request, whatever the drive waits for.
LEMMA AnswerData ==
  ASSUME ControlInv, DataInv, HostAnswers
  PROVE  DataInv'
<1>0. /\ WayType /\ DataType /\ Filled /\ Owed /\ Sent /\ Read /\ Wrote /\ drv \in Drives
  BY DEF DataInv, ControlInv, ControlType
<1>1. /\ Others(drv, drv') /\ drv'.state = drv.state /\ UNCHANGED <<reg, snap, turn, n64>>
      /\ drv.cur \in Nat
  BY <1>0, WayControl, Constants DEF Drives
<1>2. /\ UNCHANGED <<sec, buf, slot, sdMode, disk, disks, medium, late, failed>>
      /\ host # "idle" /\ host' = "idle" /\ queue' = Tail(queue)
      /\ drv'.valid <=> host = "done"
  BY <1>0 DEF HostAnswers, others, history, Drives
<1>3. queue # <<>> /\ queue \in Seq(Packets)
  BY <1>0, <1>2 DEF Owed, WayType
<1>4. /\ queue' \in Seq(Packets) /\ Len(queue') = Len(queue) - 1 /\ Len(queue) \in Nat /\ Len(queue) >= 1
      /\ \A i \in 1..Len(queue') : queue'[i] = queue[i + 1]
  BY <1>2, <1>3
<1>5. WayType' /\ DataType'
  BY <1>0, <1>2, <1>4 DEF WayType, DataType
<1>6. Pend' = Pend /\ (Asked' <=> Asked)
  BY <1>1, <1>2 DEF Pend, Asked
<1>7. Filled'
  <2>2. drv.running /\ ~drv.read /\ Pend' /\ drv.cur < DataSectors =>
           \E d \in disks' : sec' = <<d, drv.track, drv.blk, drv.cur, n64.ver>>
    BY <1>0, <1>2, <1>6 DEF Filled
  <2> QED BY <1>0, <1>1, <1>2, <2>2, FilledKept
<1>8. Owed'
  <2>1. ~late => ~Outstanding' /\ Len(queue') <= 1
    <3>1. ~late => Len(queue) <= 1 /\ ~Asked
      BY <1>0, <1>3 DEF Owed
    <3>2. ~late => Len(queue') = 0
      BY <1>4, <3>1
    <3>3. ~late => queue' = <<>>
      BY <1>4, <3>2, EmptySeq
    <3> QED BY <1>6, <3>1, <3>2, <3>3 DEF Outstanding
  <2>2. ~(Asked /\ ~slot[4])
    BY <1>0, <1>3 DEF Owed
  <2>3. ~sdMode
    BY <1>0, <1>3 DEF Owed
  <2>4. ~late' => queue' = <<>>
    BY <1>2, <2>1 DEF Outstanding
  <2> QED BY <1>2, <1>6, <2>1, <2>2, <2>3, <2>4 DEF Owed
<1>9. Sent'
  <2>1. \A i \in 1..Len(queue') : \E j \in 1..Len(queue) : queue'[i] = queue[j]
    BY <1>4
  <2> QED BY <1>0, <1>1, <1>2, <2>1, SentKept
<1>10. Read'
  <2>1. Loaded => Loaded'
    BY <1>1, <1>2 DEF Loaded, Others
  <2>2. drv.running /\ ~late /\ drv.state = "readWait" /\ host = "done" => Loaded
    BY <1>0 DEF Read
  <2> QED BY <1>0, <1>1, <1>2, <2>1, <2>2, ReadKept
<1>11. Wrote'
  <2>1. WriteEnd' => WriteEnd
    BY <1>1 DEF WriteEnd, Others
  <2>2. ~late /\ disks = {disk} /\ drv.running /\ drv.state = "writeWait" /\ host = "done" =>
          Has(drv.track, drv.blk)
    BY <1>0 DEF Wrote
  <2>3. Has(drv.track, drv.blk) => Has(drv.track, drv.blk)'
    BY <1>1, <1>2 DEF Has, Others
  <2> QED BY <1>0, <1>1, <1>2, <2>1, <2>2, <2>3, WroteKept
<1> QED BY <1>5, <1>7, <1>8, <1>9, <1>10, <1>11 DEF DataInv

\* What a step of the game that starts no transfer must keep.
LEMMA GameKeeps ==
  ASSUME ControlInv, DataInv,
         UNCHANGED <<drv, snap, buf, slot, queue, host, sdMode, disk, medium, disks, late, failed>>,
         n64'.ver = n64.ver, sec' \in Content \cup {Nothing}, reg'.start => reg.start,
         drv.running /\ drv.read => sec' = sec,
         drv.running /\ ~drv.read /\ Pend' /\ drv.cur < DataSectors =>
           \E d \in disks : sec' = <<d, drv.track, drv.blk, drv.cur, n64.ver>>,
         n64'.phase = "written" => n64.phase = "written" \/ (~late => ~Outstanding),
         WriteEnd' => WriteEnd /\ n64'.track = n64.track /\ n64'.blk = n64.blk
  PROVE  DataInv'
<1>0. /\ WayType /\ DataType /\ Filled /\ Owed /\ Sent /\ Read /\ Wrote /\ drv \in Drives
  BY DEF DataInv, ControlInv, ControlType
<1>1. Others(drv, drv') /\ drv.cur \in Nat
  BY <1>0, Constants DEF Others, Drives
<1>2. WayType' /\ DataType'
  BY <1>0 DEF WayType, DataType
<1>3. Filled'
  BY <1>0, <1>1, FilledKept
<1>4. Owed'
  <2>1. sdMode => host' = "idle"
    BY <1>0 DEF Owed
  <2> QED BY <1>0, <1>1, <2>1, OwedKept
<1>5. Sent'
  BY <1>0 DEF Sent, InPlace, Asked
<1>6. Read'
  BY <1>0, <1>1 DEF Read, Loaded
<1>7. Wrote'
  BY <1>0, <1>1 DEF Wrote, Has
<1> QED BY <1>2, <1>3, <1>4, <1>5, <1>6, <1>7 DEF DataInv

\* A transfer begins with an empty way, or is late from its first step.
LEMMA StartData ==
  ASSUME ControlInv, DataInv, NEW job \in Jobs, StartTransfer(job)
  PROVE  DataInv'
<1>0. /\ WayType /\ DataType /\ Filled /\ Owed /\ Sent /\ Read /\ Wrote /\ drv \in Drives
      /\ disk \in DiskId /\ RegType /\ GameType
  BY DEF DataInv, ControlInv, ControlType, DataType
<1>1. /\ UNCHANGED <<drv, snap, buf, slot, queue, host, sdMode, disk, medium, sec>>
      /\ disks' = {disk} /\ late' = (queue # <<>> \/ Len(slot) > 1) /\ failed' = FALSE
      /\ reg'.start /\ n64'.phase = "wait" /\ n64.phase \in {"ready", "written"}
  <2>1. reg' = [reg EXCEPT !.start = TRUE, !.stop = FALSE, !.read = job.read, !.full = job.full,
                        !.blk = job.blk]
    BY DEF StartTransfer
  <2>2. reg'.start
    BY <1>0, <2>1 DEF RegType
  <2>3. n64'.phase = "wait"
    BY <1>0 DEF StartTransfer, GameType
  <2> QED BY <2>2, <2>3 DEF StartTransfer, machine, ways
<1>2. Calm /\ drv.cur \in Nat /\ DataSectors \in Nat /\ BlockSectors = DataSectors + 4
  BY <1>0, <1>1, Constants DEF ControlInv, AtRest, Ready, Phase, Drives
<1>3. drv.running => /\ drv.state = "idle"
                     /\ drv.read => drv.cur = BlockSectors + 1
                     /\ ~drv.read => drv.cur = DataSectors
  BY <1>2 DEF Calm
<1>4. Asked => Len(slot) > 1
  BY DEF Asked
<1>5. ~late' => ~Outstanding /\ queue = <<>> /\ ~Asked
  BY <1>1, <1>4 DEF Outstanding
<1>6. Asked' = Asked /\ Outstanding' = Outstanding /\ Oldest' = Oldest
  BY <1>1 DEF Asked, Outstanding, Oldest
<1>7. WayType' /\ DataType'
  <2>1. late' \in BOOLEAN
    BY <1>1
  <2> QED BY <1>0, <1>1, <2>1 DEF WayType, DataType
<1>8. Filled'
  BY <1>1, <1>2, <1>3 DEF Filled
<1>9. Owed'
  <2>1. Asked /\ ~slot[4] => queue = <<>> /\ ~drv.running
    BY <1>0, <1>3 DEF Owed
  <2>2. sdMode => slot = Nothing /\ queue = <<>> /\ host = "idle"
    BY <1>0 DEF Owed
  <2>3. host # "idle" => queue # <<>>
    BY <1>0 DEF Owed
  <2>4. sdMode => ~late'
    <3>1. Len(<<>>) = 0 /\ ~(0 > 1)
      OBVIOUS
    <3>2. sdMode => Len(slot) = 0
      BY <2>2, <3>1 DEF Nothing
    <3>3. sdMode => ~(Len(slot) > 1)
      BY <3>1, <3>2
    <3> QED BY <1>1, <2>2, <3>3
  <2>5. queue = <<>> => Len(queue) <= 1
    OBVIOUS
  <2> QED BY <1>1, <1>5, <1>6, <2>1, <2>2, <2>3, <2>4, <2>5 DEF Owed
<1>10. Sent'
  <2>1. ASSUME Asked', ~slot'[1] PROVE InPlace(buf, slot)'
    <3>1. late' /\ InPlace(buf, slot)
      BY <1>0, <1>5, <1>6, <1>1, <2>1 DEF Sent
    <3> QED BY <1>1, <3>1 DEF InPlace
  <2>2. ASSUME NEW i \in 1..Len(queue'), ~queue'[i][1] PROVE InPlace(queue[i][5], queue[i])'
    <3>1. late' /\ InPlace(queue[i][5], queue[i])
      <4>1. queue = <<>> => 1..Len(queue) = {}
        OBVIOUS
      <4> QED BY <1>0, <1>1, <1>5, <2>2, <4>1 DEF Sent
    <3> QED BY <1>1, <3>1 DEF InPlace
  <2> QED BY <2>1, <2>2 DEF Sent
<1>11. Read'
  BY <1>1, <1>2, <1>3 DEF Read
<1>12. Wrote'
  <2>1. ~WriteEnd'
    BY <1>1 DEF WriteEnd
  <2> QED BY <1>1, <1>3, <2>1 DEF Wrote
<1> QED BY <1>7, <1>8, <1>9, <1>10, <1>11, <1>12 DEF DataInv

\* Every step of the game keeps the data: it fills the sector buffer with what
\* belongs there, and only there.
LEMMA GameData ==
  ASSUME ControlInv, DataInv, GameStep
  PROVE  DataInv'
<1>0. /\ WayType /\ DataType /\ Filled /\ Owed /\ Sent /\ Read /\ Wrote /\ drv \in Drives
      /\ disk \in DiskId /\ disk \in disks /\ RegType /\ GameType /\ AtRest /\ InTransfer
  BY DEF DataInv, ControlInv, ControlType, DataType
<1>1. /\ UNCHANGED <<drv, snap, buf, slot, queue, host, sdMode, disk, medium>>
      /\ drv.cur \in Nat /\ DataSectors \in Nat /\ DataSectors > 0 /\ n64.k \in Nat
      /\ n64.k <= DataSectors
  BY <1>0, GameControl, Constants DEF ways, Drives, GameType
<1>2. n64 \in [phase: {"off", "boot", "idle", "cmd", "ready", "wait", "data", "c2", "err", "written"},
              read: BOOLEAN, track: Tracks, blk: {0, 1}, k: 0..DataSectors, left: {0, 1},
              ver: 0..MaxWrites]
  BY <1>0 DEF GameType
<1>3. ASSUME UNCHANGED <<disks, late, failed, sec>>, n64'.ver = n64.ver, reg'.start => reg.start,
             reg'.pend => reg.pend,
             n64'.phase \notin {"wait", "written"}
      PROVE  DataInv'
  <2>1. Pend' => Pend
    BY <1>1, <1>3 DEF Pend
  <2>2. drv.running /\ ~drv.read /\ Pend' /\ drv.cur < DataSectors =>
           \E d \in disks : sec' = <<d, drv.track, drv.blk, drv.cur, n64.ver>>
    BY <1>0, <1>3, <2>1 DEF Filled
  <2>3. ~WriteEnd'
    BY <1>3 DEF WriteEnd
  <2>4. sec' \in Content \cup {Nothing}
    BY <1>0, <1>3 DEF DataType
  <2> QED BY <1>1, <1>3, <2>2, <2>3, <2>4, GameKeeps
<1>4. CASE ConsoleReset
  <2>1. UNCHANGED <<disks, late, failed, sec>> /\ n64'.ver = n64.ver /\ n64'.phase = "off"
    BY <1>2, <1>4 DEF ConsoleReset, machine, history
  <2>2. ~reg'.start /\ ~reg'.pend
    BY <1>0, <1>4 DEF ConsoleReset, Reset, RegType
  <2> QED BY <1>3, <2>1, <2>2
<1>5. CASE Boot
  <2>1. UNCHANGED <<disks, late, failed, sec, reg>> /\ n64'.ver = n64.ver /\ n64'.phase = "boot"
    BY <1>2, <1>5 DEF Boot, machine, history
  <2> QED BY <1>3, <2>1
<1>6. ASSUME NEW op, NEW t, Command(op, t) PROVE DataInv'
  <2>1. UNCHANGED <<disks, late, failed, sec>> /\ n64'.ver = n64.ver /\ n64'.phase = "cmd"
    BY <1>2, <1>6 DEF Command, machine, history
  <2>2. reg'.start = reg.start /\ reg'.pend = reg.pend
    BY <1>0, <1>6 DEF Command, RegType
  <2> QED BY <1>3, <2>1, <2>2
<1>7. CASE CommandDone
  <2>1. UNCHANGED <<disks, late, failed, sec>> /\ n64'.ver = n64.ver /\ n64'.phase \in {"ready", "idle"}
    BY <1>2, <1>7 DEF CommandDone, machine, history
  <2>2. reg'.start = reg.start /\ reg'.pend = reg.pend
    BY <1>0, <1>7 DEF CommandDone, RegType
  <2> QED BY <1>3, <2>1, <2>2
<1>8. CASE StopTransfer
  <2>1. UNCHANGED <<disks, late, failed, sec>> /\ n64'.ver = n64.ver /\ n64'.phase = "idle"
    BY <1>2, <1>8 DEF StopTransfer, machine, history
  <2>2. ~reg'.start /\ ~reg'.pend
    BY <1>0, <1>8 DEF StopTransfer, RegType
  <2> QED BY <1>3, <2>1, <2>2
<1>9. CASE Look
  <2>1. UNCHANGED <<disks, late, failed, sec>> /\ reg'.start = reg.start /\ reg'.pend = reg.pend /\ reg.irq
    BY <1>0, <1>9 DEF Look, machine, history, RegType
  <2>2. /\ n64'.ver = n64.ver /\ n64'.track = n64.track /\ n64'.blk = n64.blk /\ n64'.read = n64.read
        /\ n64'.phase \in {"wait", "written"} => n64'.phase = n64.phase \/ n64.phase = "wait"
    <3>1. n64'.ver = n64.ver /\ n64'.track = n64.track /\ n64'.blk = n64.blk /\ n64'.read = n64.read
      BY <1>2, <1>9 DEF Look
    <3>2. n64.phase # "wait" => n64'.phase = n64.phase
      BY <1>2, <1>9 DEF Look
    <3> QED BY <3>1, <3>2
  <2>3. ASSUME n64.phase = "wait", n64'.phase = "written"
        PROVE  WriteEnd /\ (~late => ~Outstanding)
    <3>1. ~reg.start /\ Live
      BY <1>0, <2>1, <2>3 DEF InTransfer, Fresh
    <3>2. ~drv.err /\ ~drv.data /\ ~n64.read /\ n64.k = DataSectors
      <4>1. n64'.phase =
               CASE n64.phase # "wait"                              -> n64.phase
                 [] n64.phase = "wait" /\ drv.err                   -> "err"
                 [] n64.phase = "wait" /\ ~drv.err /\ drv.data /\ n64.k < DataSectors -> "data"
                 [] n64.phase = "wait" /\ ~drv.err /\ ~drv.data /\ drv.c2 -> "c2"
                 [] n64.phase = "wait" /\ ~drv.err /\ ~drv.data /\ ~n64.read /\ n64.k = DataSectors -> "written"
                 [] OTHER -> n64.phase
        BY <1>2, <1>9 DEF Look
      <4> HIDE DEF Look
      <4> QED BY <2>3, <4>1
    <3>3. Told
      BY <2>1, <3>1 DEF Live, Loading, Gap, AtGame, Moved, Writing, Silent
    <3>4. ~drv.read /\ drv.cur = DataSectors /\ drv.state = "idle" /\ drv.running
      BY <3>1, <3>2, <3>3 DEF Told, Live, AtSector
    <3>5. WriteEnd
      BY <2>3, <3>1, <3>2, <3>4 DEF WriteEnd
    <3>6. ~late => ~Outstanding
      BY <1>0, <3>4 DEF Owed
    <3> QED BY <3>5, <3>6
  <2>4. n64'.phase = "written" => n64.phase = "written" \/ (~late => ~Outstanding)
    BY <2>2, <2>3
  <2>5. WriteEnd' => WriteEnd
    <3>1. CASE n64'.phase = "written"
      BY <2>2, <2>3, <3>1 DEF WriteEnd
    <3>2. CASE n64'.phase # "written"
      BY <1>1, <2>1, <2>2, <3>2 DEF WriteEnd
    <3> QED BY <3>1, <3>2
  <2>6. drv.running /\ ~drv.read /\ Pend' /\ drv.cur < DataSectors =>
           \E d \in disks : sec' = <<d, drv.track, drv.blk, drv.cur, n64.ver>>
    <3>1. Pend' => Pend
      BY <1>1, <2>1 DEF Pend
    <3> QED BY <1>0, <2>1, <3>1 DEF Filled
  <2>7. sec' \in Content \cup {Nothing}
    BY <1>0, <2>1 DEF DataType
  <2> QED BY <1>1, <2>1, <2>2, <2>4, <2>5, <2>6, <2>7, GameKeeps
<1>10. CASE MoveSector
  <2>1. /\ UNCHANGED <<disks, late, failed>> /\ reg'.start = reg.start /\ n64.phase = "data"
        /\ sec' = (IF n64.read THEN sec ELSE <<disk, n64.track, n64.blk, n64.k, n64.ver>>)
    BY <1>0, <1>10 DEF MoveSector, history, RegType, Tag
  <2>2. ~reg.start /\ Live
    BY <1>0, <2>1 DEF InTransfer, Fresh
  <2>3. /\ drv.running /\ drv.read = n64.read /\ Same /\ AtSector /\ drv.track = n64.track
    BY <1>0, <2>1, <2>2 DEF Live, Loading, Told, Gap, AtGame, Moved, Writing, AtRest, Going, Phase
  <2>4. n64'.ver = n64.ver /\ n64'.phase = "wait" /\ n64'.read = n64.read
    <3> DEFINE next == [n64 EXCEPT !.phase = "wait", !.k = @ + 1]
    <3>1. next.ver = n64.ver /\ next.phase = "wait" /\ next.read = n64.read
      BY <1>2
    <3>2. n64' = next \/ n64' = Through(next, "wait")
      BY <1>10 DEF MoveSector
    <3>3. next \in [phase: {"wait"}, read: BOOLEAN, track: Tracks, blk: {0, 1}, k: Nat, left: {0, 1},
                   ver: 0..MaxWrites]
      <4>1. n64.k + 1 \in Nat
        BY <1>1
      <4>2. next = [n64 EXCEPT !.phase = "wait", !.k = n64.k + 1]
        OBVIOUS
      <4> HIDE DEF next
      <4> QED BY <1>2, <4>1, <4>2
    <3> HIDE DEF next
    <3> QED BY <3>1, <3>2, <3>3 DEF Through
  <2>5. drv.running /\ ~drv.read /\ Pend' /\ drv.cur < DataSectors =>
           \E d \in disks : sec' = <<d, drv.track, drv.blk, drv.cur, n64.ver>>
    <3> SUFFICES ASSUME ~drv.read
                 PROVE  \E d \in disks : sec' = <<d, drv.track, drv.blk, drv.cur, n64.ver>>
      OBVIOUS
    <3>1. drv.blk = n64.blk /\ drv.cur = n64.k /\ ~n64.read
      BY <2>3 DEF Same, AtSector
    <3> QED BY <1>0, <2>1, <2>3, <3>1
  <2>6. sec' \in Content \cup {Nothing}
    <3>1. CASE n64.read
      BY <1>0, <2>1, <3>1 DEF DataType
    <3>2. CASE ~n64.read
      <4>1. n64.k \in Index
        BY <1>1, <2>3 DEF AtSector, Index
      <4>2. sec' \in Content
        BY <1>0, <1>2, <2>1, <3>2, <4>1 DEF Content
      <4> QED BY <4>2
    <3> QED BY <3>1, <3>2
  <2>7. ~WriteEnd'
    <3>1. ~drv.read => drv.cur # DataSectors
      BY <1>1, <2>3 DEF AtSector
    <3> QED BY <1>1, <2>3, <2>4, <3>1 DEF WriteEnd
  <2> QED BY <1>1, <2>1, <2>3, <2>4, <2>5, <2>6, <2>7, GameKeeps
<1>11. CASE MoveC2
  <2>1. /\ UNCHANGED <<disks, late, failed, sec>> /\ reg'.start = reg.start /\ n64.phase = "c2"
        /\ n64' = Through(n64, "ready")
    BY <1>0, <1>11 DEF MoveC2, machine, history, RegType
  <2>2. ~reg.start /\ Live
    BY <1>0, <2>1 DEF InTransfer, Fresh
  <2>3. drv.running /\ drv.read /\ n64.read
    BY <2>1, <2>2 DEF Live, Loading, Told, Gap, AtGame, Moved, Writing
  <2>4. n64'.ver = n64.ver /\ n64'.phase \in {"wait", "ready"} /\ n64'.read = n64.read
    BY <1>2, <2>1 DEF Through
  <2>5. ~WriteEnd'
    BY <2>3, <2>4 DEF WriteEnd
  <2>6. sec' \in Content \cup {Nothing}
    BY <1>0, <2>1 DEF DataType
  <2> QED BY <1>1, <2>1, <2>3, <2>4, <2>5, <2>6, GameKeeps
<1> QED BY <1>4, <1>5, <1>6, <1>7, <1>8, <1>9, <1>10, <1>11, StartData DEF GameStep

-----------------------------------------------------------------------------
\* The results about the 64DD.

\* The console is off and nothing is on its way when the drive is powered.
LEMMA StartsSo == DiskInit => DiskInv
<1> SUFFICES ASSUME DiskInit PROVE DiskInv
  OBVIOUS
<1>1. 0 \in Tracks /\ 0 \in Curs /\ 0 \in DiskId /\ 0 \in 0..DataSectors /\ 0 \in 0..MaxWrites
  BY SizesAssumption, Constants DEF Tracks, DiskId
<1>2. RegType
  BY <1>1 DEF DiskInit, RegType
<1>3. drv \in Drives
  BY <1>1 DEF DiskInit, Drives, States
<1>4. SnapType
  BY DEF DiskInit, SnapType, Unread
<1>5. GameType
  BY <1>1 DEF DiskInit, GameType
<1>6. ASSUME NEW x \in Places PROVE Append(x, 0) \in Content
  <2>1. PICK x1 \in DiskId, x2 \in Tracks, x3 \in {0, 1}, x4 \in Index : x = <<x1, x2, x3, x4>>
    BY DEF Places
  <2>2. Append(x, 0) = <<x1, x2, x3, x4, 0>>
    BY <2>1, Extended
  <2> QED BY <1>1, <2>2 DEF Content
<1>7. WayType /\ DataType
  <2>1. queue \in Seq(Packets) /\ slot = Nothing
    <3>1. queue = <<>> /\ <<>> \in Seq(Packets)
      BY DEF DiskInit
    <3> QED BY <3>1 DEF DiskInit
  <2>2. sdMode \in BOOLEAN
    BY SdModesAssumption DEF DiskInit
  <2>3. medium \in [Places -> Content]
    BY <1>6 DEF DiskInit
  <2>4. buf \in Buffers
    BY DEF DiskInit, Buffers
  <2> QED BY <1>1, <2>1, <2>2, <2>3, <2>4 DEF DiskInit, WayType, DataType
<1>8. Noted /\ AtRest /\ InTransfer /\ Shaped
  <2>1. /\ ~drv.running /\ ~drv.delayed /\ n64.phase = "off" /\ snap = Unread /\ reg.reset
        /\ ~reg.start /\ ~reg.stop /\ ~reg.cmdPending /\ ~reg.pend /\ turn = "scan"
        /\ ~snap.cmd /\ ~snap.start /\ ~snap.stop /\ ~snap.pend
    BY DEF DiskInit, Unread
  <2>2. Noted
    BY <2>1 DEF Noted
  <2>3. AtRest
    BY <2>1 DEF AtRest, Off, Clearing, Commanding, Idle, Ready, Going, Phase, Dead
  <2>4. InTransfer /\ Shaped
    BY <2>1 DEF InTransfer, Shaped
  <2> QED BY <2>2, <2>3, <2>4
<1>9. /\ ~drv.running /\ n64.phase = "off" /\ slot = <<>> /\ queue = <<>> /\ host = "idle" /\ ~late
      /\ ~reg.start /\ ~snap.start
  BY DEF DiskInit, Nothing, Unread
<1>10. ~Asked /\ ~Outstanding /\ Len(queue) = 0
  <2>1. Len(<<>>) = 0
    OBVIOUS
  <2> QED BY <1>9, <2>1 DEF Asked, Outstanding
<1>11. Owed
  BY <1>9, <1>10 DEF Owed, Nothing
<1>12. Filled /\ Read
  BY <1>9 DEF Filled, Read
<1>13. Sent
  BY <1>9, <1>10 DEF Sent
<1>14. Wrote
  BY <1>9 DEF Wrote, WriteEnd
<1> QED BY <1>2, <1>3, <1>4, <1>5, <1>7, <1>8, <1>11, <1>12, <1>13, <1>14
       DEF DiskInv, ControlInv, ControlType, DataInv

\* Every step keeps the invariant (DiskNext).
LEMMA StaysSo == DiskInv /\ [DiskNext]_diskVars => DiskInv'
<1> SUFFICES ASSUME DiskInv, [DiskNext]_diskVars PROVE DiskInv'
  OBVIOUS
<1>0. ControlInv /\ DataInv
  BY DEF DiskInv
<1>1. CASE Scan
  BY <1>0, <1>1, ScanControl, ScanData DEF DiskInv
<1>2. CASE Work
  BY <1>0, <1>2, WorkControl, WorkTyped, WorkFilled, WorkOwed, WorkSent, WorkRead, WorkWrote
     DEF DiskInv, DataInv
<1>3. CASE SpinsUp \/ OtherPacket \/ LinkReset \/ Button
  BY <1>0, <1>3, WayControl, LinkData DEF DiskInv
<1>4. CASE Transmit
  BY <1>0, <1>4, WayControl, TransmitData DEF DiskInv
<1>5. CASE HostServes
  BY <1>0, <1>5, WayControl, ServeData DEF DiskInv
<1>6. CASE HostAnswers
  BY <1>0, <1>6, WayControl, AnswerData DEF DiskInv
<1>7. CASE GameStep
  BY <1>0, <1>7, GameControl, GameData DEF DiskInv
<1>8. CASE UNCHANGED diskVars
  <2>1. /\ UNCHANGED <<reg, sec, buf, drv, snap, turn, spin, slot, queue, host, sdMode, disk, medium, n64>>
        /\ UNCHANGED <<used, disks, late, failed, lost>>
    BY <1>8 DEF diskVars, ways, history
  <2>2. ControlType'
    BY <1>0, <2>1 DEF ControlInv, ControlType, RegType, SnapType, GameType
  <2>3. Others(drv, drv')
    BY <2>1 DEF Others
  <2>4. ControlInv'
    BY <1>0, <2>1, <2>2, <2>3, OtherControl
  <2>5. drv.running /\ ~drv.read /\ Pend' /\ drv.cur < DataSectors =>
           \E d \in disks : sec' = <<d, drv.track, drv.blk, drv.cur, n64.ver>>
    BY <1>0, <2>1 DEF DataInv, Filled, Pend
  <2>6. sec' \in Content \cup {Nothing} /\ (WriteEnd' => WriteEnd)
    BY <1>0, <2>1 DEF DataInv, DataType, WriteEnd
  <2>7. DataInv'
    BY <1>0, <2>1, <2>5, <2>6, GameKeeps
  <2> QED BY <2>4, <2>7 DEF DiskInv
<1> QED BY <1>1, <1>2, <1>3, <1>4, <1>5, <1>6, <1>7, <1>8 DEF DiskNext

\* The invariant holds of the drive whatever the game, the PC tool, the button
\* and the USB link do, for blocks, disks and jobs of any number.
THEOREM DiskStays == DiskSpec => []DiskInv
<1> QED BY StartsSo, StaysSo, PTL DEF DiskSpec

\* The types hold: in particular the cursor never leaves the block buffer and
\* no sector the game did not write reaches the medium (dd.c, dd_process).
THEOREM DiskTyped == DiskSpec => []DiskTypeOK
<1>1. DiskInv => DiskTypeOK
  BY DEF DiskInv, ControlInv, DataInv, DiskTypeOK
<1> QED BY <1>1, DiskStays, PTL

\* A game that is told of a sector finds that sector of the block it asked for,
\* unless the PC still owed an answer when it asked (dd.c, dd_process).
THEOREM DiskReads == DiskSpec => []ReadsTheBlock
<1>1. ASSUME DiskInv PROVE ReadsTheBlock
  <2> SUFFICES ASSUME n64.phase = "data", n64.read, ~late
               PROVE  \E d \in disks : sec = medium[<<d, n64.track, n64.blk, n64.k>>]
    BY DEF ReadsTheBlock
  <2>0. ControlType /\ AtRest /\ InTransfer /\ Read
    BY <1>1 DEF DiskInv, ControlInv, DataInv
  <2>1. ~reg.start /\ Live
    BY <2>0 DEF InTransfer, Fresh
  <2>2. /\ drv.running /\ drv.read /\ ~drv.err /\ drv.state = "idle" /\ Same
        /\ n64.k < DataSectors /\ drv.cur = n64.k + 1 /\ drv.track = n64.track
    BY <2>0, <2>1 DEF Live, Loading, Told, Gap, AtGame, Moved, Writing, AtSector, AtRest, Going, Phase
  <2>3. n64.k \in Nat /\ DataSectors \in Nat
    BY <2>0, Constants DEF ControlType, GameType
  <2>4. drv.cur \in 1..DataSectors /\ drv.cur <= DataSectors /\ drv.cur - 1 = n64.k /\ n64.k \in Index
    BY <2>2, <2>3 DEF Index
  <2>5. Loaded /\ sec = buf[n64.k]
    BY <2>0, <2>2, <2>4 DEF Read
  <2> QED BY ZenonT(30), <2>2, <2>4, <2>5 DEF Loaded, Same
<1> QED BY <1>1, DiskStays, PTL

\* When a game is told that its write is over the block is on the disk, unless
\* that write failed or the disk was changed (dd.c, BLOCK_WRITE_WAIT).
THEOREM DiskWrites == DiskSpec => []WritesReachTheDisk
<1>1. DiskInv => WritesReachTheDisk
  BY DEF DiskInv, DataInv, Wrote, WriteEnd, Has, WritesReachTheDisk
<1> QED BY <1>1, DiskStays, PTL

\* As long as no disk was selected but this one there is no other.
LEMMA OneDisk ==
  ASSUME DataType, NEW d \in disks, d # disk
  PROVE  Cardinality(disks) > 1
<1>1. disks \subseteq 0..Disks - 1 /\ disk \in disks
  BY DEF DataType, DiskId
<1>2. IsFiniteSet(0..Disks - 1)
  BY SizesAssumption, FS_Interval
<1>3. IsFiniteSet(disks)
  BY <1>1, <1>2, FS_Subset
<1>4. Cardinality(disks) \in Nat /\ {d, disk} \subseteq disks
  BY <1>1, <1>3, FS_CardinalityType
<1>5. Cardinality({d, disk}) <= Cardinality(disks)
  BY <1>3, <1>4, FS_Subset
<1>6. Cardinality({d, disk}) = 2
  <2>1. IsFiniteSet({disk}) /\ Cardinality({disk}) = 1
    BY FS_Singleton
  <2>2. Cardinality({disk} \cup {d}) = Cardinality({disk}) + 1
    BY <2>1, FS_AddElement
  <2>3. {d, disk} = {disk} \cup {d}
    OBVIOUS
  <2> QED BY <2>1, <2>2, <2>3
<1> QED BY <1>4, <1>5, <1>6

\* Nothing is written but what a game wrote for that place and, when no disk
\* was changed, for that disk (dd.c, dd_track_head_block).
THEOREM DiskInPlace == DiskSpec => WritesStayInPlace
<1> DEFINE Stays == \A x \in Places :
       medium'[x] # medium[x] =>
         \/ queue # <<>> /\ Head(queue)[4]
         \/ /\ \A i \in 2..4 : medium'[x][i] = x[i]
            /\ medium'[x][1] = x[1] \/ late \/ Cardinality(disks) > 1
<1>1. ASSUME DiskInv, [DiskNext]_diskVars PROVE Stays
  <2> SUFFICES ASSUME NEW x \in Places, medium'[x] # medium[x], ~(queue # <<>> /\ Head(queue)[4])
               PROVE  /\ \A i \in 2..4 : medium'[x][i] = x[i]
                      /\ medium'[x][1] = x[1] \/ late \/ Cardinality(disks) > 1
    OBVIOUS
  <2>0. /\ ControlInv /\ DataInv /\ DataType /\ WayType /\ Filled /\ Owed /\ Sent
        /\ \A i \in 2..4 : i = 2 \/ i = 3 \/ i = 4
    BY <1>1 DEF DiskInv, DataInv
  <2>1. CASE Work
    <3>1. AskTurn(FALSE, "blockWrite", "writeWait") /\ drv.running /\ sdMode
      <4>1. EndTurn \/ (Busy /\ Turns)
        BY <2>0, <2>1, WorkKinds
      <4>2. medium' # medium
        OBVIOUS
      <4>3. ~EndTurn
        BY <4>2 DEF EndTurn, Steady
      <4>4. AskTurn(FALSE, "blockWrite", "writeWait")
        BY <4>1, <4>2, <4>3 DEF Turns, IdleTurn, WaitTurn, LoadTurn, SectorTurn, FillTurn, DoneTurn, NextTurn,
           Steady, AskTurn, SdRequest
      <4> QED BY <4>1, <4>2, <4>3, <4>4 DEF AskTurn, Busy
    <3>2. PICK e \in Drives : e.track = drv.track /\ e.blk = drv.blk /\ SdRequest(e, FALSE, "writeWait")
      BY <3>1 DEF AskTurn
    <3>3. ~late /\ \A k \in Index : buf[k] # Nothing /\ Tagged(k)
      <4>1. ~late /\ drv.state = "blockWrite"
        BY <2>0, <3>1 DEF AskTurn, Owed
      <4>2. ~drv.read
        BY <2>0, <3>1, <4>1 DEF ControlInv, Shaped
      <4> QED BY <2>0, <3>1, <4>1, <4>2 DEF Filled
    <3>4. PICK k \in Index : x = <<disk, e.track, e.blk, k>> /\ medium'[x] = buf[k]
      <4>1. FALSE \in BOOLEAN /\ "writeWait" \in States
        BY DEF States
      <4>2. \A y \in Places : medium'[y] # medium[y] =>
                   \E k \in Index : y = <<disk, e.track, e.blk, k>> /\ medium'[y] = buf[k]
        BY <2>0, <3>2, <3>3, <4>1, SdMoves
      <4> QED BY <4>2
    <3>5. PICK d \in disks : buf[k] = <<d, drv.track, drv.blk, k, n64.ver>>
      BY <3>3 DEF Tagged
    <3>6. /\ medium'[x][2] = x[2] /\ medium'[x][3] = x[3] /\ medium'[x][4] = x[4]
          /\ medium'[x][1] = d /\ x[1] = disk
      BY <3>2, <3>4, <3>5
    <3> QED BY <2>0, <3>6, OneDisk
  <2>2. CASE HostServes
    <3> DEFINE r == Head(queue)
    <3>1. PICK k \in Index : x = <<disk, r[2], r[3], k>> /\ medium'[x] = r[5][k] /\ ~r[1]
      BY <2>0, <2>2, HostMoves
    <3>2. InPlace(r[5], r) /\ ~r[4]
      <4>1. queue # <<>>
        BY <2>2 DEF HostServes
      <4>2. Len(queue) \in Nat /\ Len(queue) >= 1 /\ queue[1] = r
        BY <2>0, <4>1 DEF WayType
      <4> QED BY <2>0, <3>1, <4>1, <4>2 DEF Sent
    <3> HIDE DEF r
    <3>3. /\ r[5][k][2] = r[2] /\ r[5][k][3] = r[3] /\ r[5][k][4] = k
          /\ ~late => r[5][k][1] \in disks
      BY <3>2 DEF InPlace
    <3>4. /\ medium'[x][2] = x[2] /\ medium'[x][3] = x[3] /\ medium'[x][4] = x[4]
          /\ ~late => medium'[x][1] \in disks
          /\ x[1] = disk
      BY <3>1, <3>3
    <3> QED BY <2>0, <3>4, OneDisk
  <2>3. CASE ~Work /\ ~HostServes
    <3>1. medium' = medium
      BY <1>1, <2>3, GameControl, <2>0
         DEF DiskNext, diskVars, Scan, SpinsUp, OtherPacket, Transmit, HostAnswers, LinkReset, Button
    <3> QED BY <3>1
  <2> QED BY <2>1, <2>2, <2>3
<1>2. DiskInv /\ [DiskNext]_diskVars => [Stays]_diskVars
  BY <1>1
<1> QED BY <1>2, DiskStays, PTL DEF DiskSpec, WritesStayInPlace

=============================================================================
