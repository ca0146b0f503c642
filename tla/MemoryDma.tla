----------------------------- MODULE MemoryDma -----------------------------
(***************************************************************************)
(* The DMA engine of the FPGA, fw/rtl/memory/memory_dma.sv, between a      *)
(* byte FIFO and the 16-bit memory bus.  Three machines work side by side: *)
(* one moves words over the bus, one gathers bytes from the FIFO into the  *)
(* next word, one spreads a word that was read over the FIFO.              *)
(*                                                                         *)
(* DmaTick is one clock edge: every register takes its new value from the  *)
(* old ones.  A word is a pair <<high byte, low byte>>, its lanes a pair   *)
(* of booleans.  What the code leaves undefined is the byte None.          *)
(***************************************************************************)
EXTENDS Integers, Sequences

CONSTANT None

VARIABLES
  scb,        \* what the controller writes: [start, stop, write, address, length]
  dmaStart, dmaStop, busy,
  memState, bus,            \* bus: [request, write, address, mask, wdata]
  left, oddStart, oddEnd,   \* mem_bus_remaining_bytes, unaligned_start / _end
  wEmpty, wReady, wBuf,     \* mem_bus_wdata_*
  rReady, rAck, rEnd, rMask, rBuf,  \* mem_bus_rdata_*
  rxState, shifted,
  txState, txWaiting, txValid, txBuf

busVars == <<memState, bus, left, oddStart, oddEnd, wEmpty, rAck, rEnd, rMask, rBuf>>
rxSide  == <<rxState, shifted, wReady, wBuf>>
txSide  == <<txState, txWaiting, txValid, txBuf, rReady>>
dmaVars == <<scb, dmaStart, dmaStop, busy, busVars, rxSide, txSide>>

Both == <<TRUE, TRUE>>
High == <<TRUE, FALSE>>
Low  == <<FALSE, TRUE>>

DmaInit ==
  /\ scb = [start |-> FALSE, stop |-> FALSE, write |-> FALSE, address |-> 0, length |-> 0]
  /\ dmaStart = FALSE /\ dmaStop = FALSE /\ busy = FALSE
  /\ memState = "IDLE"
  /\ bus = [request |-> FALSE, write |-> FALSE, address |-> 0, mask |-> Both,
            wdata |-> <<None, None>>]
  /\ left = 0 /\ oddStart = FALSE /\ oddEnd = FALSE
  /\ wEmpty = TRUE /\ wReady = FALSE /\ wBuf = <<None, None>>
  /\ rReady = FALSE /\ rAck = FALSE /\ rEnd = TRUE
  /\ rMask = Both /\ rBuf = <<None, None>>
  /\ rxState = "IDLE" /\ shifted = FALSE
  /\ txState = "IDLE" /\ txWaiting = FALSE
  /\ txValid = Both /\ txBuf = <<None, None>>

-----------------------------------------------------------------------------
(* Start, stop and the busy flag.                                           *)

StartStop ==
  /\ dmaStart' = (scb.start /\ ~scb.stop)
  /\ dmaStop' = (scb.stop \/ (dmaStop /\ ~scb.start))
  /\ busy' = \/ scb.start /\ ~scb.stop
             \/ dmaStart
             \/ memState # "IDLE" \/ rxState # "IDLE" \/ txState # "IDLE"
  /\ scb' = [scb EXCEPT !.start = FALSE, !.stop = FALSE]

-----------------------------------------------------------------------------
(* The memory bus.                                                          *)

LastWord       == left = 0
AlmostLastWord == left <= 2
DataWaiting    == wReady \/ ~wEmpty \/ rReady

\* The lanes the FIFO fills for the next word.
WordLanes == IF oddEnd /\ AlmostLastWord THEN High
             ELSE IF oddStart THEN Low ELSE Both

\* A word goes on the bus, from WAIT or at the end of the last one.
Issues(ack) ==
  /\ memState = "WAIT" \/ (memState = "TRANSFER" /\ ack)
  /\ ~dmaStop /\ ~LastWord /\ DataWaiting

\* Its lanes: the first word takes the odd start before the odd end.
IssuedLanes == IF memState = "WAIT" /\ oddStart THEN Low
               ELSE IF oddEnd /\ AlmostLastWord THEN High ELSE Both

Begins == memState = "IDLE" /\ dmaStart

NextMemState(ack) ==
  CASE memState = "IDLE" -> IF dmaStart THEN "WAIT" ELSE "IDLE"
    [] memState = "WAIT" -> IF dmaStop \/ LastWord THEN "IDLE"
                            ELSE IF DataWaiting THEN "TRANSFER" ELSE "WAIT"
    [] memState = "TRANSFER" -> IF ~ack THEN "TRANSFER"
                                ELSE IF dmaStop \/ LastWord THEN "IDLE"
                                ELSE IF DataWaiting THEN "TRANSFER" ELSE "WAIT"

NextAddress(ack) ==
  IF Begins THEN scb.address - (scb.address % 2)
  ELSE bus.address + (IF ack THEN 2 ELSE 0)

\* With a bug: a stop takes the request back.
NextBusWithdraws(ack) ==
  [request |-> Issues(ack) \/ (bus.request /\ ~ack /\ memState # "IDLE" /\ ~dmaStop),
   write   |-> IF Begins THEN scb.write ELSE bus.write,
   address |-> NextAddress(ack),
   mask    |-> IF Issues(ack) THEN IssuedLanes ELSE bus.mask,
   wdata   |-> IF Issues(ack) THEN wBuf ELSE bus.wdata]

NextBus(ack) ==
  [request |-> Issues(ack) \/ (bus.request /\ ~ack /\ memState # "IDLE"),
   write   |-> IF Begins THEN scb.write ELSE bus.write,
   address |-> NextAddress(ack),
   mask    |-> IF Issues(ack) THEN IssuedLanes ELSE bus.mask,
   wdata   |-> IF Issues(ack) THEN wBuf ELSE bus.wdata]

Taken(ack) == IF ~Issues(ack) THEN 0 ELSE IF IssuedLanes = Both THEN 2 ELSE 1

MemoryBus(ack, rdata) ==
  /\ memState' = NextMemState(ack)
  /\ bus' = NextBus(ack)
  /\ left' = IF Begins THEN scb.length ELSE left - Taken(ack)
  /\ oddStart' = IF Begins THEN scb.address % 2 = 1
                 ELSE oddStart /\ ~(memState = "WAIT" /\ Issues(ack))
  /\ oddEnd' = IF Begins THEN scb.address % 2 # scb.length % 2 ELSE oddEnd
  /\ wEmpty' = (Begins \/ Issues(ack) \/ (wEmpty /\ ~wReady))
  /\ rAck' = ack
  /\ rEnd' = IF memState = "IDLE" THEN ~dmaStart ELSE IF ack THEN LastWord ELSE rEnd
  /\ rMask' = IF ack THEN bus.mask ELSE rMask
  /\ rBuf' = IF ack THEN rdata ELSE rBuf

-----------------------------------------------------------------------------
(* From the FIFO to the bus.                                                *)

RxReads(rxEmpty) ==
  \/ rxState = "FIRST" /\ ~rxEmpty /\ wEmpty /\ WordLanes[1] /\ ~LastWord
  \/ rxState = "SECOND" /\ ~rxEmpty /\ WordLanes[2]

RxShifts(rxEmpty) ==
  \/ rxState = "FIRST" /\ ((~rxEmpty /\ wEmpty) \/ ~WordLanes[1])
  \/ rxState = "SECOND" /\ (~rxEmpty \/ ~WordLanes[2])

\* With a bug: the end of the transfer is not looked at.
NextRxStateEndless(rxEmpty) ==
  IF dmaStop THEN "IDLE"
  ELSE CASE rxState = "IDLE" -> IF dmaStart /\ scb.write THEN "FIRST" ELSE "IDLE"
         [] rxState = "FIRST" -> IF RxShifts(rxEmpty) THEN "SECOND" ELSE "FIRST"
         [] rxState = "SECOND" -> IF RxShifts(rxEmpty) THEN "ACK" ELSE "SECOND"
         [] rxState = "ACK" -> IF wReady THEN "FIRST" ELSE "ACK"

NextRxState(rxEmpty) ==
  IF dmaStop THEN "IDLE"
  ELSE CASE rxState = "IDLE" -> IF dmaStart /\ scb.write THEN "FIRST" ELSE "IDLE"
         [] rxState = "FIRST" -> IF LastWord THEN "IDLE"
                                 ELSE IF RxShifts(rxEmpty) THEN "SECOND" ELSE "FIRST"
         [] rxState = "SECOND" -> IF RxShifts(rxEmpty) THEN "ACK" ELSE "SECOND"
         [] rxState = "ACK" -> IF wReady THEN "FIRST" ELSE "ACK"

\* The byte read comes out of the FIFO one clock later; the register of the
\* FIFO keeps the last one when nothing is read.
RxFifo(rxEmpty, rxData) ==
  /\ rxState' = NextRxState(rxEmpty)
  /\ shifted' = RxShifts(rxEmpty)
  /\ wReady' = (shifted /\ rxState = "ACK")
  /\ wBuf' = IF shifted THEN <<wBuf[2], rxData>> ELSE wBuf

-----------------------------------------------------------------------------
(* From the bus to the FIFO.                                                *)

TxSpreads == txState \in {"FIRST", "SECOND"}
TxWrites(txFull) == TxSpreads /\ ~txFull /\ txValid[1]
TxShifts(txFull) == TxSpreads /\ (~txFull \/ ~txValid[1])
TxTakes == txState = "WAIT" /\ (rAck \/ txWaiting)

NextTxState(txFull) ==
  IF dmaStop THEN "IDLE"
  ELSE CASE txState = "IDLE" -> IF dmaStart /\ ~scb.write THEN "WAIT" ELSE "IDLE"
         [] txState = "WAIT" -> IF TxTakes THEN "FIRST"
                                ELSE IF rEnd THEN "IDLE" ELSE "WAIT"
         [] txState = "FIRST" -> IF TxShifts(txFull) THEN "SECOND" ELSE "FIRST"
         [] txState = "SECOND" -> IF ~TxShifts(txFull) THEN "SECOND"
                                  ELSE IF ~rAck /\ ~txWaiting /\ rEnd THEN "IDLE"
                                  ELSE "WAIT"

TxFifo(txFull) ==
  /\ txState' = NextTxState(txFull)
  /\ txWaiting' = IF TxSpreads THEN txWaiting \/ rAck ELSE txWaiting /\ txState = "WAIT" /\ ~TxTakes
  /\ txValid' = IF TxTakes THEN rMask
                ELSE IF TxShifts(txFull) THEN <<txValid[2], FALSE>> ELSE txValid
  /\ txBuf' = IF TxTakes THEN rBuf
              ELSE IF TxShifts(txFull) THEN <<txBuf[2], None>> ELSE txBuf
  /\ rReady' = CASE txState = "IDLE" -> dmaStart /\ ~scb.write
                 [] txState = "WAIT" -> rReady /\ ~TxTakes
                 [] txState = "FIRST" -> rReady
                 [] txState = "SECOND" -> IF TxWrites(txFull) \/ ~txValid[1]
                                          THEN ~rEnd ELSE rReady

-----------------------------------------------------------------------------
DmaTick(ack, rdata, rxEmpty, rxData, txFull) ==
  /\ StartStop /\ MemoryBus(ack, rdata)
  /\ RxFifo(rxEmpty, rxData) /\ TxFifo(txFull)

\* A write of the controller to REG_USB_DMA_SCR, which the last one may not
\* find busy.
DmaCommand(s) == scb' = s
=============================================================================
