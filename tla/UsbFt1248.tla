----------------------------- MODULE UsbFt1248 -----------------------------
(***************************************************************************)
(* The USB interface of the FPGA, fw/rtl/usb/usb_ft1248.sv: two byte FIFOs *)
(* and the machine that carries their bytes, the modem lines DTR and DSR   *)
(* with them, to and from the FT232H.                                      *)
(*                                                                         *)
(* A step is one phase of a transaction: the choice of a command in IDLE,  *)
(* the STATUS the chip answers with, and one byte in DATA.  SELECT,        *)
(* COMMAND and DESELECT only take time.  The chip is outside: two buffers, *)
(* toDev and toHost, and the two lines.                                    *)
(***************************************************************************)
EXTENDS Integers, Sequences

CONSTANTS
  FifoDepth,    \* bytes a FIFO holds
  HostBuffer,   \* bytes the FT232H holds in each direction
  PollPeriod    \* modem_status_counter: DTR is looked at once in so many times

VARIABLES
  ftState, ftCmd, polls,
  rxFifo, rxOut,            \* the FIFO and its output register
  txFifo, txOut,
  rxByte, rxFailed,         \* a byte the full FIFO had no room for
  txFailed,                 \* the byte in txOut was not taken
  resetState,               \* DTR as it was last read
  resetReply, replyPending, \* DSR to be written
  flushBusy,
  toDev, toHost, dtr, dsr   \* the FT232H

rxVars == <<rxFifo, rxByte, rxFailed>>
txVars == <<txFifo, txOut, txFailed>>
modemVars == <<resetState, resetReply, replyPending>>
chipVars == <<toDev, toHost, dtr, dsr>>
ftVars == <<ftState, ftCmd, polls, rxVars, rxOut, txVars, modemVars, flushBusy, chipVars>>

FtInit ==
  /\ ftState = "IDLE" /\ ftCmd = "NONE" /\ polls = 0
  /\ rxFifo = <<>> /\ rxOut = 0 /\ txFifo = <<>> /\ txOut = 0
  /\ rxByte = 0 /\ rxFailed = FALSE /\ txFailed = FALSE
  /\ resetState = FALSE /\ resetReply = FALSE /\ replyPending = TRUE
  /\ flushBusy = FALSE
  /\ toDev = <<>> /\ toHost = <<>> /\ dtr = FALSE /\ dsr = FALSE

RxFull == Len(rxFifo) >= FifoDepth
TxFull == Len(txFifo) >= FifoDepth

-----------------------------------------------------------------------------
(* Between two transactions.                                                *)

\* With a bug: the host's DTR is looked at when there is nothing else to do.
NextCommandPollLast ==
  IF replyPending THEN "WRITE_MODEM"
  ELSE IF txFifo # <<>> \/ txFailed THEN "WRITE"
  ELSE IF polls = PollPeriod - 1 THEN "READ_MODEM"
  ELSE IF ~RxFull THEN "READ"
  ELSE "NONE"

NextCommand ==
  IF replyPending THEN "WRITE_MODEM"
  ELSE IF polls = PollPeriod - 1 THEN "READ_MODEM"
  ELSE IF txFifo # <<>> \/ txFailed THEN "WRITE"
  ELSE IF ~RxFull THEN "READ"
  ELSE "NONE"

NextPoll == polls' = (polls + 1) % PollPeriod

\* With a bug: the byte is forgotten.
FtIdleForgets ==
  /\ ftState = "IDLE" /\ ~flushBusy
  /\ NextPoll
  /\ rxFailed' = (rxFailed /\ RxFull)
  /\ ftCmd' = NextCommand
  /\ ftState' = IF NextCommand = "NONE" THEN "IDLE" ELSE "STATUS"
  /\ UNCHANGED <<rxFifo, rxByte, rxOut, txVars, modemVars, flushBusy, chipVars>>

\* A byte that found the FIFO full goes into it once there is room.
FtIdle ==
  /\ ftState = "IDLE" /\ ~flushBusy
  /\ NextPoll
  /\ rxFailed' = (rxFailed /\ RxFull)
  /\ rxFifo' = IF rxFailed /\ ~RxFull THEN Append(rxFifo, rxByte) ELSE rxFifo
  /\ ftCmd' = NextCommand
  /\ ftState' = IF NextCommand = "NONE" THEN "IDLE" ELSE "STATUS"
  /\ UNCHANGED <<rxByte, rxOut, txVars, modemVars, flushBusy, chipVars>>

FtFlush ==
  /\ ftState = "IDLE" /\ flushBusy
  /\ flushBusy' = FALSE
  /\ rxFifo' = <<>> /\ txFifo' = <<>>
  /\ rxFailed' = FALSE /\ txFailed' = FALSE
  /\ NextPoll
  /\ UNCHANGED <<ftState, ftCmd, rxByte, rxOut, txOut, modemVars, chipVars>>

-----------------------------------------------------------------------------
(* A transaction.                                                           *)

Accepts ==
  /\ ftCmd = "READ" => toDev # <<>>
  /\ ftCmd = "WRITE" => Len(toHost) < HostBuffer

\* The next phase; without one, the command is over.
Phase(state) ==
  /\ ftState' = state
  /\ ftCmd' = IF state = "IDLE" THEN "NONE" ELSE ftCmd

\* The first byte of a write leaves the FIFO here, unless one waits already.
FtStatus ==
  /\ ftState = "STATUS"
  /\ Phase(IF Accepts THEN "DATA" ELSE "IDLE")
  /\ IF Accepts /\ ftCmd = "WRITE" /\ ~txFailed
       THEN txOut' = Head(txFifo) /\ txFifo' = Tail(txFifo)
       ELSE UNCHANGED <<txOut, txFifo>>
  /\ UNCHANGED <<polls, rxVars, rxOut, txFailed, modemVars, flushBusy, chipVars>>

FtRead ==
  /\ ftState = "DATA" /\ ftCmd = "READ"
  /\ Phase(IF Accepts /\ ~RxFull THEN "DATA" ELSE "IDLE")
  /\ rxFailed' = (Accepts /\ RxFull)
  /\ toDev' = IF Accepts THEN Tail(toDev) ELSE toDev
  /\ rxByte' = IF Accepts /\ RxFull THEN Head(toDev) ELSE 0
  /\ rxFifo' = IF Accepts /\ ~RxFull THEN Append(rxFifo, Head(toDev)) ELSE rxFifo
  /\ UNCHANGED <<polls, rxOut, txVars, modemVars, flushBusy, toHost, dtr, dsr>>

FtWrite ==
  /\ ftState = "DATA" /\ ftCmd = "WRITE"
  /\ txFailed' = ~Accepts
  /\ toHost' = IF Accepts THEN Append(toHost, txOut) ELSE toHost
  /\ IF Accepts /\ txFifo # <<>>
       THEN txOut' = Head(txFifo) /\ txFifo' = Tail(txFifo) /\ Phase("DATA")
       ELSE Phase("IDLE") /\ UNCHANGED <<txOut, txFifo>>
  /\ UNCHANGED <<polls, rxVars, rxOut, modemVars, flushBusy, toDev, dtr, dsr>>

FtReadModem ==
  /\ ftState = "DATA" /\ ftCmd = "READ_MODEM"
  /\ Phase("IDLE") /\ resetState' = dtr
  /\ UNCHANGED <<polls, rxVars, rxOut, txVars, resetReply, replyPending,
                 flushBusy, chipVars>>

FtWriteModem ==
  /\ ftState = "DATA" /\ ftCmd = "WRITE_MODEM"
  /\ Phase("IDLE") /\ dsr' = resetReply /\ replyPending' = FALSE
  /\ UNCHANGED <<polls, rxVars, rxOut, txVars, resetState, resetReply,
                 flushBusy, toDev, toHost, dtr>>

FtData == FtRead \/ FtWrite \/ FtReadModem \/ FtWriteModem

\* Bytes that have left one buffer and not reached the next.
RxHeld == IF rxFailed THEN <<rxByte>> ELSE <<>>
TxHeld == IF txFailed \/ (ftState = "DATA" /\ ftCmd = "WRITE") THEN <<txOut>> ELSE <<>>

\* Every byte on its way, the oldest first.
Upstream   == rxFifo \o RxHeld \o toDev
Downstream == toHost \o TxHeld \o txFifo
=============================================================================
