--------------------------- MODULE PathInvariant ---------------------------
(***************************************************************************)
(* What has to hold between any two steps of UsbPath.tla for the bytes to  *)
(* keep their order and their places: how far the reset of the link is,    *)
(* what each of the three machines of the DMA engine holds, and where      *)
(* every byte that has left one place and not reached the next is.         *)
(***************************************************************************)
EXTENDS UsbPath

End  == scb.address + scb.length
Acks == A!AckOf("usb", "sdram")

\* The byte of the host that belongs to an address.
Due(a) == first + a - job.address

LaneCount(mask) == (IF mask[1] THEN 1 ELSE 0) + (IF mask[2] THEN 1 ELSE 0)

-----------------------------------------------------------------------------
(* The types that the sequences need.                                       *)

FlowTyped ==
  /\ mem \in [0 .. Cells - 1 -> Bytes] /\ before \in [0 .. Cells - 1 -> Bytes]
  /\ taken \in Nat /\ first \in Nat
  /\ job \in Jobs \cup {NoJob}
  /\ ctl \in {"run", "stopping", "flushing"} /\ host \in {"up", "on", "off"}
  /\ turn \in {"command", "args", "token", "writing"}
  /\ txFifo \in Seq(Bytes) /\ toHost \in Seq(Bytes) /\ due \in Seq(Bytes)
  /\ txOut \in Bytes
  /\ rBuf \in Bytes \X Bytes /\ txBuf \in Bytes \X Bytes
  /\ rMask \in {Both, High, Low} /\ txValid \in BOOLEAN \X BOOLEAN
  /\ rxState \in {"IDLE", "FIRST", "SECOND", "ACK"}
  /\ txState \in {"IDLE", "WAIT", "FIRST", "SECOND"}
  /\ {dmaStop, wEmpty, wReady, rReady, rAck, rEnd, shifted, txWaiting, lastReset, resetState,
      resetReply, replyPending, dtr, dsr, flushBusy, rxFailed, txFailed} \subseteq BOOLEAN

-----------------------------------------------------------------------------
(* The reset of the link.                                                   *)

\* The FIFOs have been flushed since the host began to reset.
Cleared == \/ ctl = "flushing" /\ ~flushBusy
           \/ ctl = "run" /\ lastReset
           \/ host = "off"

Handshake ==
  /\ ~replyPending => dsr = resetReply
  /\ ~lastReset => ctl = "run" /\ ~resetReply
  /\ ctl # "run" => ~dsr /\ ~resetReply
  /\ lastReset /\ ctl = "run" => resetReply
  /\ lastReset /\ host = "on" => resetState
  /\ flushBusy => ctl = "flushing"
  /\ host = "up" => ~dtr /\ ~resetState /\ ~lastReset /\ ~dsr
  /\ host = "on" => dtr /\ (~lastReset => ~dsr)
  /\ host = "off" => /\ ~dtr /\ ctl = "run"
                     /\ lastReset => dsr
                     /\ ~lastReset => ~resetState
  /\ host # "up" => toDev = <<>>
  /\ ctl = "flushing" \/ Cleared => turn = "command" /\ job = NoJob
  /\ Cleared => Upstream = <<>> /\ taken = sent

-----------------------------------------------------------------------------
(* The controller and the engine.                                           *)

Quiet == memState = "IDLE" /\ rxState = "IDLE" /\ txState = "IDLE"

Commands ==
  /\ ~busy => Quiet
  /\ dmaStart => Quiet /\ ~dmaStop /\ ~scb.start
  /\ scb.start => ~busy /\ ~scb.stop /\ ctl = "run"
  /\ scb.stop => ctl = "stopping"
  /\ ctl = "stopping" => scb.stop \/ dmaStop
  /\ ctl = "flushing" => ~busy
  /\ ctl = "run" /\ dmaStop => job = NoJob \/ scb.start
  /\ job = NoJob => ~busy /\ ~scb.start
  /\ job # NoJob => /\ scb.write = job.write
                    /\ scb.address = job.address /\ scb.length = job.length
  /\ job.write /\ ~DmaReady /\ ctl = "run" => turn = "writing"
  /\ turn = "writing" => job.write /\ first + job.length = taken + 1

-----------------------------------------------------------------------------
(* The words on the bus.                                                    *)

\* The job has begun and is not over.
Moving == memState # "IDLE"

\* The job is over, and nobody stopped it.
Finished == /\ job # NoJob /\ memState = "IDLE"
            /\ ~scb.start /\ ~dmaStart /\ ~scb.stop /\ ~dmaStop

\* The first byte of the word on the bus.
BusFirst == bus.address + IF bus.mask[1] THEN 0 ELSE 1

\* The first byte that has not been on the bus.
NextByte == End - left

BusOk ==
  /\ Moving => bus.write = job.write /\ left <= job.length
  /\ memState = "WAIT" => left > 0
  /\ memState = "TRANSFER" => /\ BusFirst + LaneCount(bus.mask) = NextByte
                              /\ BusFirst >= job.address
  /\ Finished => left = 0

-----------------------------------------------------------------------------
(* A transfer to the memory.                                                *)

\* The lanes of the next word, and what its buffer will be at the next edge.
NextLanes == IF oddStart THEN Low ELSE IF oddEnd /\ AlmostLastWord THEN High ELSE Both
Gathered  == IF shifted THEN <<wBuf[2], rxOut>> ELSE wBuf

\* Where the engine gathers bytes, and what it has of the next word.
Gathers ==
  /\ ~job.write => rxState = "IDLE" /\ (Moving => wEmpty /\ ~wReady)
  /\ ~dmaStop /\ Moving /\ job.write /\ rxState = "IDLE" => left = 0
  /\ ~dmaStop /\ rxState = "FIRST" =>
       ~wReady /\ ~shifted /\ (wEmpty \/ (memState = "TRANSFER" /\ left > 0))
  /\ ~dmaStop /\ rxState = "SECOND" =>
       /\ ~wReady /\ wEmpty /\ left > 0 /\ Moving
       /\ WordLanes = High => shifted
  /\ ~dmaStop /\ rxState = "ACK" => wReady = ~shifted /\ wEmpty /\ left > 0 /\ Moving

GatheredOk ==
  /\ ~dmaStop /\ rxState = "SECOND" /\ WordLanes[1] => Gathered[2] = Due(NextByte)
  /\ ~dmaStop /\ (rxState = "ACK" \/ (rxState = "FIRST" /\ ~wEmpty)) =>
       /\ NextLanes[1] => Gathered[1] = Due(NextByte)
       /\ NextLanes[2] => Gathered[2] = Due(NextByte + IF NextLanes[1] THEN 1 ELSE 0)

\* The bytes the engine has still to take from the FIFO.
ToGather ==
  IF ~job.write THEN 0
  ELSE IF scb.start \/ dmaStart THEN job.length
  ELSE IF rxState = "IDLE" THEN 0
  ELSE IF rxState = "FIRST" /\ wEmpty THEN left
  ELSE IF rxState = "SECOND" THEN left - IF WordLanes[1] THEN 1 ELSE 0
  ELSE left - LaneCount(NextLanes)

\* The word on the bus, and what has been written.
WrittenOk ==
  /\ \A a \in 0 .. Cells - 1 :
       \/ mem[a] = before[a]
       \/ job.write /\ a \in Window /\ mem[a] = Due(a)
  /\ job.write /\ memState = "TRANSFER" =>
       /\ bus.mask[1] => bus.wdata[1] = Due(bus.address)
       /\ bus.mask[2] => bus.wdata[2] = Due(bus.address + 1)
  /\ job.write /\ Moving =>
       \A a \in Window :
         a < (IF memState = "TRANSFER" /\ ~Acks THEN BusFirst ELSE NextByte) => mem[a] = Due(a)
  /\ job.write /\ Finished => \A a \in Window : mem[a] = Due(a)

\* The bytes on their way to the controller follow each other.
UpstreamOk ==
  ctl = "run" \/ (ctl = "flushing" /\ ~flushBusy) =>
    /\ \A i \in 1 .. Len(Upstream) : Upstream[i] = taken - ToGather + i
    /\ host = "up" => Len(Upstream) = sent - taken + ToGather

-----------------------------------------------------------------------------
(* A transfer from the memory.                                              *)

\* A word has been read and not been taken.
Untaken == rAck \/ txWaiting

Spreads ==
  /\ rAck => ~ack["sdram"]
  /\ job.write => txState = "IDLE" /\ (Moving => ~rReady)
  /\ Moving => ~rEnd
  /\ ~dmaStop /\ Moving /\ ~job.write => txState # "IDLE"
  /\ ~dmaStop /\ ~Moving /\ txState # "IDLE" => rEnd /\ left = 0
  /\ TxSpreads => ~rReady /\ (rAck => memState # "TRANSFER")
  /\ txState = "SECOND" => ~txValid[2]
  /\ txWaiting /\ txState # "IDLE" => memState # "TRANSFER"

\* The bytes that have been asked for or read, and not been given to the FIFO.
OnBus    == IF memState = "TRANSFER" THEN LaneCount(bus.mask) ELSE 0
InBuffer == IF Untaken THEN LaneCount(rMask) ELSE 0
InTx     == IF TxSpreads THEN LaneCount(txValid) ELSE 0

\* The bytes the FIFO has still to get.
ToSpread ==
  IF job.write \/ job = NoJob THEN 0
  ELSE IF scb.start \/ dmaStart THEN job.length
  ELSE IF txState = "IDLE" THEN 0
  ELSE InTx + InBuffer + OnBus + left

\* A pair of bytes that begins with the byte at an address.
Holds(pair, mask, a) ==
  /\ mask[1] => pair[1] = mem[a]
  /\ mask[2] => pair[2] = mem[a + IF mask[1] THEN 1 ELSE 0]

SpreadOk ==
  ~job.write /\ ~dmaStop /\ txState # "IDLE" =>
    /\ TxSpreads => Holds(txBuf, txValid, NextByte - OnBus - InBuffer - InTx)
    /\ Untaken => Holds(rBuf, rMask, NextByte - OnBus - InBuffer)

\* Nobody has lost sight of the bytes that are still to come ...
Streams == ctl = "run" \/ (ctl = "flushing" /\ ~flushBusy) \/ (scb.stop /\ busy /\ ~dmaStop)

DownstreamOk ==
  /\ IsPrefixOf(Downstream, due)
  /\ Streams => /\ Len(due) = Len(Downstream) + ToSpread
                /\ \A i \in 1 .. ToSpread :
                     due[Len(Downstream) + i] = mem[End - ToSpread + i - 1]
  \* ... and the byte that goes out next is the right one, also after a stop.
  /\ TxSpreads /\ txValid[1] => /\ Len(Downstream) < Len(due)
                                /\ txBuf[1] = due[Len(Downstream) + 1]

-----------------------------------------------------------------------------
(* The USB interface.                                                       *)

Transactions ==
  /\ ftState = "STATUS" /\ ftCmd = "WRITE" => txFifo # <<>> \/ txFailed
  /\ ftState # "IDLE" /\ ftCmd = "READ" => ~rxFailed

-----------------------------------------------------------------------------
EnginePart == BusOk /\ Gathers /\ GatheredOk /\ WrittenOk /\ Spreads /\ SpreadOk

FlowInv ==
  FlowTyped /\ Handshake /\ Commands /\ EnginePart /\ UpstreamOk /\ DownstreamOk /\ Transactions
=============================================================================
