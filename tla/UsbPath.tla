------------------------------ MODULE UsbPath ------------------------------
(***************************************************************************)
(* The way of a byte between the PC and the cartridge's memory: the host   *)
(* (sw/deployer/src/sc64/link.rs), the FT232H, the USB interface of the    *)
(* FPGA (UsbFt1248), its DMA engine (MemoryDma), the arbiter               *)
(* (MemoryArbiter) and a memory, with the controller (usb.c) that starts   *)
(* the transfers, moves the bytes of the headers itself, and clears the    *)
(* way when the host resets the link.                                      *)
(*                                                                         *)
(* Tick is a clock edge of the DMA engine, the arbiter, the memory and the *)
(* N64.  A phase of a USB transaction, an access of the controller to a    *)
(* register and a call of the host last many clocks, so they are steps of  *)
(* their own, at any point between two ticks.                              *)
(*                                                                         *)
(* The host's bytes are numbered from 1 on; the cells of the memory start  *)
(* with distinct negative numbers, and 0 is a byte of a header.            *)
(***************************************************************************)
EXTENDS UsbFt1248, MemoryDma

CONSTANTS
  Cells,          \* bytes of memory: the addresses 0 .. Cells - 1
  Jobs,           \* [write, address, length] of the transfers
  MaxSent,        \* bytes the host sends
  MaxJobs,
  MaxEvents       \* resets and accesses of the N64

ASSUME MemoryAssumption ==   \* whole words, and transfers that stay within them
  /\ Cells \in Nat /\ Cells % 2 = 0 /\ MaxSent \in Nat
  /\ Jobs \subseteq [write : BOOLEAN, address : Nat, length : Nat \ {0}]
  /\ \A j \in Jobs : j.address + j.length <= Cells

VARIABLES
  mem, arb, ack, n64,      \* n64: [request, active], its bus
  job,                     \* the last transfer
  turn,                    \* what the controller does about a command
  ctl, lastReset,          \* usb_reset() in progress; p.last_reset_state
  host,                    \* where reset() of link.rs is
  sent, taken, first,      \* host bytes: sent, claimed, the first of the job
  due,                     \* what the controller has had sent to the host
  before,                  \* the memory when the job began
  count                    \* what the bounds are about

ctlVars  == <<job, turn, ctl, lastReset>>
ghosts   == <<sent, taken, first, due, before, count>>
clockVars == <<mem, arb, ack, n64>>
vars == <<ftVars, dmaVars, clockVars, ctlVars, host, ghosts>>

-----------------------------------------------------------------------------
(* The clients of the arbiter.                                              *)

Bytes == (-Cells .. MaxSent) \cup {None}

Access == [mem : {"sdram"}, write : BOOLEAN, mask : {Both, High, Low},
           address : 0 .. Cells, wdata : Bytes \X Bytes]

Asks ==
  [c \in {"n64", "cfg", "usb", "sd"} |->
     CASE c = "usb" -> bus.request [] c = "n64" -> n64.request [] OTHER -> FALSE]

Reading0 == [mem |-> "sdram", write |-> FALSE, mask |-> Both, address |-> 0,
             wdata |-> <<None, None>>]

Accesses ==
  [c \in {"n64", "cfg", "usb", "sd"} |->
     IF c = "usb"
       THEN [mem |-> "sdram", write |-> bus.write, mask |-> bus.mask,
             address |-> bus.address, wdata |-> bus.wdata]
       ELSE Reading0]

A == INSTANCE MemoryArbiter WITH
       request <- Asks, access <- Accesses,
       active <- [m \in {"sdram", "flash", "bram"} |-> m = "sdram" /\ n64.active]

-----------------------------------------------------------------------------
(* The clock.                                                               *)

Word(a) == <<mem[a], mem[a + 1]>>

\* The memory does what the arbiter holds for it, in its own time.
MemoryAnswers(now) ==
  LET a == arb["sdram"].access
  IN  /\ now => arb["sdram"].request /\ ~ack["sdram"]
      /\ ack' = [ack EXCEPT !["sdram"] = now]
      /\ mem' = IF now /\ a.write
                THEN [mem EXCEPT ![a.address] = IF a.mask[1] THEN a.wdata[1] ELSE @,
                                 ![a.address + 1] = IF a.mask[2] THEN a.wdata[2] ELSE @]
                ELSE mem

\* The N64 puts an address of the memory on its bus, reads, and ends.
N64Step ==
  \/ n64' = [n64 EXCEPT !.request = @ /\ ~A!AckOf("n64", "sdram")] /\ UNCHANGED count
  \/ /\ ~n64.active /\ ~n64.request /\ busy /\ count.events < MaxEvents
     /\ n64' = [n64 EXCEPT !.active = TRUE]
     /\ count' = [count EXCEPT !.events = @ + 1]
  \/ /\ n64.active /\ ~n64.request
     /\ n64' = [n64 EXCEPT !.request = TRUE] /\ UNCHANGED count
  \/ /\ n64.active
     /\ n64' = [request |-> n64.request /\ ~A!AckOf("n64", "sdram"), active |-> FALSE]
     /\ UNCHANGED count

RxEmpty == rxFifo = <<>>
Reads   == RxReads(RxEmpty)
Writes  == TxWrites(TxFull)

Tick(now) ==
  /\ arb' = [m \in A!Memories |-> A!Latch(m)]
  /\ MemoryAnswers(now)
  /\ N64Step
  /\ DmaTick(A!AckOf("usb", "sdram"),
             IF A!AckOf("usb", "sdram") THEN Word(bus.address) ELSE <<None, None>>,
             RxEmpty, rxOut, TxFull)
  /\ rxFifo' = IF Reads THEN Tail(rxFifo) ELSE rxFifo
  /\ rxOut' = IF Reads THEN Head(rxFifo) ELSE rxOut
  /\ txFifo' = IF Writes THEN Append(txFifo, txBuf[1]) ELSE txFifo
  /\ UNCHANGED <<ftState, ftCmd, polls, rxByte, rxFailed, txOut, txFailed, modemVars,
                 flushBusy, chipVars, ctlVars, host, sent, taken, first, due, before>>

-----------------------------------------------------------------------------
(* The controller.                                                          *)

NoJob == [write |-> FALSE, address |-> 0, length |-> 0]

DmaReady == ~busy /\ ~scb.start /\ ~scb.stop

\* usb_is_active() looked at the reset line before what the controller does in
\* the rest of the turn.
Active == ctl = "run" /\ ~lastReset

\* A command is a byte the controller takes itself, also while it still sends
\* the data of the last one ...
Pop ==
  /\ Active /\ turn = "command" /\ ~RxEmpty /\ count.jobs < MaxJobs
  /\ turn' = "args"
  /\ rxFifo' = Tail(rxFifo) /\ rxOut' = Head(rxFifo)
  /\ taken' = taken + 1
  /\ UNCHANGED <<ftState, ftCmd, polls, rxByte, rxFailed, txVars, modemVars, flushBusy,
                 chipVars, dmaVars, clockVars, job, ctl, lastReset, host, sent, first,
                 due, before, count>>

\* ... and the response another: before the data it reads, or after the data it
\* wrote.
Push ==
  /\ Active /\ DmaReady /\ ~TxFull
  /\ \/ turn = "args" /\ turn' = "token"
     \/ turn = "writing" /\ turn' = "command"
  /\ txFifo' = Append(txFifo, 0)
  /\ due' = Append(due, 0)
  /\ UNCHANGED <<ftState, ftCmd, polls, rxVars, rxOut, txOut, txFailed, modemVars,
                 flushBusy, chipVars, dmaVars, clockVars, job, ctl, lastReset, host,
                 sent, taken, first, before, count>>

StartDma(j) ==
  /\ Active /\ DmaReady
  /\ IF j.write THEN turn = "args" /\ turn' = "writing" /\ taken + j.length <= MaxSent
                ELSE turn = "token" /\ turn' = "command"
  /\ job' = j
  /\ DmaCommand([start |-> TRUE, stop |-> FALSE, write |-> j.write,
                 address |-> j.address, length |-> j.length])
  /\ first' = taken + 1
  /\ taken' = IF j.write THEN taken + j.length ELSE taken
  /\ due' = IF j.write THEN due ELSE due \o [i \in 1 .. j.length |-> mem[j.address + i - 1]]
  /\ before' = mem
  /\ count' = [count EXCEPT !.jobs = @ + 1]
  /\ UNCHANGED <<ftVars, dmaStart, dmaStop, busy, busVars, rxSide, txSide, clockVars,
                 ctl, lastReset, host, sent>>

\* usb_is_active() finds DTR set: usb_reset() ...
ResetDma ==
  /\ Active /\ resetState
  /\ lastReset' = TRUE /\ ctl' = "stopping"
  /\ DmaCommand([scb EXCEPT !.start = FALSE, !.stop = TRUE])
  /\ UNCHANGED <<ftVars, dmaStart, dmaStop, busy, busVars, rxSide, txSide, clockVars,
                 job, turn, host, ghosts>>

\* With a bug: without waiting.
ResetFifosAtOnce ==
  /\ ctl = "stopping"
  /\ ctl' = "flushing" /\ flushBusy' = TRUE
  /\ job' = NoJob /\ turn' = "command" /\ before' = mem
  /\ UNCHANGED <<ftState, ftCmd, polls, rxVars, rxOut, txVars, modemVars, chipVars,
                 dmaVars, clockVars, lastReset, host, sent, taken, first, due, count>>

\* ... waits for the DMA engine, and has the FIFOs flushed ...
ResetFifos ==
  /\ ctl = "stopping" /\ DmaReady
  /\ ctl' = "flushing" /\ flushBusy' = TRUE
  /\ job' = NoJob /\ turn' = "command" /\ before' = mem
  /\ UNCHANGED <<ftState, ftCmd, polls, rxVars, rxOut, txVars, modemVars, chipVars,
                 dmaVars, clockVars, lastReset, host, sent, taken, first, due, count>>

Reply(level) == resetReply' = level /\ replyPending' = TRUE

\* ... and tells the host when that is done.
ResetOnAck ==
  /\ ctl = "flushing" /\ ~flushBusy
  /\ ctl' = "run" /\ Reply(TRUE)
  /\ UNCHANGED <<ftState, ftCmd, polls, rxVars, rxOut, txVars, resetState, flushBusy,
                 chipVars, dmaVars, clockVars, job, turn, lastReset, host, ghosts>>

ResetOffAck ==
  /\ ctl = "run" /\ lastReset /\ ~resetState
  /\ lastReset' = FALSE /\ Reply(FALSE)
  /\ UNCHANGED <<ftState, ftCmd, polls, rxVars, rxOut, txVars, resetState, flushBusy,
                 chipVars, dmaVars, clockVars, job, turn, ctl, host, ghosts>>

-----------------------------------------------------------------------------
(* The USB interface; a flush forgets what was on its way.                  *)

FtStep ==
  /\ \/ FtIdle \/ FtStatus \/ FtData
     \/ FtFlush
  /\ taken' = IF flushBusy /\ ~flushBusy' THEN sent ELSE taken
  /\ due' = IF flushBusy /\ ~flushBusy' THEN toHost ELSE due
  /\ UNCHANGED <<dmaVars, clockVars, ctlVars, host, sent, first, before, count>>

-----------------------------------------------------------------------------
(* The host.                                                                *)

ftRest == <<ftState, ftCmd, polls, rxVars, rxOut, txVars, modemVars, flushBusy, dsr>>
hostRest == <<ftRest, dmaVars, clockVars, ctlVars, first, before>>

HostSend ==
  /\ host = "up" /\ sent < MaxSent /\ Len(toDev) < HostBuffer
  /\ sent' = sent + 1 /\ toDev' = Append(toDev, sent + 1)
  /\ UNCHANGED <<hostRest, toHost, dtr, host, taken, due, count>>

HostReceive ==
  /\ host = "up" /\ toHost # <<>>
  /\ toHost' = Tail(toHost) /\ due' = Tail(due)
  /\ UNCHANGED <<hostRest, toDev, dtr, host, sent, taken, count>>

\* reset(): discard_output(), set_dtr(true) ...
HostReset ==
  /\ host = "up" /\ count.events < MaxEvents
  /\ host' = "on" /\ dtr' = TRUE /\ toDev' = <<>>
  /\ count' = [count EXCEPT !.events = @ + 1]
  /\ UNCHANGED <<hostRest, toHost, sent, taken, due>>

\* ... until DSR, then discard_input(), set_dtr(false) ...
HostRelease ==
  /\ host = "on" /\ dsr
  /\ host' = "off" /\ dtr' = FALSE /\ toHost' = <<>>
  /\ due' = SubSeq(due, Len(toHost) + 1, Len(due))
  /\ UNCHANGED <<hostRest, toDev, sent, taken, count>>

\* ... until it is gone.
HostUp ==
  /\ host = "off" /\ ~dsr
  /\ host' = "up"
  /\ UNCHANGED <<hostRest, toDev, toHost, dtr, sent, taken, due, count>>

-----------------------------------------------------------------------------
Idle == [request |-> FALSE, source |-> "n64", access |-> Reading0]

Init ==
  /\ FtInit /\ DmaInit
  /\ mem = [a \in 0 .. Cells - 1 |-> -(a + 1)]
  /\ arb = [m \in {"sdram", "flash", "bram"} |-> Idle]
  /\ ack = [m \in {"sdram", "flash", "bram"} |-> FALSE]
  /\ n64 = [request |-> FALSE, active |-> FALSE]
  /\ job = NoJob /\ turn = "command"
  /\ ctl = "run" /\ lastReset = FALSE /\ host = "up"
  /\ sent = 0 /\ taken = 0 /\ first = 1 /\ due = <<>> /\ before = mem
  /\ count = [jobs |-> 0, events |-> 0]

Clock      == Tick(TRUE) \/ Tick(FALSE)
Transfers  == Pop \/ Push \/ \E j \in Jobs : StartDma(j)
Resets     == ResetDma \/ ResetFifos \/ ResetOnAck \/ ResetOffAck
HostResets == HostReset \/ HostRelease \/ HostUp

Next == Clock \/ Transfers \/ Resets \/ FtStep \/ HostSend \/ HostReceive \/ HostResets

\* The clock runs, the memory answers, the machine of the USB interface and the
\* controller's turns go on, and so does the host: it sends what it has to (not
\* more than MaxSent) and reads while it does not reset, and goes on with the
\* reset it began.
HostGoesOn == HostSend \/ HostReceive \/ HostRelease \/ HostUp

Fairness ==
  /\ WF_vars(Tick(TRUE))
  /\ WF_vars(Tick(FALSE) /\ ~n64'.active)
  /\ WF_vars(FtStep) /\ WF_vars(Resets) /\ WF_vars(HostGoesOn)

Spec == Init /\ [][Next]_vars /\ Fairness

-----------------------------------------------------------------------------
Window == job.address .. job.address + job.length - 1
Stopped == ctl # "run" \/ lastReset

IsPrefixOf(s, t) == Len(s) <= Len(t) /\ s = SubSeq(t, 1, Len(s))

\* The bytes on their way to the controller are those the host has sent and
\* nobody has taken, in their order: a transfer takes no byte too many or too
\* few whatever its address and length, the byte the full FIFO refused keeps
\* its place, and after a reset nothing of the time before is left.
UpstreamInOrder ==
  host = "up" /\ ~Stopped =>
    IF job.write /\ ~DmaReady
      THEN \E n \in 0 .. job.length : Upstream = [i \in 1 .. sent - taken + n |-> taken - n + i]
      ELSE Upstream = [i \in 1 .. sent - taken |-> taken + i]

\* A transfer to the memory puts the host's bytes in their places and changes
\* nothing else, one from the memory changes nothing, and when the engine is
\* ready again no byte is missing; once a reset has gone on to flush the FIFOs
\* nothing more is written.
PayloadInPlace ==
  /\ \A a \in 0 .. Cells - 1 :
       \/ mem[a] = before[a]
       \/ job.write /\ a \in Window /\ mem[a] = first + a - job.address
  /\ job.write /\ DmaReady /\ ~Stopped =>
       \A a \in Window : mem[a] = first + a - job.address

\* What the host receives is what the controller had sent, in order: no byte is
\* lost when the FT232H has no room, doubled when it has again, or left over
\* from before a reset.
DownstreamInOrder ==
  /\ IsPrefixOf(Downstream, due)
  /\ DmaReady => Len(Downstream) = Len(due) \/ Stopped

\* No byte is lost, doubled or moved before another, either way
\* (usb_ft1248.sv:153-190, usb.c:87-150).
BytesInOrder == UpstreamInOrder /\ DownstreamInOrder

\* The engine is the client the arbiter expects: it holds each request, with its
\* address and data, until the acknowledgement, whatever the N64 does meanwhile
\* (memory_dma.sv:112-140, memory_arbiter.sv); the path implements MemoryArbiter.
UsesArbiter == A!Spec

\* A transfer ends, whoever has no room or no byte for a while.
TransfersEnd == busy ~> ~busy

\* The host that resets the link gets it back, though it does not read while it
\* waits and a transfer may be under way (link.rs, usb.c:143-172).
ResetEnds == host = "on" ~> host = "up"
=============================================================================
