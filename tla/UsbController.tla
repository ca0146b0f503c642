--------------------------- MODULE UsbController ---------------------------
(***************************************************************************)
(* The USB side of the controller, sw/controller/src/usb.c, between the    *)
(* host, the byte FIFOs and the DMA engine of the FPGA, and the rest of    *)
(* the main loop.                                                          *)
(*                                                                         *)
(* usb_process runs once per turn of the main loop.  "pc" says where the   *)
(* single-threaded controller is: about to look at the link state          *)
(* ("poll"), in usb_rx_process ("rx"), in usb_tx_process ("tx"), or in the *)
(* other components ("other"), which enqueue packets and prepare reads.    *)
(* A step of the controller is one pass over one state of the rx or tx     *)
(* machine: it keeps pc when the C code falls through to the next state    *)
(* and moves on when the C code returns.  The host, the DMA engine, the    *)
(* timer interrupt and the link state move between any two of them.        *)
(*                                                                         *)
(* A stream is a sequence of items: a command and its argument words, a    *)
(* packet header with its inline words, and one item per unit of payload.  *)
(* Only the host adds framing: the DMA engine moves whatever comes next.   *)
(*                                                                         *)
(* A command stands for what it does to this machine, with as many         *)
(* argument words as it has.  What it does to the card, its lock and the   *)
(* save writeback is an action of SaveWriteback.  The host sends whole     *)
(* commands; usb_rx_cmd throws away what does not begin with the token,    *)
(* without an effect on anything else.                                     *)
(***************************************************************************)
EXTENDS Integers, Sequences

CONSTANTS
  Commands,          \* [op, len, bad, typed] records the host sends
  CallbackSources,   \* enqueue packets with a done_callback: cfg.c, isv.c
  WaitingSources,    \* those that wait for it before the next packet: isv.c
  EventSources,      \* enqueue packets without one: button.c, dd.c, ...
  PacketLengths,     \* DMA lengths of their packets
  ReadLengths,       \* lengths the N64 asks for in usb_prepare_read
  FlushChunk,        \* RX_FLUSH_LENGTH
  RxSpace, TxSpace,  \* capacity of the two FIFOs
  MaxOwed            \* responses the host waits for at a time

Ops == {"Q", "m", "M", "U"}   \* answered at once / read / write / debug

CommandType == [op : Ops, len : Nat, bad : BOOLEAN, typed : BOOLEAN]

Sources == CallbackSources \cup EventSources

ASSUME CommandsAssumption == Commands \subseteq CommandType
\* usb_validate_address_length refuses an empty access
ASSUME EmptyAccessAssumption ==
  \A c \in Commands : c.op \in {"m", "M"} /\ c.len = 0 => c.bad
ASSUME LengthsAssumption ==
  /\ PacketLengths \subseteq Nat
  /\ ReadLengths \subseteq Nat
  /\ FlushChunk \in Nat \ {0}
ASSUME SourcesAssumption ==
  /\ CallbackSources \cap EventSources = {}
  /\ WaitingSources \subseteq CallbackSources
  /\ "G" \notin Sources /\ Ops \cap Sources = {}

VARIABLES
  host,        \* "run", "reset" (DTR set) or "release" (DTR cleared again)
  todo,        \* rest of the command the host is sending
  owed,        \* ops whose response the host waits for (history)
  hostLeft,    \* payload units the host expects before the next header
  rxq, txq,    \* the FIFOs
  pwrsav,      \* USB suspended or unplugged
  dmaDir, dmaLeft,
  timer,       \* TIMER_ID_USB is running
  pc, lastReset,
  rxState, rxCmd, rxLeft, rxDma, flush,
  armed,       \* the timeout was started since the command came (history)
  respPending, resp,
  pktPending, pkt,
  txState, tx, txDma,
  readReady, readLen,
  calls        \* per callback source: callbacks still to come (history)

hostVars == <<host, todo, owed, hostLeft>>
rxVars   == <<rxState, rxCmd, rxLeft, rxDma, flush, armed>>
respVars == <<respPending, resp>>
pktVars  == <<pktPending, pkt, calls>>
txVars   == <<txState, tx, txDma>>
readVars == <<readReady, readLen>>
dmaVars  == <<dmaDir, dmaLeft>>
vars == <<hostVars, rxq, txq, pwrsav, dmaVars, timer, pc, lastReset,
          rxVars, respVars, pktVars, txVars, readVars>>

NoCmd == [op |-> "Q", len |-> 0, bad |-> FALSE, typed |-> FALSE]
NoMsg == [kind |-> "CMP", id |-> "Q", len |-> 0, cb |-> FALSE]

Message(kind, id, len, cb) == [kind |-> kind, id |-> id, len |-> len, cb |-> cb]

Cmd(c) == [t |-> "cmd", c |-> c]
Args   == [t |-> "args"]
Data   == [t |-> "data"]
Header(m) == [t |-> "hdr", kind |-> m.kind, id |-> m.id, len |-> m.len]

Min2(a, b) == IF a < b THEN a ELSE b

DmaReady == dmaLeft = 0

Init ==
  /\ host = "run" /\ todo = <<>> /\ owed = <<>> /\ hostLeft = 0
  /\ rxq = <<>> /\ txq = <<>> /\ pwrsav = FALSE
  /\ dmaDir = "rx" /\ dmaLeft = 0 /\ timer = FALSE
  /\ pc = "other" /\ lastReset = FALSE
  /\ rxState = "IDLE" /\ rxCmd = NoCmd /\ rxLeft = 0 /\ rxDma = FALSE /\ flush = "none"
  /\ armed = FALSE
  /\ respPending = FALSE /\ resp = NoMsg
  /\ pktPending = FALSE /\ pkt = NoMsg
  /\ txState = "IDLE" /\ tx = NoMsg /\ txDma = FALSE
  /\ readReady = TRUE /\ readLen = 0
  /\ calls = [s \in CallbackSources |-> 0]

-----------------------------------------------------------------------------
(* The link: usb_is_active and the inactive branch of usb_process.          *)

\* usb_flush_packet: a waiting packet with a callback is dropped, the packet
\* being sent keeps going, and both are handed back to their producers.
InSlot(s)  == pktPending /\ pkt.cb /\ pkt.id = s
InFlight(s) == txState # "IDLE" /\ tx.cb /\ tx.id = s
HandBack(s) == (IF InSlot(s) THEN 1 ELSE 0) + (IF InFlight(s) THEN 1 ELSE 0)

\* Bug: the packet stays in the slot although its callback was called.
FlushPacketKept ==
  /\ calls' = [s \in CallbackSources |-> calls[s] - HandBack(s)]
  /\ UNCHANGED <<pktPending, pkt>>

FlushPacket ==
  /\ pktPending' = (pktPending /\ ~pkt.cb)
  /\ pkt' = IF pkt.cb THEN NoMsg ELSE pkt
  /\ calls' = [s \in CallbackSources |-> calls[s] - HandBack(s)]

\* Bug: a response that was waiting survives the reset.
ResetStateKeepsResponse ==
  /\ rxq' = <<>> /\ txq' = <<>> /\ dmaLeft' = 0 /\ UNCHANGED <<dmaDir, respVars>>
  /\ rxState' = "IDLE" /\ rxCmd' = NoCmd /\ rxLeft' = 0 /\ rxDma' = FALSE
  /\ flush' = "none" /\ armed' = FALSE
  /\ txState' = "IDLE" /\ tx' = NoMsg /\ txDma' = FALSE
  /\ readReady' = TRUE /\ readLen' = 0

\* usb_reset, after usb_flush_packet: both FIFOs and the DMA engine are
\* stopped and emptied, every machine goes back to its first state.
ResetState ==
  /\ rxq' = <<>> /\ txq' = <<>> /\ dmaLeft' = 0 /\ UNCHANGED dmaDir
  /\ rxState' = "IDLE" /\ rxCmd' = NoCmd /\ rxLeft' = 0 /\ rxDma' = FALSE
  /\ flush' = "none" /\ armed' = FALSE
  /\ txState' = "IDLE" /\ tx' = NoMsg /\ txDma' = FALSE
  /\ respPending' = FALSE /\ resp' = NoMsg
  /\ readReady' = TRUE /\ readLen' = 0

ResetRequested == host = "reset"

\* The edge into reset: acknowledged to the host through last_reset_state.
PollResetOn ==
  /\ pc = "poll" /\ ResetRequested /\ ~lastReset
  /\ lastReset' = TRUE
  /\ calls' = [s \in CallbackSources |-> calls[s] - HandBack(s)]
  /\ pktPending' = FALSE /\ pkt' = NoMsg
  /\ ResetState
  /\ pc' = "other"
  /\ UNCHANGED <<hostVars, pwrsav, timer>>

\* The edge out of reset, and every turn that finds the link in reset or
\* suspended: packets with callbacks are flushed, nothing else moves.
PollInactive ==
  /\ pc = "poll"
  /\ \/ ~ResetRequested /\ lastReset
     \/ ResetRequested /\ lastReset
     \/ ~ResetRequested /\ ~lastReset /\ pwrsav
  /\ lastReset' = ResetRequested
  /\ FlushPacket
  /\ tx' = [tx EXCEPT !.cb = FALSE]
  /\ pc' = "other"
  /\ UNCHANGED <<hostVars, rxq, txq, pwrsav, dmaVars, timer, rxVars, respVars,
                 txState, txDma, readVars>>

PollActive ==
  /\ pc = "poll" /\ ~ResetRequested /\ ~lastReset /\ ~pwrsav
  /\ pc' = "rx"
  /\ UNCHANGED <<hostVars, rxq, txq, pwrsav, dmaVars, timer, lastReset, rxVars,
                 respVars, pktVars, txVars, readVars>>

-----------------------------------------------------------------------------
(* usb_rx_process                                                           *)

InRx(state) == pc = "rx" /\ rxState = state

\* Return from usb_rx_process, leaving everything as it is.
RxWait ==
  /\ pc' = "tx"
  /\ UNCHANGED <<hostVars, rxq, txq, pwrsav, dmaVars, timer, lastReset, rxVars,
                 respVars, pktVars, txVars, readVars>>

RxNothing ==
  /\ \/ InRx("IDLE") /\ (respPending \/ rxq = <<>>)
     \/ InRx("ARGS") /\ rxq = <<>>
     \/ InRx("DATA") /\ rxCmd.op = "M" /\ ~DmaReady
     \/ InRx("DATA") /\ rxCmd.op = "U" /\ rxLeft > 0
          /\ (~DmaReady \/ (readLen = 0 /\ timer))
     \/ InRx("FLUSH") /\ rxLeft > 0 /\ ~DmaReady
     \/ InRx("FLUSH") /\ rxLeft = 0 /\ flush = "packet" /\ pktPending
  /\ RxWait

\* A command is only read while no response is waiting; usb_rx_cmd takes
\* nothing but the CMD token for one.
CommandComes == rxq # <<>> /\ Head(rxq).t = "cmd"

RxIdle ==
  /\ InRx("IDLE") /\ ~respPending /\ CommandComes
  /\ rxq' = Tail(rxq)
  /\ rxState' = "ARGS" /\ rxCmd' = Head(rxq).c /\ rxDma' = FALSE
  /\ flush' = "none" /\ armed' = FALSE
  /\ UNCHANGED <<hostVars, txq, pwrsav, dmaVars, timer, pc, lastReset, rxLeft,
                 respVars, pktVars, txVars, readVars>>

\* Bug: the timeout of a debug write is not started.
RxArgsNoTimer ==
  /\ InRx("ARGS") /\ rxq # <<>>
  /\ rxq' = Tail(rxq)
  /\ rxState' = "DATA" /\ rxLeft' = rxCmd.len
  /\ UNCHANGED <<hostVars, txq, pwrsav, dmaVars, timer, pc, lastReset, rxCmd, rxDma,
                 flush, armed, respVars, pktVars, txVars, readVars>>

\* A debug write with a datatype starts the timeout and raises the interrupt.
RxArgs ==
  /\ InRx("ARGS") /\ rxq # <<>>
  /\ rxq' = Tail(rxq)
  /\ rxState' = "DATA" /\ rxLeft' = rxCmd.len
  /\ armed' = (rxCmd.op = "U" /\ rxCmd.typed)
  /\ timer' = (timer \/ armed')
  /\ UNCHANGED <<hostVars, txq, pwrsav, dmaVars, pc, lastReset, rxCmd, rxDma,
                 flush, respVars, pktVars, txVars, readVars>>

\* Back to RX_STATE_IDLE, with a response of "len" units of DMA.
Respond(err, len) ==
  /\ rxState' = "IDLE" /\ rxCmd' = NoCmd /\ rxLeft' = 0 /\ rxDma' = FALSE
  /\ flush' = "none" /\ armed' = FALSE
  /\ respPending' = TRUE
  /\ resp' = Message(IF err THEN "ERR" ELSE "CMP", rxCmd.op, len, FALSE)
  /\ pc' = "tx"

\* Every command whose handler answers at once; 'm' answers with the memory.
RxAnswer ==
  /\ InRx("DATA") /\ rxCmd.op \in {"Q", "m"}
  /\ Respond(rxCmd.bad, IF rxCmd.op = "m" /\ ~rxCmd.bad THEN rxCmd.len ELSE 0)
  /\ UNCHANGED <<hostVars, rxq, txq, pwrsav, dmaVars, timer, lastReset, pktVars,
                 txVars, readVars>>

StartRxDma(len) == dmaDir' = "rx" /\ dmaLeft' = len /\ rxDma' = TRUE

\* Bug: a refused write is answered at once, its payload is still to come.
RxWriteRejectAtOnce ==
  /\ InRx("DATA") /\ rxCmd.op = "M" /\ DmaReady /\ ~rxDma /\ rxCmd.bad
  /\ Respond(TRUE, 0)
  /\ UNCHANGED <<hostVars, rxq, txq, pwrsav, dmaVars, timer, lastReset, pktVars,
                 txVars, readVars>>

RxWriteReject ==
  /\ InRx("DATA") /\ rxCmd.op = "M" /\ DmaReady /\ ~rxDma /\ rxCmd.bad
  /\ rxState' = "FLUSH" /\ flush' = "response"
  /\ UNCHANGED <<hostVars, rxq, txq, pwrsav, dmaVars, timer, pc, lastReset, rxCmd,
                 rxLeft, rxDma, armed, respVars, pktVars, txVars, readVars>>

RxWriteStart ==
  /\ InRx("DATA") /\ rxCmd.op = "M" /\ DmaReady /\ ~rxDma /\ ~rxCmd.bad
  /\ StartRxDma(rxLeft)
  /\ pc' = "tx"
  /\ UNCHANGED <<hostVars, rxq, txq, pwrsav, timer, lastReset, rxState, rxCmd, rxLeft,
                 flush, armed, respVars, pktVars, txVars, readVars>>

RxWriteDone ==
  /\ InRx("DATA") /\ rxCmd.op = "M" /\ DmaReady /\ rxDma
  /\ Respond(FALSE, 0)
  /\ UNCHANGED <<hostVars, rxq, txq, pwrsav, dmaVars, timer, lastReset, pktVars,
                 txVars, readVars>>

\* The window of a debug read: what the N64 asked for or what is left.
ReadWindow == Min2(readLen, rxLeft)

RxDebugEnd ==
  /\ InRx("DATA") /\ rxCmd.op = "U" /\ rxLeft = 0
  /\ rxState' = "IDLE" /\ rxCmd' = NoCmd /\ rxDma' = FALSE /\ armed' = FALSE
  /\ pc' = "tx"
  /\ UNCHANGED <<hostVars, rxq, txq, pwrsav, dmaVars, timer, lastReset, rxLeft, flush,
                 respVars, pktVars, txVars, readVars>>

RxDebugStart ==
  /\ InRx("DATA") /\ rxCmd.op = "U" /\ rxLeft > 0 /\ DmaReady
  /\ readLen > 0 /\ ~rxDma
  /\ StartRxDma(ReadWindow)
  /\ readReady' = FALSE
  /\ pc' = "tx"
  /\ UNCHANGED <<hostVars, rxq, txq, pwrsav, timer, lastReset, rxState, rxCmd, rxLeft,
                 flush, armed, respVars, pktVars, txVars, readLen>>

RxDebugDone ==
  /\ InRx("DATA") /\ rxCmd.op = "U" /\ rxLeft > 0 /\ DmaReady
  /\ readLen > 0 /\ rxDma
  /\ rxLeft' = rxLeft - ReadWindow
  /\ readLen' = readLen - ReadWindow
  /\ rxDma' = FALSE /\ readReady' = TRUE /\ timer' = TRUE /\ armed' = TRUE
  /\ pc' = "tx"
  /\ UNCHANGED <<hostVars, rxq, txq, pwrsav, dmaVars, lastReset, rxState, rxCmd,
                 flush, respVars, pktVars, txVars>>

RxDebugTimeout ==
  /\ InRx("DATA") /\ rxCmd.op = "U" /\ rxLeft > 0 /\ DmaReady
  /\ readLen = 0 /\ ~timer
  /\ rxState' = "FLUSH" /\ flush' = "packet"
  /\ UNCHANGED <<hostVars, rxq, txq, pwrsav, dmaVars, timer, pc, lastReset, rxCmd,
                 rxLeft, rxDma, armed, respVars, pktVars, txVars, readVars>>

\* RX_STATE_FLUSH: the payload is thrown away in pieces of FlushChunk.
RxFlushStart ==
  /\ InRx("FLUSH") /\ rxLeft > 0 /\ DmaReady /\ ~rxDma
  /\ StartRxDma(Min2(rxLeft, FlushChunk))
  /\ pc' = "tx"
  /\ UNCHANGED <<hostVars, rxq, txq, pwrsav, timer, lastReset, rxState, rxCmd, rxLeft,
                 flush, armed, respVars, pktVars, txVars, readVars>>

\* Bug: the flushed piece is not taken off what is left.
RxFlushDoneSame ==
  /\ InRx("FLUSH") /\ rxLeft > 0 /\ DmaReady /\ rxDma
  /\ rxDma' = FALSE
  /\ pc' = "tx"
  /\ UNCHANGED <<hostVars, rxq, txq, pwrsav, dmaVars, timer, lastReset, rxState, rxCmd,
                 rxLeft, flush, armed, respVars, pktVars, txVars, readVars>>

RxFlushDone ==
  /\ InRx("FLUSH") /\ rxLeft > 0 /\ DmaReady /\ rxDma
  /\ rxLeft' = rxLeft - Min2(rxLeft, FlushChunk)
  /\ rxDma' = FALSE
  /\ pc' = IF rxLeft' = 0 THEN "rx" ELSE "tx"
  /\ UNCHANGED <<hostVars, rxq, txq, pwrsav, dmaVars, timer, lastReset, rxState, rxCmd,
                 flush, armed, respVars, pktVars, txVars, readVars>>

RxFlushReply ==
  /\ InRx("FLUSH") /\ rxLeft = 0 /\ flush = "response"
  /\ Respond(TRUE, 0)
  /\ UNCHANGED <<hostVars, rxq, txq, pwrsav, dmaVars, timer, lastReset, pktVars,
                 txVars, readVars>>

\* The slot for packets is free: DATA_FLUSHED goes in.
RxFlushPacket ==
  /\ InRx("FLUSH") /\ rxLeft = 0 /\ flush = "packet" /\ ~pktPending
  /\ pktPending' = TRUE /\ pkt' = Message("PKT", "G", 0, FALSE)
  /\ rxState' = "IDLE" /\ rxCmd' = NoCmd /\ rxDma' = FALSE /\ flush' = "none" /\ armed' = FALSE
  /\ pc' = "tx"
  /\ UNCHANGED <<hostVars, rxq, txq, pwrsav, dmaVars, timer, lastReset, rxLeft,
                 respVars, calls, txVars, readVars>>

RxProcess ==
  \/ RxNothing \/ RxIdle \/ RxArgs \/ RxAnswer
  \/ RxWriteReject \/ RxWriteStart \/ RxWriteDone
  \/ RxDebugEnd \/ RxDebugStart \/ RxDebugDone \/ RxDebugTimeout
  \/ RxFlushStart \/ RxFlushDone \/ RxFlushReply \/ RxFlushPacket

-----------------------------------------------------------------------------
(* usb_tx_process                                                           *)

InTx(state) == pc = "tx" /\ txState = state

TxNothing ==
  /\ \/ InTx("IDLE") /\ ~respPending /\ ~pktPending
     \/ InTx("TOKEN") /\ Len(txq) >= TxSpace
     \/ InTx("DMA") /\ tx.len > 0 /\ ~DmaReady
  /\ pc' = "other"
  /\ UNCHANGED <<hostVars, rxq, txq, pwrsav, dmaVars, timer, lastReset, rxVars,
                 respVars, pktVars, txVars, readVars>>

\* A response goes before a packet.
TxResponse ==
  /\ InTx("IDLE") /\ respPending
  /\ txState' = "TOKEN" /\ tx' = resp /\ txDma' = FALSE
  /\ respPending' = FALSE /\ resp' = NoMsg
  /\ UNCHANGED <<hostVars, rxq, txq, pwrsav, dmaVars, timer, pc, lastReset, rxVars,
                 pktVars, readVars>>

\* Bug: a packet may go before a response.
TxPacketFirst ==
  /\ InTx("IDLE") /\ pktPending
  /\ txState' = "TOKEN" /\ tx' = pkt /\ txDma' = FALSE
  /\ pktPending' = FALSE /\ pkt' = NoMsg
  /\ UNCHANGED <<hostVars, rxq, txq, pwrsav, dmaVars, timer, pc, lastReset, rxVars,
                 respVars, calls, readVars>>

TxPacket ==
  /\ InTx("IDLE") /\ ~respPending /\ pktPending
  /\ txState' = "TOKEN" /\ tx' = pkt /\ txDma' = FALSE
  /\ pktPending' = FALSE /\ pkt' = NoMsg
  /\ UNCHANGED <<hostVars, rxq, txq, pwrsav, dmaVars, timer, pc, lastReset, rxVars,
                 respVars, calls, readVars>>

\* TX_STATE_TOKEN and TX_STATE_DATA: the header and its inline words.
TxToken ==
  /\ InTx("TOKEN") /\ Len(txq) < TxSpace
  /\ txq' = Append(txq, Header(tx))
  /\ txState' = "DMA"
  /\ UNCHANGED <<hostVars, rxq, pwrsav, dmaVars, timer, pc, lastReset, rxVars,
                 respVars, pktVars, tx, txDma, readVars>>

TxDmaStart ==
  /\ InTx("DMA") /\ tx.len > 0 /\ DmaReady /\ ~txDma
  /\ dmaDir' = "tx" /\ dmaLeft' = tx.len /\ txDma' = TRUE
  /\ pc' = "other"
  /\ UNCHANGED <<hostVars, rxq, txq, pwrsav, timer, lastReset, rxVars, respVars,
                 pktVars, txState, tx, readVars>>

\* Bug: the end of the transfer is not waited for.
TxDmaDoneEarly ==
  /\ InTx("DMA") /\ (tx.len = 0 \/ txDma)
  /\ txState' = "FLUSH"
  /\ UNCHANGED <<hostVars, rxq, txq, pwrsav, dmaVars, timer, pc, lastReset, rxVars,
                 respVars, pktVars, tx, txDma, readVars>>

TxDmaDone ==
  /\ InTx("DMA") /\ (tx.len = 0 \/ (DmaReady /\ txDma))
  /\ txState' = "FLUSH"
  /\ UNCHANGED <<hostVars, rxq, txq, pwrsav, dmaVars, timer, pc, lastReset, rxVars,
                 respVars, pktVars, tx, txDma, readVars>>

\* The transfer is over: the producer gets its buffer back.
TxFlush ==
  /\ InTx("FLUSH")
  /\ calls' = [s \in CallbackSources |-> calls[s] - (IF tx.cb /\ tx.id = s THEN 1 ELSE 0)]
  /\ txState' = "IDLE" /\ tx' = NoMsg /\ txDma' = FALSE
  /\ pc' = "other"
  /\ UNCHANGED <<hostVars, rxq, txq, pwrsav, dmaVars, timer, lastReset, rxVars,
                 respVars, pktPending, pkt, readVars>>

TxProcess == TxNothing \/ TxResponse \/ TxPacket \/ TxToken \/ TxDmaStart \/ TxDmaDone \/ TxFlush

-----------------------------------------------------------------------------
(* The rest of the main loop.                                               *)

\* usb_enqueue_packet.  isv.c waits for the callback of its last packet, cfg.c
\* leaves that to the N64 and may enqueue while the last one is being sent.
Enqueue(s, len) ==
  /\ pc = "other" /\ ~pktPending
  /\ s \in WaitingSources => calls[s] = 0
  /\ pktPending' = TRUE /\ pkt' = Message("PKT", s, len, s \in CallbackSources)
  /\ calls' = [c \in CallbackSources |-> calls[c] + (IF c = s THEN 1 ELSE 0)]
  /\ UNCHANGED <<hostVars, rxq, txq, pwrsav, dmaVars, timer, pc, lastReset, rxVars,
                 respVars, txVars, readVars>>

\* usb_prepare_read
PrepareRead(len) ==
  /\ pc = "other" /\ readReady
  /\ readLen' = len
  /\ UNCHANGED <<hostVars, rxq, txq, pwrsav, dmaVars, timer, pc, lastReset, rxVars,
                 respVars, pktVars, txVars, readReady>>

NextTurn ==
  /\ pc = "other"
  /\ pc' = "poll"
  /\ UNCHANGED <<hostVars, rxq, txq, pwrsav, dmaVars, timer, lastReset, rxVars,
                 respVars, pktVars, txVars, readVars>>

-----------------------------------------------------------------------------
(* The FPGA and the timer interrupt.                                        *)

\* The DMA engine takes what comes next from the host ...
DmaRead ==
  /\ dmaDir = "rx" /\ dmaLeft > 0 /\ rxq # <<>>
  /\ rxq' = Tail(rxq) /\ dmaLeft' = dmaLeft - 1
  /\ UNCHANGED <<hostVars, txq, pwrsav, dmaDir, timer, pc, lastReset, rxVars,
                 respVars, pktVars, txVars, readVars>>

\* ... or appends a unit of memory to what is sent.
DmaWrite ==
  /\ dmaDir = "tx" /\ dmaLeft > 0 /\ Len(txq) < TxSpace
  /\ txq' = Append(txq, Data) /\ dmaLeft' = dmaLeft - 1
  /\ UNCHANGED <<hostVars, rxq, pwrsav, dmaDir, timer, pc, lastReset, rxVars,
                 respVars, pktVars, txVars, readVars>>

TimerElapses ==
  /\ timer /\ timer' = FALSE
  /\ UNCHANGED <<hostVars, rxq, txq, pwrsav, dmaVars, pc, lastReset, rxVars,
                 respVars, pktVars, txVars, readVars>>

-----------------------------------------------------------------------------
(* The host: sw/deployer/src/sc64/link.rs, or any other program.            *)

Connected == host = "run" /\ ~pwrsav

ctrlVars == <<dmaVars, timer, pc, lastReset, rxVars, respVars, pktVars, txVars, readVars>>

Expected(c) == IF c.op = "U" THEN <<>> ELSE <<[id |-> c.op, err |-> c.bad]>>

HostCommand(c) ==
  /\ Connected /\ todo = <<>> /\ Len(owed) < MaxOwed /\ Len(rxq) < RxSpace
  /\ rxq' = Append(rxq, Cmd(c))
  /\ todo' = <<Args>> \o (IF c.op \in {"M", "U"} THEN [i \in 1..c.len |-> Data] ELSE <<>>)
  /\ owed' = owed \o Expected(c)
  /\ UNCHANGED <<host, hostLeft, txq, pwrsav, ctrlVars>>

HostSend ==
  /\ Connected /\ todo # <<>> /\ Len(rxq) < RxSpace
  /\ rxq' = Append(rxq, Head(todo)) /\ todo' = Tail(todo)
  /\ UNCHANGED <<host, owed, hostLeft, txq, pwrsav, ctrlVars>>

HostReceive ==
  /\ Connected /\ txq # <<>>
  /\ txq' = Tail(txq)
  /\ IF hostLeft > 0
       THEN hostLeft' = hostLeft - 1 /\ UNCHANGED owed
       ELSE /\ hostLeft' = Head(txq).len
            /\ owed' = IF Head(txq).kind = "PKT" THEN owed ELSE Tail(owed)
  /\ UNCHANGED <<host, todo, rxq, pwrsav, ctrlVars>>

\* The host may give up in the middle of anything and reset the link.
HostReset ==
  /\ Connected
  /\ host' = "reset" /\ todo' = <<>> /\ owed' = <<>> /\ hostLeft' = 0
  /\ UNCHANGED <<rxq, txq, pwrsav, ctrlVars>>

HostRelease ==
  /\ \/ host = "reset" /\ lastReset /\ host' = "release"
     \/ host = "release" /\ ~lastReset /\ host' = "run"
  /\ ~pwrsav
  /\ UNCHANGED <<todo, owed, hostLeft, rxq, txq, pwrsav, ctrlVars>>

Suspend ==
  /\ pwrsav' = ~pwrsav
  /\ UNCHANGED <<hostVars, rxq, txq, ctrlVars>>

-----------------------------------------------------------------------------
Controller ==
  \/ PollResetOn \/ PollInactive \/ PollActive
  \/ RxProcess \/ TxProcess
  \/ \E s \in Sources, len \in PacketLengths : Enqueue(s, len)
  \/ \E len \in ReadLengths : PrepareRead(len)
  \/ NextTurn

Next ==
  \/ Controller
  \/ DmaRead \/ DmaWrite \/ TimerElapses
  \/ \E c \in Commands : HostCommand(c)
  \/ HostSend \/ HostReceive \/ HostReset \/ HostRelease \/ Suspend

Spec == Init /\ [][Next]_vars

\* Once the host stays connected, everything that runs keeps running: the main
\* loop, the DMA engine, the SysTick interrupt, and a host that sends what it
\* began and reads what it is sent.
Fairness ==
  /\ WF_vars(PollResetOn \/ PollInactive \/ PollActive \/ NextTurn)
  /\ WF_vars(RxProcess) /\ WF_vars(TxProcess)
  /\ WF_vars(DmaRead) /\ WF_vars(DmaWrite) /\ WF_vars(TimerElapses)
  /\ WF_vars(HostSend) /\ WF_vars(HostReceive) /\ WF_vars(HostRelease)

FairSpec == Spec /\ Fairness

-----------------------------------------------------------------------------
MessageType == [kind : {"CMP", "ERR", "PKT"}, id : Ops \cup Sources \cup {"G"},
                len : Nat, cb : BOOLEAN]

ItemType == [t : {"cmd"}, c : Commands] \cup [t : {"args"}] \cup [t : {"data"}]

LinkType ==
  /\ host \in {"run", "reset", "release"}
  /\ rxq \in Seq(ItemType) /\ todo \in Seq(ItemType)
  /\ pwrsav \in BOOLEAN /\ timer \in BOOLEAN /\ lastReset \in BOOLEAN
  /\ dmaDir \in {"rx", "tx"} /\ dmaLeft \in Nat
  /\ pc \in {"poll", "rx", "tx", "other"}

RxType ==
  /\ rxState \in {"IDLE", "ARGS", "DATA", "FLUSH"} /\ rxCmd \in CommandType
  /\ rxLeft \in Nat /\ rxDma \in BOOLEAN /\ armed \in BOOLEAN /\ flush \in {"none", "response", "packet"}
  /\ readReady \in BOOLEAN /\ readLen \in Nat

TxType ==
  /\ respPending \in BOOLEAN /\ resp \in MessageType
  /\ pktPending \in BOOLEAN /\ pkt \in MessageType
  /\ txState \in {"IDLE", "TOKEN", "DMA", "FLUSH"} /\ tx \in MessageType
  /\ txDma \in BOOLEAN
  /\ calls \in [CallbackSources -> Int]

TypeOK == LinkType /\ RxType /\ TxType

\* The callbacks a producer still has to get are those of its packets in the
\* slot and in flight that carry one: no callback is lost or called twice,
\* whatever the link does (usb.c:174-183, 691-697, 712-719).
CallbackOwed == \A s \in CallbackSources : calls[s] = HandBack(s)

\* What an item stands for: the response it is, or the one it calls for.
Outcome(x) ==
  CASE x.t = "hdr" /\ x.kind # "PKT" -> <<[id |-> x.id, err |-> (x.kind = "ERR")]>>
    [] x.t = "cmd" -> Expected(x.c)
    [] OTHER -> <<>>

Outcomes(s) ==
  LET O[n \in 0 .. Len(s)] == IF n = 0 THEN <<>> ELSE O[n - 1] \o Outcome(s[n])
  IN  O[Len(s)]

\* The responses that are with the transmitter, in the slot and still to be
\* given by the receiver.
OnItsWay  == IF txState = "TOKEN" THEN Outcome(Header(tx)) ELSE <<>>
InTheSlot == IF respPending THEN Outcome(Header(resp)) ELSE <<>>
InTheMaking == IF rxState # "IDLE" THEN Expected(rxCmd) ELSE <<>>

\* The responses on their way, oldest first, are the ones the host waits for:
\* no response is lost, doubled, reordered, of the wrong outcome, or left over
\* from before a reset (usb.c:152-172, 223-624, 626-644).
ResponsesInOrder ==
  host = "run" =>
    owed = Outcomes(txq) \o OnItsWay \o InTheSlot \o InTheMaking \o Outcomes(rxq)

\* The controller and the host never lose the framing of the stream: the
\* controller looks for a command where one starts, the DMA engine and the
\* flush of a refused payload take exactly the payload, and the host finds a
\* header where the length in the last one says (usb.c:338-382, 592-624,
\* 645-689).
InFrame ==
  /\ rxq # <<>> =>
       /\ rxState = "IDLE" => Head(rxq).t = "cmd"
       /\ rxState = "ARGS" => Head(rxq).t = "args"
       /\ dmaDir = "rx" /\ dmaLeft > 0 => Head(rxq).t = "data"
  /\ host = "run" /\ txq # <<>> => (Head(txq).t = "hdr" <=> hostLeft = 0)

\* A transfer ends by itself or by a reset of the link, never because the other
\* machine starts the engine: each machine takes an idle engine for the end of
\* its own transfer (usb.c:201-203, 339-352, 674-689).
DmaUndisturbed ==
  [][dmaLeft > 0 => \/ dmaDir' = dmaDir /\ dmaLeft' \in {dmaLeft, dmaLeft - 1}
                    \/ PollResetOn]_vars

\* The DMA engine works for a machine that knows it and waits for it, on no
\* more than the machine has left (usb.c:338-382, 592-606, 674-689).
DmaOwned ==
  dmaLeft > 0 =>
    /\ dmaDir = "rx" => /\ rxDma /\ rxState \in {"DATA", "FLUSH"}
                        /\ dmaLeft <= rxLeft
    /\ dmaDir = "tx" => txDma /\ txState = "DMA" /\ dmaLeft <= tx.len

\* The N64 is refused a new read exactly while the DMA engine may be writing
\* into the buffer of the last one, and the transfer stays within the window
\* it was started with: that window is computed again when it ends
\* (usb.c:357-382, 722-729).
ReadHandshake ==
  /\ ~readReady <=> rxState = "DATA" /\ rxCmd.op = "U" /\ rxDma
  /\ ~readReady => /\ ReadWindow > 0
                   /\ dmaDir = "rx" => dmaLeft <= ReadWindow

\* A debug write with a datatype is only given up after its own timeout,
\* started when it arrived or when the N64 took the last piece of it
\* (usb.c:245-248, 377, 379-382); one without a datatype may be given up at once.
GivenUpAfterTimeout ==
  [][RxDebugTimeout /\ rxCmd.typed => armed]_vars

AtDoor == txq # <<>> /\ hostLeft = 0 /\ Head(txq).kind # "PKT"

\* Nothing but producers that wait for their callback uses the packet slot.
NoEvents == pktPending => pkt.id \notin EventSources

\* A host that stays connected keeps getting the responses it waits for,
\* whatever the N64 does with the data sent to it and whatever packets are
\* sent, unless events fill the packet slot for ever: then the report of
\* flushed data never leaves, nor any response behind it (usb.c:613-634).
ResponsesArrive ==
  <>[](Connected /\ NoEvents) => []<>(owed = <<>> \/ AtDoor)

\* Data that timed out is reported to the host, under the same conditions
\* (usb.c:613-618).
FlushReported ==
  <>[](Connected /\ NoEvents) =>
    (rxState = "FLUSH" /\ flush = "packet") ~> (rxState = "IDLE")
=============================================================================
