--------------------------------- MODULE Isv ---------------------------------
(***************************************************************************)
(* The IS-Viewer 64 text output, sw/controller/src/isv.c: the N64 writes   *)
(* text into a ring buffer in memory, and isv_process sends what is there  *)
(* to the host as packets, moving the read pointer when the callback of a  *)
(* packet says that its transfer is over.                                  *)
(*                                                                         *)
(* The text of a buffer is a sequence of units, numbered in the order the  *)
(* N64 writes them; a cell holds the number of the unit in it.  Cell 0 of  *)
(* a buffer is the one at ISV_BUFFER_OFFSET; buffers do not overlap.  Address 0 stands for "off",  *)
(* but memory is there too: the read pointer of the buffer at address 0 is *)
(* the word at SDRAM address 4, in the header of the ROM.                  *)
(*                                                                         *)
(* isv_process reads the two pointers one after the other ("rp", "wp") and *)
(* the N64 writes in between.  The packet goes through the slot and the    *)
(* transmit machine of usb.c, reduced to what UsbController shows of them: *)
(* the callback comes once, after the last unit was read, or early when    *)
(* the link is lost: a reset also ends the transfer, but a suspended link  *)
(* goes on with it later, as an orphan that nobody waits for.              *)
(***************************************************************************)
EXTENDS Naturals, Sequences

CONSTANTS
  Addresses,     \* buffer addresses the host may set
  BufferSize,    \* ISV_BUFFER_SIZE, in units
  MaxText,       \* units of text the N64 writes into a buffer
  MaxMoves,      \* times the address is set
  MaxOthers,     \* packets other producers put into the slot
  MaxResets      \* times the link is lost, by a reset or a suspension

ASSUME SizeAssumption == BufferSize \in Nat /\ BufferSize > 1
ASSUME AddressAssumption == 0 \notin Addresses
ASSUME BoundsAssumption == {MaxText, MaxMoves, MaxOthers, MaxResets} \subseteq Nat

Places == Addresses \cup {0}
Cells  == 0..(BufferSize - 1)

VARIABLES
  address, ready, nextRead,      \* struct process
  readPtr, writePtr, cells,      \* memory, per buffer
  token,                         \* ISV_TOKEN is in place, per buffer
  setup,                         \* ISV_SETUP words: "none", "asked", "ready"
  pc, rp,                        \* isv_process has read the token / the read pointer
  packet,                        \* the packet of isv.c: "none", "slot", "flight"
  from, length, done,            \* where it starts, its length, units read
  orphan,                        \* cells a packet without its callback still takes
  slotFull,                      \* a packet of another producer is in the slot
  written, received,             \* per buffer: units written; what the host has got
  early,                         \* a callback came before its packet was read
  astray,                        \* buffers of callbacks that moved another read pointer
  moves, others, resets

isvVars  == <<address, ready, nextRead>>
memVars  == <<readPtr, writePtr, cells, token, setup>>
pktVars  == <<packet, from, length, done, orphan, slotFull>>
textVars == <<written, received, early, astray>>
allVars == <<isvVars, memVars, pc, rp, pktVars, textVars, moves, others, resets>>

IsvInit ==
  /\ address = 0 /\ ready = TRUE /\ nextRead = 0
  /\ readPtr = [a \in Places |-> 0] /\ writePtr = [a \in Places |-> 0]
  /\ cells = [a \in Places |-> [c \in Cells |-> 0]]
  /\ token = [a \in Places |-> FALSE] /\ setup = "none"
  /\ pc = "idle" /\ rp = 0
  /\ packet = "none" /\ from = <<0, 0>> /\ length = 0 /\ done = 0 /\ orphan = <<>> /\ slotFull = FALSE
  /\ written = [a \in Places |-> 0] /\ received = [a \in Places |-> <<>>]
  /\ early = FALSE /\ astray = {}
  /\ moves = 0 /\ others = 0 /\ resets = 0

-----------------------------------------------------------------------------
(* isv.c                                                                    *)

\* isv_set_address, by a config command of the host or of the N64, or by
\* cfg_reset_state.
SetAddress(a) ==
  /\ pc = "idle" /\ moves < MaxMoves
  /\ address' = a /\ moves' = moves + 1
  /\ UNCHANGED <<ready, nextRead, memVars, pc, rp, pktVars, textVars, others, resets>>

\* The program asks where the buffer is: it gets the address, and no text is
\* looked at in this turn.
AnswerSetup ==
  /\ pc = "idle" /\ address # 0 /\ ready /\ setup = "asked"
  /\ setup' = "ready"
  /\ UNCHANGED <<isvVars, readPtr, writePtr, cells, token, pc, rp, pktVars, textVars, moves, others, resets>>

ReadReadPointer ==
  /\ pc = "idle" /\ address # 0 /\ ready /\ setup # "asked" /\ token[address]
  /\ pc' = "wp" /\ rp' = readPtr[address]
  /\ UNCHANGED <<isvVars, memVars, pktVars, textVars, moves, others, resets>>

Wrapped == writePtr[address] < rp

\* Up to the write pointer, or to the end of the buffer.
PacketLength == (IF Wrapped THEN BufferSize ELSE writePtr[address]) - rp

\* Nothing to send, or no room for it: isv_process looks again next turn.
NothingSent ==
  /\ pc = "wp" /\ (rp = writePtr[address] \/ packet = "slot" \/ slotFull)
  /\ pc' = "idle"
  /\ UNCHANGED <<isvVars, memVars, rp, pktVars, textVars, moves, others, resets>>

SendText ==
  /\ pc = "wp" /\ rp # writePtr[address] /\ packet # "slot" /\ ~slotFull
  /\ packet' = "slot" /\ from' = <<address, rp>> /\ length' = PacketLength /\ done' = 0
  /\ ready' = FALSE /\ nextRead' = IF Wrapped THEN 0 ELSE writePtr[address]
  /\ pc' = "idle"
  /\ UNCHANGED <<address, memVars, rp, orphan, slotFull, textVars, moves, others, resets>>

\* Bug: the callback does not let isv_process go on.
UpdateReadPointerStuck ==
  /\ readPtr' = [readPtr EXCEPT ![address] = nextRead]
  /\ UNCHANGED <<ready, astray>>

\* isv_update_read_pointer, the done_callback: it writes to the buffer at the
\* address of now, not at the one the packet was taken from.
UpdateReadPointer ==
  /\ ready' = TRUE
  /\ readPtr' = [readPtr EXCEPT ![address] = nextRead]
  /\ astray' = IF from[1] = address THEN astray ELSE astray \cup {from[1], address}

-----------------------------------------------------------------------------
(* usb.c, which runs between two calls of isv_process.                      *)

\* The transmit machine takes the packet from the slot.
TakePacket ==
  /\ pc = "idle" /\ packet = "slot" /\ orphan = <<>> /\ packet' = "flight"
  /\ UNCHANGED <<isvVars, memVars, pc, rp, from, length, done, orphan, slotFull, textVars, moves, others, resets>>

CellOf(i) == <<from[1], (from[2] + i) % BufferSize>>

Take(cell) == received' = [received EXCEPT ![cell[1]] = Append(@, cells[cell[1]][cell[2]])]

\* The DMA engine reads a unit of the packet, or of one whose callback came
\* too early.
ReadUnit ==
  /\ \/ /\ packet = "flight" /\ done < length /\ Take(CellOf(done))
        /\ done' = done + 1 /\ UNCHANGED orphan
     \/ /\ orphan # <<>> /\ Take(Head(orphan))
        /\ orphan' = Tail(orphan) /\ UNCHANGED done
  /\ UNCHANGED <<isvVars, memVars, pc, rp, packet, from, length, slotFull, written, early,
                 astray, moves, others, resets>>

\* Bug: the callback comes when the transfer starts.
PacketDoneEarly ==
  /\ pc = "idle" /\ packet = "flight" /\ ~ready
  /\ UpdateReadPointer
  /\ packet' = IF done = length THEN "none" ELSE packet
  /\ UNCHANGED <<address, nextRead, writePtr, cells, token, setup, pc, rp, from, length,
                 done, orphan, slotFull, written, received, early, moves, others, resets>>

PacketDone ==
  /\ pc = "idle" /\ packet = "flight" /\ done = length
  /\ packet' = "none"
  /\ UpdateReadPointer
  /\ UNCHANGED <<address, nextRead, writePtr, cells, token, setup, pc, rp, from, length,
                 done, orphan, slotFull, written, received, early, moves, others, resets>>

\* A reset of the link drops the packet and calls its callback.
LinkReset ==
  /\ pc = "idle" /\ resets < MaxResets
  /\ resets' = resets + 1
  /\ packet' = "none" /\ orphan' = <<>> /\ slotFull' = FALSE
  /\ IF packet = "none" THEN UNCHANGED <<ready, readPtr, astray>> ELSE UpdateReadPointer
  /\ UNCHANGED <<address, nextRead, writePtr, cells, token, setup, pc, rp, from, length,
                 done, written, received, early, moves, others>>

\* A turn that finds the link suspended drops the packet in the slot and calls
\* the callback of either; the one in flight stays there.
LinkSuspend ==
  /\ pc = "idle" /\ packet # "none" /\ resets < MaxResets
  /\ resets' = resets + 1
  /\ packet' = "none"
  /\ UpdateReadPointer
  /\ orphan' = IF packet = "flight" THEN [i \in 1..(length - done) |-> CellOf(done + i - 1)]
               ELSE orphan
  /\ early' = (early \/ (packet = "flight" /\ done < length))
  /\ UNCHANGED <<address, nextRead, writePtr, cells, token, setup, pc, rp, from, length,
                 done, slotFull, written, received, moves, others>>

\* Another producer uses the one packet slot of usb.c: the transmit machine
\* takes its packet when it has sent the one of isv.c.
OtherFills ==
  /\ pc = "idle" /\ packet # "slot" /\ ~slotFull /\ others < MaxOthers
  /\ slotFull' = TRUE /\ others' = others + 1
  /\ UNCHANGED <<isvVars, memVars, pc, rp, packet, from, length, done, orphan, textVars, moves, resets>>

OtherLeaves ==
  /\ pc = "idle" /\ packet = "none" /\ orphan = <<>> /\ slotFull /\ slotFull' = FALSE
  /\ UNCHANGED <<isvVars, memVars, pc, rp, packet, from, length, done, orphan, textVars, moves, others, resets>>

-----------------------------------------------------------------------------
(* The N64.                                                                 *)

\* A program asks for the buffer through the setup words, or finds it at the
\* address it knows, and marks it as in use.
N64Ask ==
  /\ setup = "none" /\ setup' = "asked"
  /\ UNCHANGED <<isvVars, readPtr, writePtr, cells, token, pc, rp, pktVars, textVars, moves, others, resets>>

N64Open(a) ==
  /\ ~token[a] /\ token' = [token EXCEPT ![a] = TRUE]
  /\ UNCHANGED <<isvVars, readPtr, writePtr, cells, setup, pc, rp, pktVars, textVars, moves, others, resets>>

\* It writes a unit as long as the read pointer leaves room for it.
N64Write(a) ==
  /\ token[a] /\ written[a] < MaxText
  /\ (writePtr[a] + 1) % BufferSize # readPtr[a]
  /\ written' = [written EXCEPT ![a] = @ + 1]
  /\ cells' = [cells EXCEPT ![a][writePtr[a]] = written[a] + 1]
  /\ writePtr' = [writePtr EXCEPT ![a] = (@ + 1) % BufferSize]
  /\ UNCHANGED <<isvVars, readPtr, token, setup, pc, rp, pktVars, received, early, astray, moves, others, resets>>

IsvProcess == AnswerSetup \/ ReadReadPointer \/ NothingSent \/ SendText

IsvNext ==
  \/ \E a \in Places : SetAddress(a)
  \/ IsvProcess
  \/ TakePacket \/ ReadUnit \/ PacketDone \/ LinkReset \/ LinkSuspend \/ OtherFills \/ OtherLeaves
  \/ N64Ask \/ \E a \in Addresses : N64Open(a) \/ N64Write(a)

IsvSpec == IsvInit /\ [][IsvNext]_allVars

\* The main loop calls isv_process and usb_process in turn and the link is up:
\* what usb_process can do between two calls of isv_process, it does.
IsvFairSpec == IsvSpec /\ WF_allVars(IsvProcess) /\ SF_allVars(TakePacket) /\ WF_allVars(ReadUnit)
                 /\ SF_allVars(PacketDone) /\ SF_allVars(OtherLeaves)

-----------------------------------------------------------------------------
IsvTypeOK ==
  /\ address \in Places /\ ready \in BOOLEAN /\ nextRead \in Cells
  /\ readPtr \in [Places -> Cells] /\ writePtr \in [Places -> Cells]
  /\ cells \in [Places -> [Cells -> 0..MaxText]] /\ token \in [Places -> BOOLEAN]
  /\ setup \in {"none", "asked", "ready"} /\ pc \in {"idle", "wp"} /\ rp \in Cells
  /\ packet \in {"none", "slot", "flight"} /\ from \in Places \X Cells
  /\ length \in 0..BufferSize /\ done \in 0..length
  /\ orphan \in Seq(Places \X Cells) /\ slotFull \in BOOLEAN /\ early \in BOOLEAN
  /\ written \in [Places -> 0..MaxText] /\ received \in [Places -> Seq(0..MaxText)]
  /\ astray \subseteq Places
  /\ moves \in 0..MaxMoves /\ others \in 0..MaxOthers /\ resets \in 0..MaxResets

\* What the host gets of a buffer is its text in its order, each unit at most
\* once: the N64, which waits for the read pointer, never overwrites a unit
\* before it was read, and no unit is sent again after the buffer wraps around
\* or the host looks at another one (isv.c:42-45, 80-106).  Resets of the link,
\* and suspensions that find the packet in the slot, only leave gaps; while the
\* link is up there are none.
TextInOrder ==
  \A a \in Addresses \ astray :
    /\ ~early => \A i \in 2..Len(received[a]) : received[a][i] > received[a][i - 1]
    /\ resets = 0 => \A i \in 1..Len(received[a]) : received[a][i] = i

\* All the text reaches a host that stays connected, though each packet waits
\* for its turn in the slot and only the callback of one lets the next be made
\* (isv.c:67-108).
TextArrives ==
  \A a \in Addresses :
    [](address = a => [](address = a)) =>
      (address = a /\ written[a] > 0 ~> Len(received[a]) = written[a] \/ resets > 0 \/ a \in astray)

\* With the address set to 0 nothing is done for IS-Viewer.
OffMeansOff == [][address = 0 => readPtr' = readPtr]_allVars
=============================================================================
