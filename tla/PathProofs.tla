----------------------------- MODULE PathProofs -----------------------------
(***************************************************************************)
(* That the way of the bytes through UsbPath.tla keeps the promises of     *)
(* MemoryArbiter.tla, and that the bytes on it keep their order and reach  *)
(* the places they are meant for: for every memory, every set of transfers *)
(* and every size of the FIFOs.                                            *)
(*                                                                         *)
(* The engine's part of the invariant needs that no acknowledgement comes  *)
(* to an engine that does not wait for one, which is what the arbiter      *)
(* promises: both are proved together, the arbiter's part by the lemmas of *)
(* ArbiterProofs.tla.  On it rests the invariant of the bytes, FlowInv of  *)
(* PathInvariant.tla: the steps of the controller, of the USB interface    *)
(* and of the host touch the two ends of a way only; the clock edge moves  *)
(* bytes along the whole of both, and is taken apart by machine: the word  *)
(* on the bus, the machine that puts words together for the memory, and    *)
(* the one that takes them apart for the host.                             *)
(***************************************************************************)
EXTENDS PathInvariant, SequenceTheorems, TLAPS

AP == INSTANCE ArbiterProofs WITH
        request <- Asks, access <- Accesses,
        active <- [m \in {"sdram", "flash", "bram"} |-> m = "sdram" /\ n64.active]

\* What the arbiter keeps by itself.
Served == A!TypeOK /\ A!ServesItsClient /\ A!AckMeansRequest

\* Only bytes come from the host, and the registers of the engine hold what
\* their widths allow.
BytesTyped ==
  /\ sent \in 0 .. MaxSent
  /\ toDev \in Seq(Bytes) /\ rxFifo \in Seq(Bytes)
  /\ rxByte \in Bytes /\ rxOut \in Bytes
  /\ wBuf \in Bytes \X Bytes

EngineTyped ==
  /\ scb \in [start : BOOLEAN, stop : BOOLEAN, write : BOOLEAN, address : Nat, length : Nat]
  /\ End <= Cells /\ (scb.start \/ dmaStart => scb.length > 0)
  /\ memState \in {"IDLE", "WAIT", "TRANSFER"}
  /\ bus \in [request : BOOLEAN, write : BOOLEAN, address : 0 .. Cells,
              mask : {Both, High, Low}, wdata : Bytes \X Bytes]
  /\ bus.address % 2 = 0
  /\ left \in Nat /\ oddStart \in BOOLEAN /\ oddEnd \in BOOLEAN
  /\ dmaStart \in BOOLEAN /\ busy \in BOOLEAN

\* The engine asks exactly while it is in a transfer, and what the controller
\* takes for an idle engine is one.
Requests ==
  /\ bus.request <=> memState = "TRANSFER"
  /\ memState = "TRANSFER" => ~oddStart
  /\ ~busy => ~dmaStart /\ memState = "IDLE"

\* The word of the engine and the bytes it has left end where the job ends: the
\* last word may be half outside.
Counted ==
  /\ memState # "IDLE" => (oddEnd <=> End % 2 = 1)
  /\ memState = "WAIT" /\ left > 0 /\ oddStart  => bus.address + 1 + left = End
  /\ memState = "WAIT" /\ left > 0 /\ ~oddStart => bus.address + left = End
  /\ memState = "WAIT" /\ left = 0 => bus.address \in {End, End + 1}
  /\ memState = "TRANSFER" /\ left > 0 => bus.address + 2 + left = End
  /\ memState = "TRANSFER" /\ left = 0 => bus.address + 2 \in {End, End + 1}

\* The N64 and the engine have the only memory.
Others ==
  /\ n64 \in [request : BOOLEAN, active : BOOLEAN]
  /\ ~ack["flash"] /\ ~ack["bram"]

EngineInv == BytesTyped /\ EngineTyped /\ Requests /\ Counted /\ Others
PathInv == EngineInv /\ Served

\* The two instances of the arbiter say the same.
LEMMA Same == Served <=> AP!Inv
BY DEF Served, AP!Inv, A!TypeOK, AP!TypeOK, A!ServesItsClient, AP!ServesItsClient,
    A!AckMeansRequest, AP!AckMeansRequest, A!Memories, AP!Memories, A!Clients, AP!Clients

\* An edge of the arbiter keeps what it promises (ArbiterProofs.tla).
LEMMA Kept == Served /\ A!Tick => Served'
<1> SUFFICES ASSUME Served, A!Tick PROVE Served'
  OBVIOUS
<1>1. AP!Tick
  BY DEF A!Tick, AP!Tick, A!ClientStep, AP!ClientStep, A!MemoryStep, AP!MemoryStep,
      A!Memories, AP!Memories, A!Clients, AP!Clients, A!Latch, AP!Latch, A!Acked, AP!Acked,
      A!AckOf, AP!AckOf, A!Asking, AP!Asking, A!Chosen, AP!Chosen, A!Wants, AP!Wants
<1>2. AP!Inv
  BY Same
<1>3. AP!TypeOK' /\ AP!ServesItsClient' /\ AP!AckMeansRequest'
  <2>1. AP!TypeOK
    BY <1>2 DEF AP!Inv
  <2>2. AP!TypeOK'
    BY <1>1, <2>1, AP!NextTyped
  <2>3. AP!ServesItsClient'
    BY <1>1, <1>2, AP!NextServes
  <2>4. AP!AckMeansRequest'
    BY <1>1, <1>2, AP!NextAck
  <2> QED BY <2>2, <2>3, <2>4
<1> QED BY <1>3 DEF Served, A!TypeOK, AP!TypeOK, A!ServesItsClient, AP!ServesItsClient,
    A!AckMeansRequest, AP!AckMeansRequest, A!Memories, AP!Memories, A!Clients, AP!Clients

\* An acknowledgement comes to an engine in a transfer.
LEMMA AcksExpected == PathInv /\ Acks => memState = "TRANSFER"
<1> SUFFICES ASSUME PathInv, Acks PROVE memState = "TRANSFER"
  OBVIOUS
<1>1. ack["sdram"] /\ arb["sdram"].source = "usb"
  BY DEF Acks, A!AckOf
<1>2. arb["sdram"].request
  BY <1>1 DEF PathInv, Served, A!AckMeansRequest, A!Memories
<1>3. Asks["usb"]
  BY <1>1, <1>2 DEF PathInv, Served, A!ServesItsClient, A!Memories
<1>4. Asks["usb"] = bus.request
  BY DEF Asks
<1> QED BY <1>3, <1>4 DEF PathInv, EngineInv, Requests

\* The next states of the bus machine.
LEMMA BusMoves ==
  ASSUME EngineTyped, Requests, NEW k \in BOOLEAN, k => memState = "TRANSFER"
  PROVE  /\ NextMemState(k) \in {"IDLE", "WAIT", "TRANSFER"}
         /\ memState = "IDLE" => NextMemState(k) = IF dmaStart THEN "WAIT" ELSE "IDLE"
         /\ memState = "WAIT" => (NextMemState(k) = "TRANSFER" <=> Issues(k))
         /\ memState = "WAIT" => NextMemState(k) \in {"IDLE", "WAIT", "TRANSFER"}
         /\ memState = "TRANSFER" /\ ~k => NextMemState(k) = "TRANSFER"
         /\ memState = "TRANSFER" /\ k => (NextMemState(k) = "TRANSFER" <=> Issues(k))
         /\ NextMemState(k) = "TRANSFER" <=> Issues(k) \/ (memState = "TRANSFER" /\ ~k)
<1>1. left = 0 <=> LastWord
  BY DEF LastWord
<1>2. CASE memState = "IDLE"
  BY <1>2 DEF NextMemState, Issues
<1>3. CASE memState = "WAIT"
  BY <1>3 DEF NextMemState, Issues
<1>4. CASE memState = "TRANSFER"
  BY <1>4 DEF NextMemState, Issues
<1> QED BY <1>2, <1>3, <1>4 DEF EngineTyped

\* The registers of the engine at an edge (memory_dma.sv:106-176).
LEMMA EngineEdge ==
  ASSUME NEW now, Tick(now)
  PROVE  /\ memState' = NextMemState(Acks) /\ bus' = NextBus(Acks)
         /\ left' = IF Begins THEN scb.length ELSE left - Taken(Acks)
         /\ oddStart' = (IF Begins THEN scb.address % 2 = 1
                         ELSE oddStart /\ ~(memState = "WAIT" /\ Issues(Acks)))
         /\ oddEnd' = IF Begins THEN scb.address % 2 # scb.length % 2 ELSE oddEnd
         /\ scb' = [scb EXCEPT !.start = FALSE, !.stop = FALSE]
         /\ dmaStart' = (scb.start /\ ~scb.stop)
         /\ busy' = \/ scb.start /\ ~scb.stop
                    \/ dmaStart
                    \/ memState # "IDLE" \/ rxState # "IDLE" \/ txState # "IDLE"
         /\ wBuf' = IF shifted THEN <<wBuf[2], rxOut>> ELSE wBuf
BY DEF Tick, DmaTick, MemoryBus, StartStop, RxFifo, Acks

\* What the engine takes off its bytes is what the lanes say.
LEMMA TakenBytes ==
  ASSUME EngineTyped, NEW k \in BOOLEAN
  PROVE  /\ Taken(k) \in {0, 1, 2}
         /\ ~Issues(k) => Taken(k) = 0
         /\ Issues(k) /\ memState = "WAIT" /\ oddStart => Taken(k) = 1
         /\ Issues(k) /\ ~(memState = "WAIT" /\ oddStart) /\ oddEnd /\ left <= 2 => Taken(k) = 1
         /\ Issues(k) /\ ~(memState = "WAIT" /\ oddStart) /\ ~(oddEnd /\ left <= 2) => Taken(k) = 2
BY DEF Taken, IssuedLanes, AlmostLastWord, Both, High, Low

\* The bytes at an edge come from the host or from the memory.
LEMMA BytesAtEdge ==
  ASSUME BytesTyped, NEW now, Tick(now)
  PROVE  BytesTyped'
<1>1. sent' = sent /\ toDev' = toDev /\ rxByte' = rxByte
  BY DEF Tick, chipVars
<1>2. rxFifo' \in Seq(Bytes) /\ rxOut' \in Bytes
  <2>1. CASE Reads
    <3>1. rxFifo # <<>>
      BY <2>1 DEF Reads, RxReads, RxEmpty
    <3>2. rxFifo' = Tail(rxFifo) /\ rxOut' = Head(rxFifo)
      BY <2>1 DEF Tick
    <3> QED BY <3>1, <3>2 DEF BytesTyped
  <2>2. CASE ~Reads
    BY <2>2 DEF Tick, BytesTyped
  <2> QED BY <2>1, <2>2
<1>3. wBuf' \in Bytes \X Bytes
  <2>1. wBuf' = IF shifted THEN <<wBuf[2], rxOut>> ELSE wBuf
    BY EngineEdge
  <2>2. wBuf \in Bytes \X Bytes /\ wBuf[2] \in Bytes /\ rxOut \in Bytes
    BY DEF BytesTyped
  <2>3. <<wBuf[2], rxOut>> \in Bytes \X Bytes
    BY <2>2
  <2> QED BY <2>1, <2>2, <2>3
<1> QED BY <1>1, <1>2, <1>3 DEF BytesTyped

\* The engine asks exactly while it is in a transfer, after the edge as before.
LEMMA RequestsAtEdge ==
  ASSUME PathInv, NEW now, Tick(now)
  PROVE  Requests'
<1>1. EngineTyped /\ Requests /\ Acks \in BOOLEAN /\ (Acks => memState = "TRANSFER")
  BY AcksExpected DEF PathInv, EngineInv, Acks, A!AckOf, Served, A!TypeOK, A!Memories
<1>2. bus'.request <=> memState' = "TRANSFER"
  <2>1. bus'.request <=> Issues(Acks) \/ (bus.request /\ ~Acks /\ memState # "IDLE")
    <3>1. bus' = NextBus(Acks)
      BY EngineEdge
    <3>2. NextBus(Acks).request <=> Issues(Acks) \/ (bus.request /\ ~Acks /\ memState # "IDLE")
      BY Zenon DEF NextBus
    <3> QED BY <3>1, <3>2
  <2> QED BY <1>1, <2>1, BusMoves, EngineEdge DEF Requests
<1>3. memState' = "TRANSFER" => ~oddStart'
  <2> SUFFICES ASSUME memState' = "TRANSFER" PROVE ~oddStart'
    OBVIOUS
  <2>1. memState # "IDLE"
    BY <1>1, BusMoves, EngineEdge DEF Requests
  <2>2. ~Begins /\ oddStart' = (oddStart /\ ~(memState = "WAIT" /\ Issues(Acks)))
    BY <2>1, EngineEdge DEF Begins
  <2> QED BY <1>1, <2>1, <2>2, BusMoves, EngineEdge DEF Requests, EngineTyped
<1>4. ~busy' => ~dmaStart' /\ memState' = "IDLE"
  BY <1>1, BusMoves, EngineEdge
<1> QED BY <1>2, <1>3, <1>4 DEF Requests

\* Where a word begins, and which sums are odd.
LEMMA Halves ==
  ASSUME NEW m \in Nat, NEW n \in Nat
  PROVE  /\ m % 2 \in {0, 1} /\ m - (m % 2) \in Nat /\ (m - (m % 2)) % 2 = 0
         /\ (m + n) % 2 = 1 <=> m % 2 # n % 2
OBVIOUS

\* A word is even, and the end of the job is within the memory.
LEMMA CountedAtEdge ==
  ASSUME PathInv, NEW now, Tick(now)
  PROVE  /\ Counted'
         /\ left' \in Nat
         /\ bus'.address \in 0 .. Cells /\ bus'.address % 2 = 0
<1>1. EngineTyped /\ Requests /\ Counted /\ Acks \in BOOLEAN /\ (Acks => memState = "TRANSFER")
  BY AcksExpected DEF PathInv, EngineInv, Acks, A!AckOf, Served, A!TypeOK, A!Memories
<1>2. End' = End
  <2>1. scb' = [scb EXCEPT !.start = FALSE, !.stop = FALSE]
    BY EngineEdge
  <2> QED BY <1>1, <2>1 DEF End, EngineTyped
<1> DEFINE a == bus.address
<1> DEFINE b == bus'.address
<1>3. b = NextAddress(Acks)
  <2>1. bus' = NextBus(Acks)
    BY EngineEdge
  <2> QED BY <2>1 DEF NextBus
<1>4. a \in Nat /\ a % 2 = 0 /\ left \in Nat /\ End \in Nat /\ End <= Cells
      /\ scb.address \in Nat /\ scb.length \in Nat /\ scb.address + scb.length = End
  BY <1>1 DEF EngineTyped, End
<1>5. CASE Begins
  <2>1. memState = "IDLE" /\ dmaStart /\ scb.length > 0
    BY <1>1, <1>5 DEF Begins, EngineTyped
  <2>2. memState' = "WAIT" /\ left' = scb.length
    BY <1>1, <1>5, <2>1, BusMoves, EngineEdge
  <2>3. b = scb.address - (scb.address % 2) 
    BY <1>3, <1>5 DEF NextAddress
  <2>8. scb.address % 2 \in {0, 1} /\ b \in Nat /\ b % 2 = 0 /\ b <= Cells
    BY <1>4, <2>3, Halves, MemoryAssumption
  <2>4. oddStart' = (scb.address % 2 = 1) /\ oddEnd' = (scb.address % 2 # scb.length % 2)
    BY <1>5, EngineEdge
  <2>5. oddEnd' <=> End % 2 = 1
    <3>1. (scb.address + scb.length) % 2 = 1 <=> scb.address % 2 # scb.length % 2
      BY <1>4, Halves
    <3> QED BY <1>4, <2>4, <3>1
  <2>9. left' = scb.length /\ (oddStart' <=> scb.address % 2 = 1)
    BY <2>2, <2>4
  <2>6. oddStart' => b + 1 + left' = End
    <3>1. scb.address % 2 = 1 => b = scb.address - 1
      BY <2>3
    <3> QED BY <1>4, <2>9, <3>1
  <2>7. ~oddStart' => b + left' = End
    <3>1. scb.address % 2 # 1 => b = scb.address
      BY <1>4, <2>3, <2>8
    <3> QED BY <1>4, <2>9, <3>1
  <2> QED BY <1>2, <1>4, <2>8, <2>1, <2>2, <2>3, <2>5, <2>6, <2>7 DEF Counted
<1>6. CASE ~Begins /\ memState = "IDLE"
  <2>1. memState' = "IDLE" /\ left' = left - Taken(Acks) /\ ~Issues(Acks)
    BY <1>1, <1>6, BusMoves, EngineEdge DEF Begins, Issues
  <2>2. left' = left
    BY <1>1, <1>4, <2>1, TakenBytes
  <2>3. b = a
    BY <1>1, <1>3, <1>4, <1>6 DEF NextAddress
  <2> QED BY <1>1, <1>4, <2>1, <2>2, <2>3 DEF Counted, EngineTyped
<1>7. CASE memState = "WAIT"
  <2>1. ~Begins /\ left' = left - Taken(Acks) /\ oddEnd' = oddEnd
        /\ oddStart' = (oddStart /\ ~Issues(Acks))
    BY <1>7, EngineEdge DEF Begins
  <2>2. ~Acks /\ b = a
    BY <1>1, <1>3, <1>4, <1>7, <2>1 DEF NextAddress
  <2>3. (memState' = "TRANSFER" <=> Issues(Acks)) /\ memState' \in {"IDLE", "WAIT", "TRANSFER"}
    BY <1>1, <1>7, BusMoves, EngineEdge
  <2>4. oddEnd <=> End % 2 = 1
    BY <1>1, <1>7 DEF Counted
  <2>5. CASE ~Issues(Acks)
    <3>1. left' = left /\ oddStart' = oddStart
      BY <1>1, <1>4, <2>1, <2>5, TakenBytes DEF EngineTyped
    <3> QED BY <1>1, <1>2, <1>4, <1>7, <2>1, <2>2, <2>3, <2>4, <2>5, <3>1 DEF Counted, EngineTyped
  <2>6. CASE Issues(Acks)
    <3>5. ~oddStart'
      BY <2>1, <2>6
    <3>1. memState' = "TRANSFER" /\ left > 0 /\ ~oddStart'
      BY <1>4, <2>3, <2>6, <3>5 DEF Issues, LastWord
    <3>2. CASE oddStart
      <4>1. left' = left - 1 /\ a + 1 + left = End
        BY <1>1, <1>7, <2>1, <2>6, <3>1, <3>2, TakenBytes DEF Counted
      <4> QED BY <1>1, <1>2, <1>4, <2>1, <2>2, <2>4, <3>1, <4>1 DEF Counted, EngineTyped
    <3>3. CASE ~oddStart /\ oddEnd /\ left <= 2
      <4>1. left' = left - 1 /\ a + left = End
        BY <1>1, <1>7, <2>1, <2>6, <3>1, <3>3, TakenBytes DEF Counted
      <4>2. left = 1
        BY <1>4, <2>4, <3>1, <3>3, <4>1
      <4> QED BY <1>1, <1>2, <1>4, <2>1, <2>2, <2>4, <3>1, <4>1, <4>2 DEF Counted, EngineTyped
    <3>4. CASE ~oddStart /\ ~(oddEnd /\ left <= 2)
      <4>1. left' = left - 2 /\ a + left = End
        BY <1>1, <1>7, <2>1, <2>6, <3>1, <3>4, TakenBytes DEF Counted
      <4>2. left >= 2
        BY <1>4, <2>4, <3>1, <3>4, <4>1
      <4> QED BY <1>1, <1>2, <1>4, <2>1, <2>2, <2>4, <3>1, <4>1, <4>2 DEF Counted, EngineTyped
    <3> QED BY <3>2, <3>3, <3>4
  <2> QED BY <2>5, <2>6
<1>8. CASE memState = "TRANSFER" /\ ~Acks
  <2>1. ~Begins /\ ~Issues(Acks) /\ memState' = "TRANSFER" /\ oddEnd' = oddEnd
        /\ left' = left - Taken(Acks)
    BY <1>1, <1>8, BusMoves, EngineEdge DEF Begins, Issues
  <2>2. left' = left /\ b = a
    BY <1>1, <1>3, <1>4, <1>8, <2>1, TakenBytes DEF NextAddress
  <2> QED BY <1>1, <1>2, <1>4, <1>8, <2>1, <2>2 DEF Counted, EngineTyped
<1>9. CASE memState = "TRANSFER" /\ Acks
  <2>1. ~Begins /\ oddEnd' = oddEnd /\ left' = left - Taken(Acks)
        /\ oddStart' = oddStart /\ ~oddStart
    BY <1>1, <1>9, EngineEdge DEF Begins, Requests, EngineTyped
  <2>2. b = a + 2
    BY <1>3, <1>4, <1>9, <2>1 DEF NextAddress
  <2>3. (memState' = "TRANSFER" <=> Issues(Acks)) /\ memState' \in {"IDLE", "WAIT", "TRANSFER"}
    BY <1>1, <1>9, BusMoves, EngineEdge
  <2>4. (oddEnd <=> End % 2 = 1) /\ (left > 0 => a + 2 + left = End)
        /\ (left = 0 => a + 2 \in {End, End + 1})
    BY <1>1, <1>9 DEF Counted
  <2>5. b \in Nat /\ b % 2 = 0 /\ b <= Cells
    BY <1>4, <2>2, <2>4, MemoryAssumption
  <2>6. CASE ~Issues(Acks)
    <3>1. left' = left
      BY <1>1, <1>4, <2>1, <2>6, TakenBytes
    <3> QED BY <1>1, <1>2, <1>4, <2>1, <2>2, <2>3, <2>4, <2>5, <2>6, <3>1 DEF Counted, EngineTyped
  <2>7. CASE Issues(Acks)
    <3>1. memState' = "TRANSFER" /\ left > 0 /\ b + left = End
      BY <1>4, <2>2, <2>3, <2>4, <2>7 DEF Issues, LastWord
    <3>2. CASE oddEnd /\ left <= 2
      <4>1. left' = left - 1
        BY <1>1, <1>9, <2>1, <2>7, <3>2, TakenBytes
      <4>2. left = 1
        BY <1>4, <2>4, <2>5, <3>1, <3>2
      <4> QED BY <1>1, <1>2, <1>4, <2>1, <2>2, <2>4, <2>5, <3>1, <4>1, <4>2 DEF Counted, EngineTyped
    <3>3. CASE ~(oddEnd /\ left <= 2)
      <4>1. left' = left - 2
        BY <1>1, <1>9, <2>1, <2>7, <3>3, TakenBytes
      <4>2. left >= 2
        BY <1>4, <2>4, <2>5, <3>1, <3>3
      <4> QED BY <1>1, <1>2, <1>4, <2>1, <2>2, <2>4, <2>5, <3>1, <4>1, <4>2 DEF Counted, EngineTyped
    <3> QED BY <3>2, <3>3
  <2> QED BY <2>6, <2>7
<1> QED BY <1>1, <1>5, <1>6, <1>7, <1>8, <1>9 DEF EngineTyped

\* The registers of the engine keep what their widths allow.
LEMMA TypedAtEdge ==
  ASSUME PathInv, NEW now, Tick(now)
  PROVE  EngineTyped'
<1>1. EngineTyped /\ Requests /\ Acks \in BOOLEAN /\ (Acks => memState = "TRANSFER")
      /\ wBuf \in Bytes \X Bytes
  BY AcksExpected DEF PathInv, EngineInv, Acks, A!AckOf, Served, A!TypeOK, A!Memories, BytesTyped
<1>2. scb' = [scb EXCEPT !.start = FALSE, !.stop = FALSE] /\ dmaStart' = (scb.start /\ ~scb.stop)
  BY EngineEdge
<1>3. scb' \in [start : BOOLEAN, stop : BOOLEAN, write : BOOLEAN, address : Nat, length : Nat]
  BY <1>1, <1>2 DEF EngineTyped
<1>4. End' <= Cells /\ (scb'.start \/ dmaStart' => scb'.length > 0)
  <2>1. scb'.address = scb.address /\ scb'.length = scb.length /\ ~scb'.start
    BY <1>1, <1>2 DEF EngineTyped
  <2>2. dmaStart' => scb.start
    BY <1>2
  <2> QED BY <1>1, <2>1, <2>2 DEF EngineTyped, End
<1>5. memState' \in {"IDLE", "WAIT", "TRANSFER"}
  BY <1>1, BusMoves, EngineEdge
<1>6. bus' \in [request : BOOLEAN, write : BOOLEAN, address : 0 .. Cells,
                mask : {Both, High, Low}, wdata : Bytes \X Bytes]
  <2>1. bus' = NextBus(Acks)
    BY EngineEdge
  <2> DEFINE r == Issues(Acks) \/ (bus.request /\ ~Acks /\ memState # "IDLE")
             w == IF Begins THEN scb.write ELSE bus.write
             m == IF Issues(Acks) THEN IssuedLanes ELSE bus.mask
             d == IF Issues(Acks) THEN wBuf ELSE bus.wdata
  <2>2. r \in BOOLEAN
    OBVIOUS
  <2>3. w \in BOOLEAN
    BY <1>1 DEF EngineTyped
  <2>4. m \in {Both, High, Low}
    BY <1>1 DEF EngineTyped, IssuedLanes
  <2>5. d \in Bytes \X Bytes
    BY <1>1 DEF EngineTyped
  <2>6. bus'.address \in 0 .. Cells
    BY CountedAtEdge
  <2>7. bus' = [request |-> r, write |-> w, address |-> NextAddress(Acks), mask |-> m, wdata |-> d]
    BY <2>1, Zenon DEF NextBus
  <2>8. bus'.address = NextAddress(Acks)
    BY <2>7
  <2> HIDE DEF r, w, m, d
  <2> QED BY <2>2, <2>3, <2>4, <2>5, <2>6, <2>7, <2>8
<1>7. bus'.address % 2 = 0 /\ left' \in Nat
  BY CountedAtEdge
<1>8. oddStart' \in BOOLEAN /\ oddEnd' \in BOOLEAN
  BY <1>1, EngineEdge DEF EngineTyped
<1>9. dmaStart' \in BOOLEAN /\ busy' \in BOOLEAN
  BY EngineEdge
<1> QED BY <1>3, <1>4, <1>5, <1>6, <1>7, <1>8, <1>9 DEF EngineTyped

\* The N64 and the memory.
LEMMA OthersAtEdge ==
  ASSUME PathInv, NEW now \in BOOLEAN, Tick(now)
  PROVE  Others'
<1>1. n64 \in [request : BOOLEAN, active : BOOLEAN] /\ ~ack["flash"] /\ ~ack["bram"]
      /\ ack \in [A!Memories -> BOOLEAN]
  BY DEF PathInv, EngineInv, Others, Served, A!TypeOK
<1>2. n64' \in [request : BOOLEAN, active : BOOLEAN]
  <2> DEFINE r == n64.request /\ ~A!AckOf("n64", "sdram")
  <2>1. r \in BOOLEAN
    OBVIOUS
  <2>2. \/ n64' = [n64 EXCEPT !.request = r] \/ n64' = [n64 EXCEPT !.active = TRUE]
        \/ n64' = [n64 EXCEPT !.request = TRUE] \/ n64' = [request |-> r, active |-> FALSE]
    BY DEF Tick, N64Step
  <2> HIDE DEF r
  <2>3. \A x \in BOOLEAN : [n64 EXCEPT !.request = x] \in [request : BOOLEAN, active : BOOLEAN]
    BY <1>1
  <2>4. [n64 EXCEPT !.active = TRUE] \in [request : BOOLEAN, active : BOOLEAN]
    BY <1>1
  <2>5. [request |-> r, active |-> FALSE] \in [request : BOOLEAN, active : BOOLEAN]
    BY <2>1
  <2>6. TRUE \in BOOLEAN
    OBVIOUS
  <2> QED BY <2>1, <2>2, <2>3, <2>4, <2>5, <2>6
<1>3. ack' = [ack EXCEPT !["sdram"] = now]
  BY DEF Tick, MemoryAnswers
<1> QED BY <1>1, <1>2, <1>3 DEF Others, A!Memories

\* A clock edge is one of the arbiter: the engine holds what it asks for until
\* the acknowledgement (memory_dma.sv:112-140), and so does the N64's bus.
LEMMA EdgeIsArbiters ==
  ASSUME PathInv, NEW now \in BOOLEAN, Tick(now)
  PROVE  A!Tick
<1>1. EngineTyped' /\ Others'
  BY TypedAtEdge, OthersAtEdge
<1>2. EngineTyped /\ Others /\ Requests /\ Acks \in BOOLEAN /\ (Acks => memState = "TRANSFER")
  BY AcksExpected DEF PathInv, EngineInv, Acks, A!AckOf, Served, A!TypeOK, A!Memories
<1>3. arb' = [m \in A!Memories |-> A!Latch(m)]
  BY DEF Tick
<1>4. [m \in {"sdram", "flash", "bram"} |-> m = "sdram" /\ n64.active]' \in [A!Memories -> BOOLEAN]
  BY <1>1 DEF Others, A!Memories
<1>5. A!ClientStep
  <2>1. Asks' \in [A!Clients -> BOOLEAN]
    BY <1>1 DEF Others, EngineTyped, Asks, A!Clients
  <2>2. Accesses' \in [A!Clients -> Access]
    <3>1. [mem |-> "sdram", write |-> bus'.write, mask |-> bus'.mask,
           address |-> bus'.address, wdata |-> bus'.wdata] \in Access
      BY <1>1 DEF EngineTyped, Access
    <3>2. Reading0 \in Access
      BY MemoryAssumption DEF Reading0, Access, Bytes
    <3> QED BY <3>1, <3>2 DEF Accesses, A!Clients, Reading0
  <2>3. ASSUME NEW c \in A!Clients, Asks[c], ~A!Acked(c)
        PROVE  Asks'[c] /\ Accesses'[c] = Accesses[c]
    <3>1. CASE c = "usb"
      <4>1. bus.request /\ ~Acks
        BY <2>3, <3>1 DEF Asks, Acks, A!Acked, A!AckOf, A!Memories
      <4>2. memState = "TRANSFER" /\ ~Issues(Acks) /\ ~Begins
        BY <1>2, <4>1 DEF Requests, Issues, Begins
      <4>3. bus' = NextBus(Acks)
        BY EngineEdge
      <4>4. bus'.request
        BY <4>1, <4>2, <4>3 DEF NextBus
      <4>5. bus'.write = bus.write /\ bus'.mask = bus.mask /\ bus'.wdata = bus.wdata
        BY <4>2, <4>3 DEF NextBus
      <4>6. bus'.address = bus.address
        <5>1. NextAddress(Acks) = bus.address + 0
          BY <4>1, <4>2 DEF NextAddress
        <5> QED BY <1>2, <4>3, <5>1 DEF NextBus, EngineTyped
      <4> QED BY <3>1, <4>4, <4>5, <4>6 DEF Asks, Accesses
    <3>2. CASE c = "n64"
      <4>1. n64.request /\ ~A!AckOf("n64", "sdram")
        BY <2>3, <3>2 DEF Asks, A!Acked, A!AckOf, A!Memories
      <4>2. n64'.request
        BY <1>2, <4>1 DEF Tick, N64Step, Others
      <4> QED BY <3>2, <4>2 DEF Asks, Accesses
    <3>3. CASE c \in {"cfg", "sd"}
      BY <2>3, <3>3 DEF Asks
    <3> QED BY <3>1, <3>2, <3>3 DEF A!Clients
  <2> QED BY <2>1, <2>2, <2>3 DEF A!ClientStep
<1>6. A!MemoryStep
  <2>1. ack' = [ack EXCEPT !["sdram"] = now] /\ (now => arb["sdram"].request /\ ~ack["sdram"])
    BY DEF Tick, MemoryAnswers
  <2>2. ack \in [A!Memories -> BOOLEAN]
    BY DEF PathInv, Served, A!TypeOK
  <2> QED BY <1>2, <2>1, <2>2 DEF A!MemoryStep, A!Memories, Others
<1> QED BY <1>3, <1>4, <1>5, <1>6 DEF A!Tick

\* What the controller, the USB interface and the host do leaves the clients,
\* the arbiter and the memory alone.
LEMMA StepsBetween ==
  ASSUME EngineInv, \/ Transfers \/ Resets \/ FtStep \/ HostSend \/ HostReceive \/ HostResets
  PROVE  /\ EngineInv'
         /\ UNCHANGED <<bus, n64, arb, ack>>
<1> USE DEF ftVars, rxVars, txVars, modemVars, chipVars, dmaVars, busVars, rxSide, txSide,
            clockVars, ctlVars, ghosts, ftRest, hostRest
<1>1. UNCHANGED <<memState, bus, left, oddStart, oddEnd, wBuf, dmaStart, busy, n64, arb, ack>>
  <2>1. CASE Transfers
    BY <2>1 DEF Transfers, Pop, Push, StartDma
  <2>2. CASE Resets
    BY <2>2 DEF Resets, ResetDma, ResetFifos, ResetOnAck, ResetOffAck
  <2>3. CASE FtStep
    BY <2>3 DEF FtStep
  <2>4. CASE HostSend \/ HostReceive
    BY <2>4 DEF HostSend, HostReceive
  <2>5. CASE HostResets
    BY <2>5 DEF HostResets, HostReset, HostRelease, HostUp
  <2> QED BY <2>1, <2>2, <2>3, <2>4, <2>5
<1>2. BytesTyped'
  <2>1. \/ toDev' = toDev \/ toDev' = <<>>
        \/ toDev' = Append(toDev, sent + 1) /\ sent < MaxSent
        \/ toDev # <<>> /\ toDev' = Tail(toDev)
    <3>1. CASE Transfers
      BY <3>1 DEF Transfers, Pop, Push, StartDma
    <3>2. CASE Resets
      BY <3>2 DEF Resets, ResetDma, ResetFifos, ResetOnAck, ResetOffAck
    <3>3. CASE FtStep
      BY <3>3 DEF FtStep, FtIdle, FtStatus, FtData, FtFlush, FtRead, FtWrite, FtReadModem,
          FtWriteModem, Accepts
    <3>4. CASE HostSend \/ HostReceive
      BY <3>4 DEF HostSend, HostReceive
    <3>5. CASE HostResets
      BY <3>5 DEF HostResets, HostReset, HostRelease, HostUp
    <3> QED BY <3>1, <3>2, <3>3, <3>4, <3>5
  <2>11. sent' = sent \/ (sent < MaxSent /\ sent' = sent + 1)
    <3>1. CASE Transfers
      BY <3>1 DEF Transfers, Pop, Push, StartDma
    <3>2. CASE Resets
      BY <3>2 DEF Resets, ResetDma, ResetFifos, ResetOnAck, ResetOffAck
    <3>3. CASE FtStep
      BY <3>3 DEF FtStep, FtIdle, FtStatus, FtData, FtFlush, FtRead, FtWrite, FtReadModem,
          FtWriteModem
    <3>4. CASE HostSend \/ HostReceive
      BY <3>4 DEF HostSend, HostReceive
    <3>5. CASE HostResets
      BY <3>5 DEF HostResets, HostReset, HostRelease, HostUp
    <3> QED BY <3>1, <3>2, <3>3, <3>4, <3>5
  <2>12. sent \in 0 .. MaxSent /\ sent' \in 0 .. MaxSent
    BY <2>11, MemoryAssumption DEF EngineInv, BytesTyped
  <2>2. rxByte' = rxByte \/ rxByte' = 0 \/ (toDev # <<>> /\ rxByte' = Head(toDev))
    <3>1. CASE Transfers
      BY <3>1 DEF Transfers, Pop, Push, StartDma
    <3>2. CASE Resets
      BY <3>2 DEF Resets, ResetDma, ResetFifos, ResetOnAck, ResetOffAck
    <3>3. CASE FtStep
      BY <3>3 DEF FtStep, FtIdle, FtStatus, FtData, FtFlush, FtRead, FtWrite, FtReadModem,
          FtWriteModem,
                  Accepts
    <3>4. CASE HostSend \/ HostReceive
      BY <3>4 DEF HostSend, HostReceive
    <3>5. CASE HostResets
      BY <3>5 DEF HostResets, HostReset, HostRelease, HostUp
    <3> QED BY <3>1, <3>2, <3>3, <3>4, <3>5
  <2>3. \/ rxFifo' = rxFifo \/ rxFifo' = <<>> \/ rxFifo' = Append(rxFifo, rxByte)
        \/ rxFifo # <<>> /\ rxFifo' = Tail(rxFifo)
        \/ toDev # <<>> /\ rxFifo' = Append(rxFifo, Head(toDev))
    <3>1. CASE Transfers
      BY <3>1 DEF Transfers, Pop, Push, StartDma, RxEmpty
    <3>2. CASE Resets
      BY <3>2 DEF Resets, ResetDma, ResetFifos, ResetOnAck, ResetOffAck
    <3>3. CASE FtStep
      BY <3>3 DEF FtStep, FtIdle, FtStatus, FtData, FtFlush, FtRead, FtWrite, FtReadModem,
          FtWriteModem,
                  Accepts
    <3>4. CASE HostSend \/ HostReceive
      BY <3>4 DEF HostSend, HostReceive
    <3>5. CASE HostResets
      BY <3>5 DEF HostResets, HostReset, HostRelease, HostUp
    <3> QED BY <3>1, <3>2, <3>3, <3>4, <3>5
  <2>4. rxOut' = rxOut \/ (rxFifo # <<>> /\ rxOut' = Head(rxFifo))
    <3>1. CASE Transfers
      BY <3>1 DEF Transfers, Pop, Push, StartDma, RxEmpty
    <3>2. CASE Resets
      BY <3>2 DEF Resets, ResetDma, ResetFifos, ResetOnAck, ResetOffAck
    <3>3. CASE FtStep
      BY <3>3 DEF FtStep, FtIdle, FtStatus, FtData, FtFlush, FtRead, FtWrite, FtReadModem,
          FtWriteModem
    <3>4. CASE HostSend \/ HostReceive
      BY <3>4 DEF HostSend, HostReceive
    <3>5. CASE HostResets
      BY <3>5 DEF HostResets, HostReset, HostRelease, HostUp
    <3> QED BY <3>1, <3>2, <3>3, <3>4, <3>5
  <2>5. 0 \in Bytes /\ (sent < MaxSent => sent + 1 \in Bytes)
    BY MemoryAssumption DEF Bytes, EngineInv, BytesTyped
  <2>6. /\ \A s \in Seq(Bytes) : s # <<>> => Head(s) \in Bytes /\ Tail(s) \in Seq(Bytes)
        /\ \A s \in Seq(Bytes), x \in Bytes : Append(s, x) \in Seq(Bytes)
        /\ <<>> \in Seq(Bytes)
    OBVIOUS
  <2>7. toDev \in Seq(Bytes) /\ rxFifo \in Seq(Bytes) /\ rxByte \in Bytes /\ rxOut \in Bytes
    BY DEF EngineInv, BytesTyped
  <2>8. toDev' \in Seq(Bytes)
    BY <2>1, <2>5, <2>6, <2>7
  <2>9. rxFifo' \in Seq(Bytes)
    BY <2>3, <2>6, <2>7
  <2>10. rxByte' \in Bytes /\ rxOut' \in Bytes
    BY <2>2, <2>4, <2>5, <2>6, <2>7
  <2> QED BY <1>1, <2>12, <2>8, <2>9, <2>10 DEF EngineInv, BytesTyped
<1>3. EngineTyped' /\ Requests' /\ Counted'
  <2>1. CASE scb' = scb
    <3>1. EngineTyped'
      BY <1>1, <2>1 DEF EngineInv, EngineTyped, End
    <3>2. Requests' /\ Counted'
      BY <1>1, <2>1 DEF EngineInv, Requests, Counted, End
    <3> QED BY <3>1, <3>2
  <2>2. CASE \E j \in Jobs : StartDma(j)
    <3>1. PICK j \in Jobs : StartDma(j)
      BY <2>2
    <3>2. scb' = [start |-> TRUE, stop |-> FALSE, write |-> j.write,
                  address |-> j.address, length |-> j.length] /\ DmaReady
      BY <3>1 DEF StartDma, DmaCommand
    <3>3. j.write \in BOOLEAN /\ j.address \in Nat /\ j.length \in Nat \ {0}
          /\ j.address + j.length <= Cells
      BY MemoryAssumption
    <3>4. scb' \in [start : BOOLEAN, stop : BOOLEAN, write : BOOLEAN, address : Nat, length : Nat]
          /\ scb'.length > 0 /\ scb'.address + scb'.length <= Cells
      BY <3>2, <3>3
    <3>5. memState = "IDLE"
      BY <3>2 DEF DmaReady, EngineInv, Requests
    <3> QED BY <1>1, <3>4, <3>5 DEF EngineInv, EngineTyped, Requests, Counted, End
  <2>3. CASE ResetDma
    <3>1. scb' = [scb EXCEPT !.start = FALSE, !.stop = TRUE]
      BY <2>3 DEF ResetDma, DmaCommand
    <3>2. scb' \in [start : BOOLEAN, stop : BOOLEAN, write : BOOLEAN, address : Nat, length : Nat]
          /\ scb'.address = scb.address /\ scb'.length = scb.length /\ ~scb'.start
      BY <3>1 DEF EngineInv, EngineTyped
    <3>3. EngineTyped'
      BY <1>1, <3>2 DEF EngineInv, EngineTyped, End
    <3>4. Requests' /\ Counted'
      BY <1>1, <3>2 DEF EngineInv, Requests, Counted, End
    <3> QED BY <3>3, <3>4
  <2>4. \/ scb' = scb \/ (\E j \in Jobs : StartDma(j)) \/ ResetDma
    <3>1. CASE Transfers
      BY <3>1 DEF Transfers, Pop, Push
    <3>2. CASE Resets
      BY <3>2 DEF Resets, ResetFifos, ResetOnAck, ResetOffAck
    <3>3. CASE FtStep
      BY <3>3 DEF FtStep
    <3>4. CASE HostSend \/ HostReceive
      BY <3>4 DEF HostSend, HostReceive
    <3>5. CASE HostResets
      BY <3>5 DEF HostResets, HostReset, HostRelease, HostUp
    <3> QED BY <3>1, <3>2, <3>3, <3>4, <3>5
  <2> QED BY <2>1, <2>2, <2>3, <2>4
<1>4. Others'
  BY <1>1 DEF EngineInv, Others
<1> QED BY <1>1, <1>2, <1>3, <1>4 DEF EngineInv

\* Every step keeps the invariant, and is an edge of the arbiter or none.
LEMMA PathNext ==
  ASSUME PathInv, [Next]_vars
  PROVE  PathInv' /\ [A!Tick]_A!vars
<1>1. CASE Clock
  <2>1. PICK now \in BOOLEAN : Tick(now)
    BY <1>1 DEF Clock
  <2>2. A!Tick
    BY <2>1, EdgeIsArbiters
  <2>3. Served'
    BY <2>2, Kept DEF PathInv
  <2>4. BytesTyped' /\ EngineTyped' /\ Requests' /\ Others' /\ Counted'
    BY <2>1, BytesAtEdge, TypedAtEdge, RequestsAtEdge, OthersAtEdge,
        CountedAtEdge DEF PathInv, EngineInv
  <2> QED BY <2>2, <2>3, <2>4 DEF PathInv, EngineInv
<1>2. CASE Transfers \/ Resets \/ FtStep \/ HostSend \/ HostReceive \/ HostResets
  <2>1. EngineInv' /\ UNCHANGED <<bus, n64, arb, ack>>
    BY <1>2, StepsBetween DEF PathInv
  <2>2. Asks' = Asks /\ Accesses' = Accesses
    BY <2>1 DEF Asks, Accesses
  <2>3. Served'
    BY <2>1, <2>2 DEF PathInv, Served, A!TypeOK, A!ServesItsClient, A!AckMeansRequest
  <2> QED BY <2>1, <2>2, <2>3 DEF PathInv, A!vars
<1>3. CASE UNCHANGED vars
  <2> USE DEF vars, ftVars, rxVars, txVars, modemVars, chipVars, dmaVars, busVars, rxSide, txSide,
              clockVars, ctlVars, ghosts
  <2>1. UNCHANGED <<bus, n64, arb, ack>>
    BY <1>3
  <2>2. BytesTyped' /\ EngineTyped' /\ Requests' /\ Counted' /\ Others'
    BY <1>3 DEF PathInv, EngineInv, BytesTyped, EngineTyped, Requests, Counted, Others, End
  <2>3. Asks' = Asks /\ Accesses' = Accesses
    BY <2>1 DEF Asks, Accesses
  <2>4. Served'
    BY <2>1, <2>3 DEF PathInv, Served, A!TypeOK, A!ServesItsClient, A!AckMeansRequest
  <2> QED BY <2>1, <2>2, <2>3, <2>4 DEF PathInv, EngineInv, A!vars
<1> QED BY <1>1, <1>2, <1>3 DEF Next

\* Nothing has been asked for at the start.
LEMMA PathInit == Init => PathInv /\ A!Init
<1> SUFFICES ASSUME Init PROVE PathInv /\ A!Init
  OBVIOUS
<1>1. 0 \in Bytes /\ None \in Bytes /\ <<>> \in Seq(Bytes)
  BY MemoryAssumption DEF Bytes
<1>2. BytesTyped
  BY <1>1, MemoryAssumption DEF Init, FtInit, DmaInit, BytesTyped
<1>3. EngineTyped
  <2>1. scb = [start |-> FALSE, stop |-> FALSE, write |-> FALSE, address |-> 0, length |-> 0]
    BY DEF Init, DmaInit
  <2>2. scb \in [start : BOOLEAN, stop : BOOLEAN, write : BOOLEAN, address : Nat, length : Nat]
        /\ ~scb.start /\ End = 0
    BY <2>1 DEF End
  <2>3. bus = [request |-> FALSE, write |-> FALSE, address |-> 0, mask |-> Both,
               wdata |-> <<None, None>>]
    BY DEF Init, DmaInit
  <2>4. <<None, None>> \in Bytes \X Bytes /\ 0 \in 0 .. Cells
    BY <1>1, MemoryAssumption
  <2>5. bus \in [request : BOOLEAN, write : BOOLEAN, address : 0 .. Cells,
                 mask : {Both, High, Low}, wdata : Bytes \X Bytes]
    BY <2>3, <2>4
  <2>6. bus.address % 2 = 0
    BY <2>3
  <2>7. memState = "IDLE" /\ left = 0 /\ dmaStart = FALSE /\ busy = FALSE
        /\ oddStart = FALSE /\ oddEnd = FALSE
    BY DEF Init, DmaInit
  <2>8. End <= Cells /\ (scb.start \/ dmaStart => scb.length > 0)
    BY <2>2, <2>7, MemoryAssumption
  <2> QED BY <2>2, <2>5, <2>6, <2>7, <2>8 DEF EngineTyped
<1>4. Requests /\ Counted /\ Others
  BY DEF Init, DmaInit, Requests, Counted, Others
<1>5. Reading0 \in Access /\ Accesses["usb"] \in Access
  BY <1>1, <1>3, MemoryAssumption DEF Reading0, Access, Accesses, EngineTyped
<1>6. Accesses \in [A!Clients -> Access]
  BY <1>5 DEF Accesses, A!Clients
<1>7. Asks = [c \in A!Clients |-> FALSE]
  BY DEF Init, DmaInit, Asks, A!Clients
<1>8. [m \in {"sdram", "flash", "bram"} |-> m = "sdram" /\ n64.active]
        = [m \in A!Memories |-> FALSE]
  BY DEF Init, A!Memories
<1>9. arb \in [A!Memories -> [request : {FALSE}, source : A!Clients, access : Access]]
  BY <1>5 DEF Init, Idle, A!Memories, A!Clients
<1>10. ack = [m \in A!Memories |-> FALSE]
  BY DEF Init, A!Memories
<1>11. A!Init
  BY <1>6, <1>7, <1>8, <1>9, <1>10 DEF A!Init
<1>12. Served
  BY <1>6, <1>7, <1>8, <1>9, <1>10 DEF Served, A!TypeOK, A!ServesItsClient, A!AckMeansRequest
<1> QED BY <1>2, <1>3, <1>4, <1>11, <1>12 DEF PathInv, EngineInv

\* The invariant holds in every behaviour.
THEOREM PathFollowed == Spec => []PathInv
<1>1. PathInv /\ [Next]_vars => PathInv'
  BY PathNext
<1> QED BY <1>1, PathInit, PTL DEF Spec

\* The way of the bytes implements the arbiter: the DMA engine and the N64 hold
\* every request with its address and data until the acknowledgement, whatever
\* the host, the controller and a reset of the link do in between, and the
\* memory answers what is latched for it (memory_dma.sv:112-140,
\* memory_arbiter.sv).
THEOREM PathUsesArbiter == Spec => UsesArbiter
<1>1. PathInv /\ [Next]_vars => PathInv' /\ [A!Tick]_A!vars
  BY PathNext
<1> QED BY <1>1, PathInit, PTL DEF Spec, UsesArbiter, A!Spec

\* A word that the engine asks for is a whole one, within the memory.
WordInside == bus.request => bus.address % 2 = 0 /\ bus.address + 1 < Cells

\* No word on the bus lies outside the memory.
LEMMA Inside == PathInv => WordInside
<1> SUFFICES ASSUME PathInv, bus.request
             PROVE  bus.address % 2 = 0 /\ bus.address + 1 < Cells
  BY DEF WordInside
<1> DEFINE a == bus.address
           e == End
<1>1. memState = "TRANSFER" /\ left \in Nat /\ e <= Cells /\ a % 2 = 0
  BY DEF PathInv, EngineInv, EngineTyped, Requests
<1>2. a \in Nat /\ e \in Nat
  <2>1. scb.address \in Nat /\ scb.length \in Nat /\ bus.address \in 0 .. Cells
    BY DEF PathInv, EngineInv, EngineTyped
  <2> QED BY <2>1, MemoryAssumption DEF End
<1>3. (left > 0 => a + 2 + left = e) /\ (left = 0 => a + 2 = e \/ a + 2 = e + 1)
  BY <1>1 DEF PathInv, EngineInv, Counted
<1> HIDE DEF a, e
<1>4. a + 2 <= Cells + 1
  BY <1>1, <1>2, <1>3, MemoryAssumption
<1>5. a + 2 # Cells + 1
  BY <1>1, <1>2, MemoryAssumption
<1>6. a % 2 = 0 /\ a + 1 < Cells
  BY <1>1, <1>2, <1>4, <1>5, MemoryAssumption
<1> QED BY <1>6 DEF a

\* No word of the engine lies outside the memory, and the bytes it has left end
\* with its job, whether that begins or ends in the middle of a word
\* (memory_dma.sv:126-172).
THEOREM EngineStaysInside == Spec => [](Counted /\ WordInside)
<1>1. PathInv => Counted /\ WordInside
  BY Inside DEF PathInv, EngineInv
<1> QED BY <1>1, PathFollowed, PTL

\* What the memory does for the engine is what the engine still asks for.
THEOREM EngineServed == Spec => []Served
<1>1. PathInv => Served
  BY DEF PathInv
<1> QED BY <1>1, PathFollowed, PTL

-----------------------------------------------------------------------------
(* Three pieces of a way, one after the other.                              *)

\* What a sequence of three pieces is made of.
LEMMA Pieces ==
  ASSUME NEW S, NEW s \in Seq(S), NEW h \in Seq(S), NEW t \in Seq(S)
  PROVE  /\ s \o h \o t \in Seq(S)
         /\ Len(s \o h \o t) = Len(s) + Len(h) + Len(t)
         /\ Len(s) \in Nat /\ Len(h) \in Nat /\ Len(t) \in Nat
         /\ \A i \in 1 .. Len(s) + Len(h) + Len(t) :
              (s \o h \o t)[i] = IF i <= Len(s) THEN s[i]
                                 ELSE IF i <= Len(s) + Len(h) THEN h[i - Len(s)]
                                 ELSE t[i - Len(s) - Len(h)]
<1>1. Len(s) \in Nat /\ Len(h) \in Nat /\ Len(t) \in Nat
  BY LenProperties
<1>2. /\ s \o h \in Seq(S) /\ Len(s \o h) = Len(s) + Len(h)
      /\ \A i \in 1 .. Len(s) + Len(h) : (s \o h)[i] = IF i <= Len(s) THEN s[i] ELSE h[i - Len(s)]
  BY ConcatProperties
<1>3. /\ s \o h \o t \in Seq(S) /\ Len(s \o h \o t) = Len(s \o h) + Len(t)
      /\ \A i \in 1 .. Len(s \o h) + Len(t) :
           (s \o h \o t)[i] = IF i <= Len(s \o h) THEN (s \o h)[i] ELSE t[i - Len(s \o h)]
  BY <1>2, ConcatProperties
<1> QED BY <1>1, <1>2, <1>3

\* A byte between two pieces belongs to the first ...
LEMMA JoinByte ==
  ASSUME NEW S, NEW s \in Seq(S), NEW t \in Seq(S), NEW e \in S
  PROVE  Append(s, e) \o <<>> \o t = s \o <<e>> \o t
<1>1. Append(s, e) = s \o <<e>> /\ Append(s, e) \in Seq(S)
  BY AppendIsConcat, AppendProperties
<1> QED BY <1>1, ConcatEmptySeq

\* ... or was the head of the last.
LEMMA MoveByte ==
  ASSUME NEW S, NEW s \in Seq(S), NEW t \in Seq(S), t # <<>>
  PROVE  /\ s \o <<Head(t)>> \o Tail(t) = s \o <<>> \o t
         /\ Append(s, Head(t)) \o <<>> \o Tail(t) = s \o <<>> \o t
<1>1. Head(t) \in S /\ Tail(t) \in Seq(S) /\ <<Head(t)>> \in Seq(S)
  BY HeadTailProperties
<1>2. <<Head(t)>> \o Tail(t) = t
  <2>1. Len(t) >= 1 /\ Len(t) \in Nat
    BY EmptySeq, LenProperties
  <2>2. SubSeq(t, 1, Len(t)) = <<t[1]>> \o SubSeq(t, 2, Len(t))
    BY <2>1, SubSeqRecursiveFirst
  <2>3. SubSeq(t, 1, Len(t)) = t
    BY SubSeqFull
  <2>4. Tail(t) = SubSeq(t, 2, Len(t)) /\ Head(t) = t[1]
    BY TailIsSubSeq
  <2> QED BY <2>2, <2>3, <2>4
<1>3. s \o <<Head(t)>> \o Tail(t) = s \o (<<Head(t)>> \o Tail(t))
  BY <1>1, ConcatAssociative
<1>4. s \o <<Head(t)>> \o Tail(t) = s \o <<>> \o t
  BY <1>2, <1>3, ConcatEmptySeq
<1>5. Append(s, Head(t)) \o <<>> \o Tail(t) = s \o <<Head(t)>> \o Tail(t)
  BY <1>1, JoinByte
<1> QED BY <1>4, <1>5

\* A byte is taken from the way ...
LEMMA TakeByte ==
  ASSUME NEW S, NEW s \in Seq(S), NEW h \in Seq(S), NEW t \in Seq(S), s # <<>>
  PROVE  /\ Tail(s) \o h \o t = Tail(s \o h \o t)
         /\ Head(s) = Head(s \o h \o t) /\ s \o h \o t # <<>>
<1> DEFINE w == s \o h \o t
<1>1. /\ w \in Seq(S) /\ Len(w) = Len(s) + Len(h) + Len(t)
      /\ Len(s) \in Nat /\ Len(h) \in Nat /\ Len(t) \in Nat
      /\ \A i \in 1 .. Len(w) : w[i] = IF i <= Len(s) THEN s[i]
                                 ELSE IF i <= Len(s) + Len(h) THEN h[i - Len(s)]
                                 ELSE t[i - Len(s) - Len(h)]
  BY Pieces
<1>2. Len(s) >= 1
  BY EmptySeq
<1>3. w # <<>> /\ Head(s) = Head(w)
  BY <1>1, <1>2, EmptySeq
<1>4. /\ Tail(s) \in Seq(S) /\ Len(Tail(s)) = Len(s) - 1
      /\ \A i \in 1 .. Len(Tail(s)) : Tail(s)[i] = s[i + 1]
  BY HeadTailProperties
<1>5. /\ Tail(w) \in Seq(S) /\ Len(Tail(w)) = Len(w) - 1
      /\ \A i \in 1 .. Len(Tail(w)) : Tail(w)[i] = w[i + 1]
  BY <1>1, <1>3, HeadTailProperties
<1> DEFINE v == Tail(s) \o h \o t
<1>6. /\ v \in Seq(S) /\ Len(v) = Len(s) - 1 + Len(h) + Len(t)
      /\ \A i \in 1 .. Len(v) : v[i] = IF i <= Len(s) - 1 THEN Tail(s)[i]
                               ELSE IF i <= Len(s) - 1 + Len(h) THEN h[i - (Len(s) - 1)]
                               ELSE t[i - (Len(s) - 1) - Len(h)]
  BY <1>4, Pieces
<1>7. Len(v) = Len(Tail(w))
  BY <1>1, <1>5, <1>6
<1>8. ASSUME NEW i \in 1 .. Len(v) PROVE v[i] = Tail(w)[i]
  <2>1. Tail(w)[i] = w[i + 1] /\ i + 1 \in 1 .. Len(w)
    BY <1>1, <1>5, <1>6, <1>7
  <2>2. i \in Int /\ i - (Len(s) - 1) = i + 1 - Len(s)
        /\ i - (Len(s) - 1) - Len(h) = i + 1 - Len(s) - Len(h)
    BY <1>1
  <2> HIDE DEF w, v
  <2>3. CASE i <= Len(s) - 1
    BY SMTT(30), <1>1, <1>2, <1>4, <1>6, <2>1, <2>2, <2>3
  <2>4. CASE i > Len(s) - 1
    <3>1. i + 1 > Len(s) /\ (i <= Len(s) - 1 + Len(h) <=> i + 1 <= Len(s) + Len(h))
      BY <1>1, <2>2, <2>4
    <3>2. v[i] = IF i <= Len(s) - 1 + Len(h) THEN h[i - (Len(s) - 1)]
                 ELSE t[i - (Len(s) - 1) - Len(h)]
      BY <1>1, <1>6, <2>2, <2>4
    <3>3. w[i + 1] = IF i + 1 <= Len(s) + Len(h) THEN h[i + 1 - Len(s)]
                     ELSE t[i + 1 - Len(s) - Len(h)]
      BY <1>1, <2>1, <3>1
    <3>4. h[i - (Len(s) - 1)] = h[i + 1 - Len(s)]
          /\ t[i - (Len(s) - 1) - Len(h)] = t[i + 1 - Len(s) - Len(h)]
      BY <2>2
    <3>5. v[i] = w[i + 1]
      BY <3>1, <3>2, <3>3, <3>4
    <3> QED BY <2>1, <3>5
  <2>5. i <= Len(s) - 1 \/ i > Len(s) - 1
    BY <1>1, <2>2
  <2> QED BY <2>3, <2>4, <2>5
<1> HIDE DEF v, w
<1>9. v = Tail(w)
  BY <1>5, <1>6, <1>7, <1>8, SeqEqual
<1> QED BY <1>3, <1>9 DEF v, w

\* ... or put behind all others.
LEMMA GiveByte ==
  ASSUME NEW S, NEW s \in Seq(S), NEW h \in Seq(S), NEW t \in Seq(S), NEW e \in S
  PROVE  s \o h \o Append(t, e) = Append(s \o h \o t, e)
<1>1. <<e>> \in Seq(S) /\ s \o h \in Seq(S) /\ s \o h \o t \in Seq(S)
  BY ConcatProperties
<1>2. Append(t, e) = t \o <<e>> /\ Append(s \o h \o t, e) = s \o h \o t \o <<e>>
  BY <1>1, AppendIsConcat
<1>3. (s \o h \o t) \o <<e>> = (s \o h) \o (t \o <<e>>)
  BY SMTT(30), <1>1, ConcatAssociative
<1> QED BY <1>2, <1>3

-----------------------------------------------------------------------------
(* The USB interface.                                                       *)

\* A byte between two places is one byte or none.
LEMMA HeldTyped ==
  ASSUME BytesTyped, FlowTyped
  PROVE  RxHeld \in Seq(Bytes) /\ TxHeld \in Seq(Bytes)
<1>1. \A x \in Bytes : <<x>> \in Seq(Bytes)
  OBVIOUS
<1>2. <<>> \in Seq(Bytes)
  BY EmptySeq
<1> QED BY <1>1, <1>2 DEF BytesTyped, FlowTyped, RxHeld, TxHeld

\* No phase of a transaction loses, doubles or overtakes a byte, also when the
\* FIFO has no room for it or the FT232H refuses it (usb_ft1248.sv:153-190).
LEMMA FtMoves ==
  ASSUME BytesTyped, FlowTyped, Transactions, FtIdle \/ FtStatus \/ FtData
  PROVE  /\ Upstream' = Upstream /\ Downstream' = Downstream
         /\ Transactions'
         /\ txFifo' \in Seq(Bytes) /\ toHost' \in Seq(Bytes) /\ txOut' \in Bytes
<1>1. /\ rxFifo \in Seq(Bytes) /\ toDev \in Seq(Bytes) /\ rxByte \in Bytes
      /\ txFifo \in Seq(Bytes) /\ toHost \in Seq(Bytes) /\ txOut \in Bytes
  BY DEF BytesTyped, FlowTyped
<1>2. /\ \A s \in Seq(Bytes), x \in Bytes : Append(s, x) \in Seq(Bytes)
      /\ \A s \in Seq(Bytes) : s # <<>> => Head(s) \in Bytes /\ Tail(s) \in Seq(Bytes)
  BY AppendProperties, HeadTailProperties
<1>3. CASE FtIdle
  <2>1. /\ UNCHANGED <<rxByte, txFifo, txOut, txFailed, toHost, toDev>> /\ ftState = "IDLE"
        /\ rxFailed' = (rxFailed /\ RxFull)
        /\ rxFifo' = IF rxFailed /\ ~RxFull THEN Append(rxFifo, rxByte) ELSE rxFifo
        /\ ftCmd' = NextCommand
        /\ ftState' = IF NextCommand = "NONE" THEN "IDLE" ELSE "STATUS"
    BY <1>3 DEF FtIdle, txVars, chipVars
  <2>2. Upstream' = Upstream
    <3>1. CASE rxFailed /\ ~RxFull
      <4>1. RxHeld = <<rxByte>> /\ RxHeld' = <<>> /\ rxFifo' = Append(rxFifo, rxByte)
        BY <2>1, <3>1 DEF RxHeld
      <4>2. Append(rxFifo, rxByte) \o <<>> \o toDev = rxFifo \o <<rxByte>> \o toDev
        BY <1>1, JoinByte
      <4> QED BY <2>1, <4>1, <4>2 DEF Upstream
    <3>2. CASE ~(rxFailed /\ ~RxFull)
      BY <2>1, <3>2 DEF Upstream, RxHeld
    <3> QED BY <3>1, <3>2
  <2>3. Downstream' = Downstream
    BY <2>1 DEF Downstream, TxHeld
  <2>4. Transactions'
    BY <2>1 DEF Transactions, NextCommand
  <2> QED BY <1>1, <2>1, <2>2, <2>3, <2>4
<1>4. CASE FtStatus
  <2>1. /\ UNCHANGED <<rxFifo, rxByte, rxFailed, txFailed, toDev, toHost>> /\ ftState = "STATUS"
        /\ ftState' = IF Accepts THEN "DATA" ELSE "IDLE"
        /\ ftState' # "IDLE" => ftCmd' = ftCmd
        /\ Accepts => ftCmd' = ftCmd
    BY <1>4 DEF FtStatus, rxVars, chipVars, Phase
  <2>2. Upstream' = Upstream
    BY <2>1 DEF Upstream, RxHeld
  <2>3. CASE Accepts /\ ftCmd = "WRITE" /\ ~txFailed
    <3>1. txOut' = Head(txFifo) /\ txFifo' = Tail(txFifo) /\ txFifo # <<>>
      BY <1>4, <2>1, <2>3 DEF FtStatus, Transactions
    <3>2. TxHeld = <<>> /\ TxHeld' = <<Head(txFifo)>>
      BY <2>1, <2>3, <3>1 DEF TxHeld
    <3>3. Downstream' = Downstream
      BY <1>1, <2>1, <3>1, <3>2, MoveByte DEF Downstream
    <3>4. Transactions'
      BY <2>1, <2>3 DEF Transactions
    <3> QED BY <1>1, <1>2, <2>1, <2>2, <3>1, <3>3, <3>4
  <2>4. CASE ~(Accepts /\ ftCmd = "WRITE" /\ ~txFailed)
    <3>1. txOut' = txOut /\ txFifo' = txFifo
      BY <1>4, <2>4 DEF FtStatus
    <3>2. TxHeld' = TxHeld
      BY <2>1, <2>4, <3>1 DEF TxHeld
    <3>3. Downstream' = Downstream
      BY <2>1, <3>1, <3>2 DEF Downstream
    <3>4. Transactions'
      BY <2>1, <2>4, <3>1 DEF Transactions
    <3> QED BY <1>1, <2>1, <2>2, <3>1, <3>3, <3>4
  <2> QED BY <2>3, <2>4
<1>5. CASE FtRead
  <2>1. /\ UNCHANGED <<txFifo, txOut, txFailed, toHost>> /\ ftState = "DATA" /\ ftCmd = "READ"
        /\ ~rxFailed
        /\ rxFailed' = (Accepts /\ RxFull)
        /\ toDev' = IF Accepts THEN Tail(toDev) ELSE toDev
        /\ rxByte' = IF Accepts /\ RxFull THEN Head(toDev) ELSE 0
        /\ rxFifo' = IF Accepts /\ ~RxFull THEN Append(rxFifo, Head(toDev)) ELSE rxFifo
        /\ ftState' = IF Accepts /\ ~RxFull THEN "DATA" ELSE "IDLE"
        /\ ftState' # "IDLE" => ftCmd' = ftCmd
        /\ ftCmd' # "WRITE"
    BY <1>5 DEF FtRead, txVars, Phase, Transactions
  <2>2. Downstream' = Downstream
    BY <2>1 DEF Downstream, TxHeld
  <2>3. Transactions'
    BY <2>1 DEF Transactions
  <2>4. CASE Accepts
    <3>1. toDev # <<>>
      BY <2>1, <2>4 DEF Accepts
    <3>2. CASE RxFull
      <4>1. RxHeld = <<>> /\ RxHeld' = <<Head(toDev)>>
        BY <2>1, <2>4, <3>2 DEF RxHeld
      <4>2. Upstream' = Upstream
        BY <1>1, <2>1, <2>4, <3>1, <3>2, <4>1, MoveByte DEF Upstream
      <4> QED BY <1>1, <2>1, <2>2, <2>3, <4>2
    <3>3. CASE ~RxFull
      <4>1. RxHeld = <<>> /\ RxHeld' = <<>>
        BY <2>1, <2>4, <3>3 DEF RxHeld
      <4>2. Upstream' = Upstream
        BY <1>1, <2>1, <2>4, <3>1, <3>3, <4>1, MoveByte DEF Upstream
      <4> QED BY <1>1, <2>1, <2>2, <2>3, <4>2
    <3> QED BY <3>2, <3>3
  <2>5. CASE ~Accepts
    <3>1. Upstream' = Upstream
      BY <2>1, <2>5 DEF Upstream, RxHeld
    <3> QED BY <1>1, <2>1, <2>2, <2>3, <3>1
  <2> QED BY <2>4, <2>5
<1>6. CASE FtWrite
  <2>1. /\ UNCHANGED <<rxFifo, rxByte, rxFailed, toDev>> /\ ftState = "DATA" /\ ftCmd = "WRITE"
        /\ txFailed' = ~Accepts
        /\ toHost' = IF Accepts THEN Append(toHost, txOut) ELSE toHost
        /\ ftState' # "STATUS" /\ ftCmd' # "READ"
    BY <1>6 DEF FtWrite, rxVars, Phase
  <2>2. Upstream' = Upstream
    BY <2>1 DEF Upstream, RxHeld
  <2>3. Transactions'
    BY <2>1 DEF Transactions
  <2>4. TxHeld = <<txOut>>
    BY <2>1 DEF TxHeld
  <2>5. CASE Accepts /\ txFifo # <<>>
    <3>1. txOut' = Head(txFifo) /\ txFifo' = Tail(txFifo) /\ ftState' = "DATA" /\ ftCmd' = "WRITE"
      BY <1>6, <2>1, <2>5 DEF FtWrite, Phase
    <3>2. TxHeld' = <<Head(txFifo)>>
      BY <3>1 DEF TxHeld
    <3>3. Append(toHost, txOut) \in Seq(Bytes)
      BY <1>1, <1>2
    <3>4. Append(toHost, txOut) \o <<Head(txFifo)>> \o Tail(txFifo)
            = Append(toHost, txOut) \o <<>> \o txFifo
      BY <1>1, <2>5, <3>3, MoveByte
    <3>5. Append(toHost, txOut) \o <<>> \o txFifo = toHost \o <<txOut>> \o txFifo
      BY <1>1, JoinByte
    <3>6. Downstream' = Downstream
      BY <2>1, <2>4, <2>5, <3>1, <3>2, <3>4, <3>5 DEF Downstream
    <3> QED BY <1>1, <1>2, <2>1, <2>2, <2>3, <2>5, <3>1, <3>3, <3>6
  <2>6. CASE Accepts /\ txFifo = <<>>
    <3>1. txOut' = txOut /\ txFifo' = txFifo /\ ftState' = "IDLE" /\ ~txFailed'
      BY <1>6, <2>1, <2>6 DEF FtWrite, Phase
    <3>2. TxHeld' = <<>>
      BY <3>1 DEF TxHeld
    <3>3. Append(toHost, txOut) \in Seq(Bytes)
      BY <1>1, <1>2
    <3>5. Append(toHost, txOut) \o <<>> \o txFifo = toHost \o <<txOut>> \o txFifo
      BY <1>1, JoinByte
    <3>6. Downstream' = Downstream
      BY <2>1, <2>4, <2>6, <3>1, <3>2, <3>5 DEF Downstream
    <3> QED BY <1>1, <2>1, <2>2, <2>3, <2>6, <3>1, <3>3, <3>6
  <2>7. CASE ~Accepts
    <3>1. txOut' = txOut /\ txFifo' = txFifo /\ txFailed'
      BY <1>6, <2>1, <2>7 DEF FtWrite
    <3>2. TxHeld' = <<txOut>>
      BY <3>1 DEF TxHeld
    <3>3. Downstream' = Downstream
      BY <2>1, <2>4, <2>7, <3>1, <3>2 DEF Downstream
    <3> QED BY <1>1, <2>1, <2>2, <2>3, <2>7, <3>1, <3>3
  <2> QED BY <2>5, <2>6, <2>7
<1>7. CASE FtReadModem \/ FtWriteModem
  <2>1. /\ UNCHANGED <<rxFifo, rxByte, rxFailed, toDev, txFifo, txOut, txFailed, toHost>>
        /\ ftState' = "IDLE" /\ ftCmd # "WRITE"
    BY <1>7 DEF FtReadModem, FtWriteModem, rxVars, txVars, chipVars, Phase
  <2>2. Upstream' = Upstream /\ Downstream' = Downstream /\ Transactions'
    BY <2>1 DEF Upstream, Downstream, RxHeld, TxHeld, Transactions
  <2> QED BY <1>1, <2>1, <2>2
<1> QED BY <1>3, <1>4, <1>5, <1>6, <1>7 DEF FtData

-----------------------------------------------------------------------------
(* Steps between two clock edges.                                           *)

engine == <<dmaVars, mem, arb, ack, job, first, before, rxOut>>

\* What the engine holds does not depend on anything else.
LEMMA EngineKept ==
  ASSUME EnginePart, UNCHANGED engine
  PROVE  EnginePart' /\ ToGather' = ToGather /\ ToSpread' = ToSpread /\ End' = End
<1> USE DEF engine, dmaVars, busVars, rxSide, txSide
<1>1. /\ NextByte' = NextByte /\ End' = End /\ Gathered' = Gathered /\ NextLanes' = NextLanes
      /\ WordLanes' = WordLanes /\ Moving' = Moving /\ Finished' = Finished
      /\ BusFirst' = BusFirst /\ Acks' = Acks /\ Untaken' = Untaken /\ TxSpreads' = TxSpreads
      /\ OnBus' = OnBus /\ InBuffer' = InBuffer /\ InTx' = InTx /\ Window' = Window
  BY DEF NextByte, End, Gathered, NextLanes, WordLanes, Moving, Finished, BusFirst, Acks,
      A!AckOf, Untaken, TxSpreads, OnBus, InBuffer, InTx, Window, LaneCount, AlmostLastWord
<1>2. \A a : Due(a)' = Due(a)
  BY DEF Due
<1>3. BusOk' /\ Gathers'
  BY <1>1 DEF EnginePart, BusOk, Gathers, LaneCount
<1>4. GatheredOk'
  BY <1>1 DEF EnginePart, GatheredOk, Due
<1>5. WrittenOk'
  BY <1>1 DEF EnginePart, WrittenOk, Due
<1>6. Spreads' /\ SpreadOk'
  BY <1>1 DEF EnginePart, Spreads, SpreadOk, Holds
<1>7. ToGather' = ToGather
  BY <1>1 DEF ToGather, LaneCount
<1>8. ToSpread' = ToSpread
  BY <1>1 DEF ToSpread
<1> QED BY <1>1, <1>3, <1>4, <1>5, <1>6, <1>7, <1>8 DEF EnginePart

\* An idle engine has nothing to move.
LEMMA Ready ==
  ASSUME Commands, Requests, DmaReady
  PROVE  Quiet /\ ~dmaStart /\ ~busy /\ ~scb.start /\ ~scb.stop /\ ToGather = 0 /\ ToSpread = 0
BY DEF Commands, Requests, DmaReady, Quiet, ToGather, ToSpread

\* A prefix, by its members.
LEMMA PrefixMembers ==
  ASSUME NEW S, NEW s \in Seq(S), NEW t \in Seq(S)
  PROVE  IsPrefixOf(s, t) <=> Len(s) <= Len(t) /\ \A i \in 1 .. Len(s) : s[i] = t[i]
<1>1. Len(s) \in Nat /\ Len(t) \in Nat
  BY LenProperties
<1>2. ASSUME Len(s) <= Len(t)
      PROVE  /\ SubSeq(t, 1, Len(s)) \in Seq(S)
             /\ Len(SubSeq(t, 1, Len(s))) = Len(s)
             /\ \A i \in 1 .. Len(s) : SubSeq(t, 1, Len(s))[i] = t[i]
  <2>1. \A i \in 1 .. Len(s) : t[i] \in S
    BY <1>1, <1>2, ElementOfSeq
  <2> DEFINE u == SubSeq(t, 1, Len(s))
             n == Len(s)
  <2>2. /\ u \in Seq(S)
        /\ Len(u) = IF 1 <= n THEN n - 1 + 1 ELSE 0
        /\ \A i \in 1 .. n - 1 + 1 : u[i] = t[1 + i - 1]
    BY <1>1, <2>1, SubSeqProperties
  <2>3. n \in Nat
    BY <1>1
  <2> HIDE DEF n, u
  <2>4. Len(u) = n /\ \A i \in 1 .. n : u[i] = t[i]
    BY <2>2, <2>3
  <2> QED BY <2>2, <2>4 DEF n, u
<1>3. ASSUME Len(s) <= Len(t), \A i \in 1 .. Len(s) : s[i] = t[i]
      PROVE  s = SubSeq(t, 1, Len(s))
  BY <1>2, <1>3, SeqEqual
<1>4. ASSUME Len(s) <= Len(t), s = SubSeq(t, 1, Len(s))
      PROVE  \A i \in 1 .. Len(s) : s[i] = t[i]
  BY <1>2, <1>4
<1> QED BY <1>3, <1>4 DEF IsPrefixOf

\* The ways are sequences of bytes.
LEMMA WaysTyped ==
  ASSUME BytesTyped, FlowTyped
  PROVE  /\ Upstream \in Seq(Bytes) /\ Downstream \in Seq(Bytes)
         /\ Len(Upstream) \in Nat /\ Len(Downstream) \in Nat /\ Len(due) \in Nat
<1>1. /\ rxFifo \in Seq(Bytes) /\ toDev \in Seq(Bytes)
      /\ txFifo \in Seq(Bytes) /\ toHost \in Seq(Bytes) /\ due \in Seq(Bytes)
  BY DEF BytesTyped, FlowTyped
<1>2. Upstream \in Seq(Bytes) /\ Downstream \in Seq(Bytes)
  BY <1>1, HeldTyped, Pieces DEF Upstream, Downstream
<1> QED BY <1>1, <1>2, LenProperties

\* Each FIFO's end is an end of a way.
LEMMA OldestTaken ==
  ASSUME BytesTyped, FlowTyped
  PROVE  /\ rxFifo # <<>> => Tail(rxFifo) \o RxHeld \o toDev = Tail(Upstream) /\ Upstream # <<>>
                             /\ Head(rxFifo) = Head(Upstream)
         /\ toHost # <<>> => Tail(toHost) \o TxHeld \o txFifo = Tail(Downstream) /\ Downstream # <<>>
<1>0. ASSUME NEW s \in Seq(Bytes), NEW m \in Seq(Bytes), NEW t \in Seq(Bytes), s # <<>>
      PROVE  Tail(s) \o m \o t = Tail(s \o m \o t)
  BY <1>0, TakeByte, SMTT(60)
<1> DEFINE r == RxHeld
           h == TxHeld
<1>1. rxFifo \in Seq(Bytes) /\ toDev \in Seq(Bytes) /\ r \in Seq(Bytes)
  BY HeldTyped DEF BytesTyped
<1>2. toHost \in Seq(Bytes) /\ txFifo \in Seq(Bytes) /\ h \in Seq(Bytes)
  BY HeldTyped DEF FlowTyped
<1>3. Upstream = rxFifo \o r \o toDev /\ Downstream = toHost \o h \o txFifo
  BY DEF Upstream, Downstream
<1> HIDE DEF r, h
<1>4. ASSUME rxFifo # <<>>
      PROVE  /\ Tail(rxFifo) \o r \o toDev = Tail(rxFifo \o r \o toDev)
             /\ rxFifo \o r \o toDev # <<>> /\ Head(rxFifo) = Head(rxFifo \o r \o toDev)
  <2>1. Tail(rxFifo) \o r \o toDev = Tail(rxFifo \o r \o toDev)
    BY <1>0, <1>1, <1>4
  <2>2. rxFifo \o r \o toDev # <<>>
    BY <1>1, <1>4, TakeByte
  <2>3. Head(rxFifo) = Head(rxFifo \o r \o toDev)
    BY <1>1, <1>4, TakeByte
  <2> QED BY <2>1, <2>2, <2>3
<1>5. ASSUME toHost # <<>>
      PROVE  /\ Tail(toHost) \o h \o txFifo = Tail(toHost \o h \o txFifo)
             /\ toHost \o h \o txFifo # <<>>
  <2>1. Tail(toHost) \o h \o txFifo = Tail(toHost \o h \o txFifo)
    BY <1>0, <1>2, <1>5
  <2>2. toHost \o h \o txFifo # <<>>
    BY <1>2, <1>5, TakeByte
  <2> QED BY <2>1, <2>2
<1> QED BY <1>3, <1>4, <1>5 DEF r, h

\* A byte comes to the other end.
LEMMA NewestGiven ==
  ASSUME BytesTyped, FlowTyped, NEW e \in Bytes
  PROVE  /\ rxFifo \o RxHeld \o Append(toDev, e) = Append(Upstream, e)
         /\ toHost \o TxHeld \o Append(txFifo, e) = Append(Downstream, e)
<1>0. ASSUME NEW s \in Seq(Bytes), NEW m \in Seq(Bytes), NEW t \in Seq(Bytes)
      PROVE  s \o m \o Append(t, e) = Append(s \o m \o t, e)
  BY GiveByte
<1> DEFINE r == RxHeld
           h == TxHeld
<1>1. rxFifo \in Seq(Bytes) /\ toDev \in Seq(Bytes) /\ r \in Seq(Bytes)
  BY HeldTyped DEF BytesTyped
<1>2. toHost \in Seq(Bytes) /\ txFifo \in Seq(Bytes) /\ h \in Seq(Bytes)
  BY HeldTyped DEF FlowTyped
<1>3. Upstream = rxFifo \o r \o toDev /\ Downstream = toHost \o h \o txFifo
  BY DEF Upstream, Downstream
<1> HIDE DEF r, h
<1>4. rxFifo \o r \o Append(toDev, e) = Append(rxFifo \o r \o toDev, e)
  BY <1>0, <1>1
<1>5. toHost \o h \o Append(txFifo, e) = Append(toHost \o h \o txFifo, e)
  BY <1>0, <1>2
<1> QED BY <1>3, <1>4, <1>5 DEF r, h

\* What the controller has read is the oldest byte on its way (usb.c:87-150).
LEMMA PopKeeps ==
  ASSUME PathInv, FlowInv, Pop
  PROVE  FlowInv'
<1> USE DEF FlowInv
<1>1. /\ Active /\ turn = "command" /\ rxFifo # <<>> /\ turn' = "args"
      /\ rxFifo' = Tail(rxFifo) /\ rxOut' = Head(rxFifo) /\ taken' = taken + 1
  BY DEF Pop, RxEmpty
<1>2. UNCHANGED <<ftState, ftCmd, rxByte, rxFailed, txVars, modemVars, flushBusy, chipVars,
                  dmaVars, clockVars, job, ctl, lastReset, host, sent, first, due, before>>
  BY DEF Pop
<1> USE DEF txVars, modemVars, chipVars, dmaVars, busVars, rxSide, txSide, clockVars
<1>3. ctl = "run" /\ ~lastReset
  BY <1>1 DEF Active
<1>4. BytesTyped /\ FlowTyped /\ Requests /\ taken \in Nat /\ rxFifo \in Seq(Bytes)
      /\ toDev \in Seq(Bytes) /\ sent \in Nat
  BY DEF PathInv, EngineInv, BytesTyped, FlowTyped
<1>5. Upstream # <<>> /\ Upstream' = Tail(Upstream) /\ Downstream' = Downstream
  <2>1. RxHeld' = RxHeld /\ TxHeld' = TxHeld
    BY <1>2 DEF RxHeld, TxHeld
  <2>2. Downstream' = Downstream
    BY <1>2, <2>1 DEF Downstream
  <2>3. RxHeld \in Seq(Bytes)
    BY <1>4, HeldTyped
  <2>4. Tail(rxFifo) \o RxHeld \o toDev = Tail(Upstream) /\ Upstream # <<>>
    BY <1>1, <1>4, OldestTaken
  <2> QED BY <1>1, <1>2, <2>1, <2>2, <2>4 DEF Upstream
<1>6. ~Cleared /\ ~Cleared'
  BY <1>2, <1>5 DEF Handshake, Cleared
<1>7. ~job.write \/ DmaReady
  BY <1>1, <1>3 DEF Commands
<1>8. rxState = "IDLE" /\ ToGather = 0 /\ ToGather' = 0
  <2>1. CASE ~job.write
    BY <1>2, <2>1 DEF EnginePart, Gathers, ToGather
  <2>2. CASE DmaReady
    BY <1>2, <1>4, <2>2, Ready DEF Quiet, ToGather
  <2> QED BY <1>7, <2>1, <2>2
<1>9. EnginePart'
  <2>1. /\ NextByte' = NextByte /\ NextLanes' = NextLanes
        /\ WordLanes' = WordLanes /\ Moving' = Moving /\ Finished' = Finished
        /\ BusFirst' = BusFirst /\ Acks' = Acks /\ Untaken' = Untaken /\ TxSpreads' = TxSpreads
        /\ OnBus' = OnBus /\ InBuffer' = InBuffer /\ InTx' = InTx /\ Window' = Window
    BY <1>2 DEF NextByte, End, NextLanes, WordLanes, Moving, Finished, BusFirst, Acks,
        A!AckOf, Untaken, TxSpreads, OnBus, InBuffer, InTx, Window, LaneCount, AlmostLastWord
  <2>3. BusOk' /\ Gathers'
    BY <1>2, <2>1 DEF EnginePart, BusOk, Gathers, LaneCount
  <2>4. GatheredOk'
    BY <1>2, <1>8 DEF GatheredOk
  <2>5. WrittenOk'
    BY <1>2, <2>1 DEF EnginePart, WrittenOk, Due
  <2>6. Spreads' /\ SpreadOk'
    BY <1>2, <2>1 DEF EnginePart, Spreads, SpreadOk, Holds
  <2> QED BY <2>3, <2>4, <2>5, <2>6 DEF EnginePart
<1>10. UpstreamOk'
  <2>1. /\ Upstream \in Seq(Bytes) /\ Len(Upstream) \in Nat
        /\ \A i \in 1 .. Len(Upstream) : Upstream[i] = taken - 0 + i
        /\ host = "up" => Len(Upstream) = sent - taken + 0
    BY <1>3, <1>4, <1>8, WaysTyped DEF UpstreamOk
  <2>2. /\ Len(Tail(Upstream)) = Len(Upstream) - 1
        /\ \A i \in 1 .. Len(Tail(Upstream)) : Tail(Upstream)[i] = Upstream[i + 1]
    BY <1>5, <2>1, HeadTailProperties
  <2>3. \A i \in 1 .. Len(Upstream') : Upstream'[i] = taken' - ToGather' + i
    BY <1>1, <1>4, <1>5, <1>8, <2>1, <2>2
  <2>4. host' = "up" => Len(Upstream') = sent' - taken' + ToGather'
    BY <1>1, <1>2, <1>4, <1>5, <1>8, <2>1, <2>2
  <2> QED BY <2>3, <2>4 DEF UpstreamOk
<1>11. DownstreamOk'
  <2>1. ToSpread' = ToSpread /\ End' = End /\ TxSpreads' = TxSpreads /\ Streams' = Streams
    BY <1>2 DEF ToSpread, InTx, InBuffer, OnBus, LaneCount, Untaken, TxSpreads, End, Streams
  <2> QED BY <1>2, <1>5, <2>1 DEF DownstreamOk
<1>12. FlowTyped'
  BY <1>1, <1>2, <1>4 DEF FlowTyped
<1>13. Handshake'
  BY <1>2, <1>3, <1>6 DEF Handshake
<1>14. Commands'
  <2>1. DmaReady' = DmaReady /\ Quiet' = Quiet
    BY <1>2 DEF DmaReady, Quiet
  <2> QED BY <1>1, <1>2, <1>7, <2>1 DEF Commands
<1>15. Transactions'
  BY <1>2 DEF Transactions
<1> QED BY <1>9, <1>10, <1>11, <1>12, <1>13, <1>14, <1>15

\* A byte of a response or of a header goes out behind all others, and the
\* engine has none left to send (usb.c:95-132).
LEMMA PushKeeps ==
  ASSUME PathInv, FlowInv, Push
  PROVE  FlowInv'
<1> USE DEF FlowInv
<1>1. /\ Active /\ DmaReady
      /\ \/ turn = "args" /\ turn' = "token"
         \/ turn = "writing" /\ turn' = "command"
      /\ txFifo' = Append(txFifo, 0) /\ due' = Append(due, 0)
  BY DEF Push
<1>2. UNCHANGED <<ftState, ftCmd, rxVars, rxOut, txOut, txFailed, modemVars, flushBusy, chipVars,
                  dmaVars, clockVars, job, ctl, lastReset, host, sent, taken, first, before>>
  BY DEF Push
<1> USE DEF rxVars, modemVars, chipVars, clockVars
<1>3. ctl = "run" /\ ~lastReset
  BY <1>1 DEF Active
<1>4. BytesTyped /\ FlowTyped /\ Requests /\ txFifo \in Seq(Bytes)
      /\ toHost \in Seq(Bytes) /\ due \in Seq(Bytes) /\ 0 \in Bytes
  BY MemoryAssumption DEF PathInv, EngineInv, BytesTyped, FlowTyped, Bytes
<1>5. EnginePart' /\ ToGather' = ToGather /\ ToSpread' = ToSpread /\ End' = End
  BY <1>2, EngineKept DEF engine
<1>6. Quiet /\ ToSpread = 0
  BY <1>1, <1>4, Ready
<1>7. Upstream' = Upstream
  BY <1>2 DEF Upstream, RxHeld
<1>8. Downstream' = Append(Downstream, 0)
  <2>1. TxHeld' = TxHeld /\ TxHeld \in Seq(Bytes)
    BY <1>2, <1>4, HeldTyped DEF TxHeld
  <2>2. toHost \o TxHeld \o Append(txFifo, 0) = Append(toHost \o TxHeld \o txFifo, 0)
    BY SMTT(30), <1>4, <2>1, GiveByte
  <2> QED BY <1>1, <1>2, <2>1, <2>2 DEF Downstream
<1>9. UpstreamOk'
  BY <1>2, <1>5, <1>7 DEF UpstreamOk
<1>10. DownstreamOk'
  <2>1. /\ Downstream \in Seq(Bytes) /\ Len(Downstream) \in Nat /\ Len(due) = Len(Downstream) + 0
        /\ IsPrefixOf(Downstream, due)
    BY <1>3, <1>4, <1>6, WaysTyped DEF DownstreamOk, Streams
  <2>2. Len(due) = Len(Downstream) /\ \A i \in 1 .. Len(Downstream) : Downstream[i] = due[i]
    BY <1>4, <2>1, PrefixMembers
  <2>3. Downstream = due
    BY <1>4, <2>1, <2>2, SeqEqual
  <2>4. Downstream' = due' /\ due' \in Seq(Bytes) /\ Len(due') \in Nat
    BY <1>1, <1>4, <1>8, <2>3, AppendProperties, LenProperties
  <2>5. IsPrefixOf(Downstream', due')
    BY <2>4, PrefixMembers
  <2>6. Len(due') = Len(Downstream') + ToSpread'
    BY <1>5, <1>6, <2>4
  <2>7. \A i \in 1 .. ToSpread' : FALSE
    BY <1>5, <1>6
  <2>8. ~TxSpreads'
    BY <1>2, <1>6 DEF Quiet, TxSpreads, dmaVars, txSide
  <2> QED BY <2>5, <2>6, <2>7, <2>8 DEF DownstreamOk
<1>11. FlowTyped'
  <2>1. txFifo' \in Seq(Bytes) /\ due' \in Seq(Bytes)
    BY <1>1, <1>4, AppendProperties
  <2>2. turn' \in {"command", "args", "token", "writing"}
    BY <1>1
  <2> QED BY <1>2, <2>1, <2>2 DEF FlowTyped, dmaVars, busVars, rxSide, txSide
<1>12. Handshake'
  <2>1. ~Cleared
    BY <1>1 DEF Handshake
  <2>2. ~Cleared'
    BY <1>2, <2>1 DEF Cleared
  <2> QED BY <1>2, <1>3, <2>2 DEF Handshake
<1>13. Commands'
  <2>1. DmaReady' /\ Quiet' = Quiet
    BY <1>1, <1>2 DEF DmaReady, Quiet, dmaVars, busVars, rxSide, txSide
  <2> QED BY <1>1, <1>2, <2>1 DEF Commands, dmaVars
<1>14. Transactions'
  <2>1. txFifo' # <<>>
    BY <1>1, <1>4, AppendProperties
  <2> QED BY <1>2, <2>1 DEF Transactions
<1> QED BY <1>5, <1>9, <1>10, <1>11, <1>12, <1>13, <1>14

\* A transfer begins where the last one ended: the bytes it takes are the next
\* ones of the host, those it sends come behind all others (usb.c:344-348).
LEMMA StartKeeps ==
  ASSUME PathInv, FlowInv, NEW j \in Jobs, StartDma(j)
  PROVE  FlowInv'
<1> USE DEF FlowInv
<1>1. /\ Active /\ DmaReady
      /\ IF j.write THEN turn = "args" /\ turn' = "writing" /\ taken + j.length <= MaxSent
                    ELSE turn = "token" /\ turn' = "command"
      /\ job' = j
      /\ scb' = [start |-> TRUE, stop |-> FALSE, write |-> j.write,
                 address |-> j.address, length |-> j.length]
      /\ first' = taken + 1
      /\ taken' = IF j.write THEN taken + j.length ELSE taken
      /\ due' = IF j.write THEN due ELSE due \o [i \in 1 .. j.length |-> mem[j.address + i - 1]]
      /\ before' = mem
  BY DEF StartDma, DmaCommand
<1>2. UNCHANGED <<ftVars, dmaStart, dmaStop, busy, busVars, rxSide, txSide, clockVars,
                  ctl, lastReset, host, sent>>
  BY DEF StartDma
<1>3. ctl = "run" /\ ~lastReset
  BY <1>1 DEF Active
<1>4. BytesTyped /\ FlowTyped /\ Requests
  BY DEF PathInv, EngineInv
<1>5. Quiet /\ ~dmaStart /\ ~busy /\ ~scb.start /\ ~scb.stop /\ ToGather = 0 /\ ToSpread = 0
  BY <1>1, <1>4, Ready
<1>6. j.write \in BOOLEAN /\ j.address \in Nat /\ j.length \in Nat /\ j.length > 0
      /\ j.address + j.length <= Cells /\ Cells \in Nat
  BY MemoryAssumption
<1>7. scb'.start /\ ~scb'.stop /\ scb'.write = j.write /\ scb'.address = j.address
      /\ scb'.length = j.length
  BY <1>1
<1>8. NoJob \notin Jobs
  BY MemoryAssumption DEF NoJob
<1>9. /\ Quiet' /\ memState' = "IDLE" /\ rxState' = "IDLE" /\ txState' = "IDLE"
      /\ ~busy' /\ ~dmaStart' /\ ~Moving' /\ ~Finished' /\ ~TxSpreads' /\ job' # NoJob
      /\ job'.write = j.write /\ job' = j
  BY <1>1, <1>2, <1>5, <1>7, <1>8 DEF Quiet, Moving, Finished, TxSpreads, busVars, rxSide, txSide
<1>10. Upstream' = Upstream /\ Downstream' = Downstream
  BY <1>2 DEF Upstream, Downstream, RxHeld, TxHeld, ftVars, rxVars, txVars, chipVars
<1>11. EnginePart'
  <2>1. BusOk' /\ Gathers' /\ GatheredOk'
    BY <1>9 DEF BusOk, Gathers, GatheredOk, Moving
  <2>2. WrittenOk'
    BY <1>1, <1>2, <1>9 DEF WrittenOk, clockVars
  <2>3. Spreads'
    <3>1. rAck' => ~ack'["sdram"]
      BY <1>2 DEF EnginePart, Spreads, busVars, clockVars
    <3> QED BY <1>9, <3>1 DEF Spreads
  <2>4. SpreadOk'
    BY <1>9 DEF SpreadOk
  <2> QED BY <2>1, <2>2, <2>3, <2>4 DEF EnginePart
<1>12. UpstreamOk'
  <2>1. /\ \A i \in 1 .. Len(Upstream) : Upstream[i] = taken - 0 + i
        /\ host = "up" => Len(Upstream) = sent - taken + 0
        /\ Len(Upstream) \in Nat /\ taken \in Nat /\ sent \in Nat
    BY <1>3, <1>4, <1>5, WaysTyped DEF UpstreamOk, FlowTyped, BytesTyped
  <2>2. ToGather' = IF j.write THEN j.length ELSE 0
    BY <1>1, <1>7, <1>9 DEF ToGather
  <2>3. taken' - ToGather' = taken
    BY <1>1, <1>6, <2>1, <2>2
  <2>4. \A i \in 1 .. Len(Upstream) : Upstream[i] = taken' - ToGather' + i
    BY <2>1, <2>3
  <2>5. sent - taken' + ToGather' = sent - taken
    BY <1>1, <1>6, <2>1, <2>2
  <2> QED BY <1>2, <1>10, <2>1, <2>4, <2>5 DEF UpstreamOk, ftVars, chipVars
<1>13. DownstreamOk'
  <2>1. /\ Downstream \in Seq(Bytes) /\ Len(Downstream) \in Nat /\ Len(due) = Len(Downstream) + 0
        /\ IsPrefixOf(Downstream, due) /\ due \in Seq(Bytes)
    BY <1>3, <1>4, <1>5, WaysTyped DEF DownstreamOk, Streams, FlowTyped
  <2>2. Len(due) = Len(Downstream) /\ \A i \in 1 .. Len(Downstream) : Downstream[i] = due[i]
    BY <2>1, PrefixMembers
  <2>3. ToSpread' = IF j.write THEN 0 ELSE j.length
    BY <1>1, <1>7, <1>8, <1>9 DEF ToSpread
  <2>4. CASE j.write
    <3>1. due' = due /\ ToSpread' = 0
      BY <1>1, <2>3, <2>4
    <3> QED BY <1>9, <1>10, <2>1, <3>1 DEF DownstreamOk
  <2>5. CASE ~j.write
    <3> DEFINE f == [i \in 1 .. j.length |-> mem[j.address + i - 1]]
    <3>1. due' = due \o f /\ ToSpread' = j.length
      BY <1>1, <2>3, <2>5
    <3>2. \A i \in 1 .. j.length : mem[j.address + i - 1] \in Bytes
      BY SMTT(30), <1>4, <1>6 DEF FlowTyped
    <3>3. f \in Seq(Bytes) /\ Len(f) = j.length
      BY <1>6, <3>2
    <3>4. \A i \in 1 .. j.length : f[i] = mem[j.address + i - 1]
      OBVIOUS
    <3> HIDE DEF f
    <3>5. /\ due' \in Seq(Bytes) /\ Len(due') = Len(due) + j.length
          /\ \A i \in 1 .. Len(due) + j.length :
               due'[i] = IF i <= Len(due) THEN due[i] ELSE f[i - Len(due)]
      BY <2>1, <3>1, <3>3, ConcatProperties
    <3>6. IsPrefixOf(Downstream', due')
      <4>1. Len(Downstream) <= Len(due') /\ \A i \in 1 .. Len(Downstream) : Downstream[i] = due'[i]
        <5>1. Len(Downstream) <= Len(due')
          BY <1>6, <2>1, <2>2, <3>5
        <5>2. ASSUME NEW i \in 1 .. Len(Downstream) PROVE Downstream[i] = due'[i]
          <6>1. i \in 1 .. Len(due) + j.length /\ i <= Len(due)
            BY <1>6, <2>1, <2>2
          <6>2. due'[i] = due[i]
            BY <3>5, <6>1
          <6> QED BY <2>2, <6>2
        <5> QED BY <5>1, <5>2
      <4> QED BY <1>10, <2>1, <3>5, <4>1, PrefixMembers
    <3>7. Len(due') = Len(Downstream') + ToSpread'
      BY <1>10, <2>2, <3>1, <3>5
    <3>8. \A i \in 1 .. ToSpread' : due'[Len(Downstream') + i] = mem'[End' - ToSpread' + i - 1]
      <4> SUFFICES ASSUME NEW i \in 1 .. j.length
                   PROVE  due'[Len(Downstream) + i] = mem'[End' - j.length + i - 1]
        BY <1>10, <3>1
      <4>1. End' = j.address + j.length /\ mem' = mem
        BY <1>2, <1>7 DEF End, clockVars
      <4>2. End' - j.length + i - 1 = j.address + i - 1
        BY <1>6, <4>1
      <4>3. Len(due) + i \in 1 .. Len(due) + j.length /\ ~(Len(due) + i <= Len(due))
            /\ Len(due) + i - Len(due) = i
        BY <1>6, <2>1, <2>2
      <4>4. due'[Len(due) + i] = f[i]
        BY <3>5, <4>3
      <4> QED BY <2>2, <3>4, <4>1, <4>2, <4>4
    <3> QED BY <1>9, <3>6, <3>7, <3>8 DEF DownstreamOk
  <2> QED BY <2>4, <2>5
<1>14. FlowTyped'
  <2>1. taken' \in Nat /\ first' \in Nat /\ turn' \in {"command", "args", "token", "writing"}
    BY SMTT(30), <1>1, <1>4, <1>6 DEF FlowTyped
  <2>2. due' \in Seq(Bytes)
    <3>1. \A i \in 1 .. j.length : mem[j.address + i - 1] \in Bytes
      BY SMTT(30), <1>4, <1>6 DEF FlowTyped
    <3>2. [i \in 1 .. j.length |-> mem[j.address + i - 1]] \in Seq(Bytes)
      BY <1>6, <3>1
    <3>3. due \in Seq(Bytes)
      BY <1>4 DEF FlowTyped
    <3>4. due \o [i \in 1 .. j.length |-> mem[j.address + i - 1]] \in Seq(Bytes)
      BY <3>2, <3>3, ConcatProperties
    <3> QED BY <1>1, <3>3, <3>4
  <2> QED BY <1>1, <1>2, <1>4, <2>1, <2>2 DEF FlowTyped, ftVars, rxVars, txVars, modemVars,
          chipVars, busVars, rxSide, txSide, clockVars
<1>15. Handshake'
  <2>1. ~Cleared
    BY <1>1 DEF Handshake
  <2>2. ~Cleared'
    BY <1>2, <2>1 DEF Cleared, ftVars
  <2> QED BY <1>2, <1>3, <2>2 DEF Handshake, ftVars, modemVars, chipVars
<1>16. Commands'
  <2>1. first' + job'.length = taken' + 1 \/ ~j.write
    <3>1. taken \in Nat /\ job'.length = j.length
      BY <1>4, <1>9 DEF FlowTyped
    <3>2. j.write => first' = taken + 1 /\ taken' = taken + j.length
      BY <1>1
    <3> QED BY <1>6, <3>1, <3>2
  <2> QED BY <1>1, <1>2, <1>3, <1>7, <1>9, <2>1 DEF Commands
<1>17. Transactions'
  BY <1>2 DEF Transactions, ftVars, rxVars, txVars
<1> QED BY <1>11, <1>12, <1>13, <1>14, <1>15, <1>16, <1>17

\* The reset of the link stops the engine where it is (usb.c:185-192).
LEMMA ResetDmaKeeps ==
  ASSUME PathInv, FlowInv, ResetDma
  PROVE  FlowInv'
<1> USE DEF FlowInv
<1>1. /\ Active /\ resetState /\ lastReset' = TRUE /\ ctl' = "stopping"
      /\ scb' = [scb EXCEPT !.start = FALSE, !.stop = TRUE]
  BY DEF ResetDma, DmaCommand
<1>2. UNCHANGED <<ftVars, dmaStart, dmaStop, busy, busVars, rxSide, txSide, clockVars,
                  job, turn, host, ghosts, rxOut>>
  BY DEF ResetDma, ftVars
<1> USE DEF clockVars, busVars, rxSide, txSide, ghosts
<1>3. ctl = "run" /\ ~lastReset
  BY <1>1 DEF Active
<1>4. scb \in [start : BOOLEAN, stop : BOOLEAN, write : BOOLEAN, address : Nat, length : Nat]
  BY DEF PathInv, EngineInv, EngineTyped
<1>5. ~scb'.start /\ scb'.stop /\ scb'.write = scb.write /\ scb'.address = scb.address
      /\ scb'.length = scb.length
  BY <1>1, <1>4
<1>6. Upstream' = Upstream /\ Downstream' = Downstream
  BY <1>2 DEF Upstream, Downstream, RxHeld, TxHeld, ftVars, rxVars, txVars, chipVars
<1>7. /\ NextByte' = NextByte /\ End' = End /\ Gathered' = Gathered /\ NextLanes' = NextLanes
      /\ WordLanes' = WordLanes /\ Moving' = Moving /\ ~Finished'
      /\ BusFirst' = BusFirst /\ Acks' = Acks /\ Untaken' = Untaken /\ TxSpreads' = TxSpreads
      /\ OnBus' = OnBus /\ InBuffer' = InBuffer /\ InTx' = InTx /\ Window' = Window
  BY <1>2, <1>5 DEF NextByte, End, Gathered, NextLanes, WordLanes, Moving, Finished, BusFirst,
      Acks, A!AckOf, Untaken, TxSpreads, OnBus, InBuffer, InTx, Window, LaneCount, AlmostLastWord
<1>8. EnginePart'
  <2>1. BusOk' /\ Gathers'
    BY <1>2, <1>7 DEF EnginePart, BusOk, Gathers, LaneCount
  <2>2. GatheredOk'
    BY <1>2, <1>7 DEF EnginePart, GatheredOk, Due
  <2>3. WrittenOk'
    BY <1>2, <1>7 DEF EnginePart, WrittenOk, Due
  <2>4. Spreads' /\ SpreadOk'
    BY <1>2, <1>7 DEF EnginePart, Spreads, SpreadOk, Holds
  <2> QED BY <2>1, <2>2, <2>3, <2>4 DEF EnginePart
<1>9. UpstreamOk'
  BY <1>1 DEF UpstreamOk
<1>10. DownstreamOk'
  <2>1. Streams' => Streams /\ ToSpread' = ToSpread
    <3> SUFFICES ASSUME Streams' PROVE Streams /\ ToSpread' = ToSpread
      OBVIOUS
    <3>1. busy
      BY <1>1, <1>2 DEF Streams
    <3>2. ~scb.start
      BY <3>1 DEF Commands
    <3>3. ToSpread' = ToSpread
      BY <1>2, <1>5, <1>7, <3>2 DEF ToSpread
    <3> QED BY <1>3, <3>3 DEF Streams
  <2> QED BY <1>2, <1>6, <1>7, <2>1 DEF DownstreamOk
<1>11. FlowTyped'
  BY <1>1, <1>2 DEF FlowTyped, ftVars, rxVars, txVars, modemVars, chipVars
<1>12. Handshake'
  <2>1. host = "on"
    BY <1>1, <1>3 DEF Handshake, FlowTyped
  <2>2. ~dsr /\ ~resetReply /\ ~flushBusy
    BY <1>3, <2>1 DEF Handshake
  <2>3. ~Cleared'
    BY <1>1, <1>2, <2>1 DEF Cleared
  <2> QED BY <1>1, <1>2, <2>1, <2>2, <2>3 DEF Handshake, ftVars, modemVars, chipVars
<1>13. Commands'
  BY <1>1, <1>2, <1>3, <1>5 DEF Commands, Quiet
<1>14. Transactions'
  BY <1>2 DEF Transactions, ftVars, rxVars, txVars
<1> QED BY <1>8, <1>9, <1>10, <1>11, <1>12, <1>13, <1>14

\* The engine is idle when the FIFOs are flushed (usb.c:152-172).
LEMMA ResetFifosKeeps ==
  ASSUME PathInv, FlowInv, ResetFifos
  PROVE  FlowInv'
<1> USE DEF FlowInv
<1>1. /\ ctl = "stopping" /\ DmaReady /\ ctl' = "flushing" /\ flushBusy' = TRUE
      /\ job' = NoJob /\ turn' = "command" /\ before' = mem
  BY DEF ResetFifos
<1>2. UNCHANGED <<ftState, ftCmd, rxVars, rxOut, txVars, modemVars, chipVars,
                  dmaVars, clockVars, lastReset, host, sent, taken, first, due>>
  BY DEF ResetFifos
<1> USE DEF rxVars, txVars, modemVars, chipVars, dmaVars, clockVars, busVars, rxSide, txSide
<1>3. BytesTyped /\ FlowTyped /\ Requests
  BY DEF PathInv, EngineInv
<1>4. Quiet /\ ~dmaStart /\ ~busy /\ ~scb.start /\ ~scb.stop /\ dmaStop
  BY <1>1, <1>3, Ready DEF Commands
<1>5. Upstream' = Upstream /\ Downstream' = Downstream
  BY <1>2 DEF Upstream, Downstream, RxHeld, TxHeld
<1>6. /\ ~Moving' /\ ~Finished' /\ ~TxSpreads' /\ rxState' = "IDLE" /\ txState' = "IDLE"
      /\ ~job'.write /\ memState' = "IDLE"
  BY <1>1, <1>2, <1>4 DEF Moving, Finished, TxSpreads, Quiet, NoJob
<1>7. host = "on" /\ lastReset
  BY <1>1, <1>3 DEF Handshake, FlowTyped
<1>8. EnginePart'
  <2>1. BusOk' /\ Gathers' /\ GatheredOk'
    BY <1>6 DEF BusOk, Gathers, GatheredOk, Moving
  <2>2. WrittenOk'
    BY <1>1, <1>2, <1>6 DEF WrittenOk
  <2>3. Spreads' /\ SpreadOk'
    BY <1>2, <1>6 DEF EnginePart, Spreads, SpreadOk
  <2> QED BY <2>1, <2>2, <2>3 DEF EnginePart
<1>9. UpstreamOk'
  BY <1>1 DEF UpstreamOk
<1>10. DownstreamOk'
  <2>1. ~Streams'
    BY <1>1, <1>2, <1>4 DEF Streams
  <2> QED BY <1>2, <1>5, <1>6, <2>1 DEF DownstreamOk
<1>11. FlowTyped'
  BY <1>1, <1>2 DEF FlowTyped
<1>12. Handshake'
  <2>1. ~Cleared'
    BY <1>1, <1>2, <1>7 DEF Cleared
  <2> QED BY <1>1, <1>2, <1>7, <2>1 DEF Handshake
<1>13. Commands'
  BY <1>1, <1>2, <1>4, <1>6 DEF Commands, Quiet
<1>14. Transactions'
  BY <1>2 DEF Transactions
<1> QED BY <1>8, <1>9, <1>10, <1>11, <1>12, <1>13, <1>14

\* The two replies to the host (usb.c:193-196).
LEMMA ResetAckKeeps ==
  ASSUME PathInv, FlowInv, ResetOnAck \/ ResetOffAck
  PROVE  FlowInv'
<1> USE DEF FlowInv
<1>1. UNCHANGED <<ftState, ftCmd, rxVars, rxOut, txVars, resetState, flushBusy, chipVars,
                  dmaVars, clockVars, job, turn, host, ghosts>>
      /\ replyPending' = TRUE
  BY DEF ResetOnAck, ResetOffAck, Reply
<1> USE DEF rxVars, txVars, chipVars, clockVars, ghosts
<1>2. EnginePart' /\ ToGather' = ToGather /\ ToSpread' = ToSpread /\ End' = End
  BY <1>1, EngineKept DEF engine
<1>3. Upstream' = Upstream /\ Downstream' = Downstream
  BY <1>1 DEF Upstream, Downstream, RxHeld, TxHeld
<1>4. CASE ResetOnAck
  <2>1. /\ ctl = "flushing" /\ ~flushBusy /\ ctl' = "run" /\ resetReply' = TRUE
        /\ lastReset' = lastReset
    BY <1>4 DEF ResetOnAck, Reply
  <2>2. host = "on" /\ lastReset /\ job = NoJob
    BY <2>1 DEF Handshake, FlowTyped
  <2>3. Cleared /\ Cleared'
    BY <1>1, <2>1, <2>2 DEF Cleared
  <2>4. Handshake'
    BY <1>1, <1>3, <2>1, <2>2, <2>3 DEF Handshake
  <2>5. UpstreamOk'
    BY <1>1, <1>2, <1>3, <2>1 DEF UpstreamOk
  <2>6. DownstreamOk'
    BY <1>1, <1>2, <1>3, <2>1 DEF DownstreamOk, Streams, TxSpreads, dmaVars, txSide
  <2>7. Commands'
    BY <1>1, <2>1, <2>2 DEF Commands, Quiet, DmaReady, dmaVars, busVars, rxSide, txSide, NoJob
  <2>8. FlowTyped'
    BY <1>1, <2>1 DEF FlowTyped, dmaVars, busVars, rxSide, txSide
  <2>9. Transactions'
    BY <1>1 DEF Transactions
  <2> QED BY <1>2, <2>4, <2>5, <2>6, <2>7, <2>8, <2>9
<1>5. CASE ResetOffAck
  <2>1. /\ ctl = "run" /\ lastReset /\ ~resetState /\ ctl' = ctl /\ resetReply' = FALSE
        /\ lastReset' = FALSE
    BY <1>5 DEF ResetOffAck, Reply
  <2>2. host = "off"
    BY <2>1 DEF Handshake, FlowTyped
  <2>3. Cleared /\ Cleared'
    BY <1>1, <2>1, <2>2 DEF Cleared
  <2>4. Handshake'
    BY <1>1, <1>3, <2>1, <2>2, <2>3 DEF Handshake
  <2>5. UpstreamOk'
    BY <1>1, <1>2, <1>3, <2>1 DEF UpstreamOk
  <2>6. DownstreamOk'
    BY <1>1, <1>2, <1>3, <2>1 DEF DownstreamOk, Streams, TxSpreads, dmaVars, txSide
  <2>7. Commands'
    BY <1>1, <2>1, <2>2 DEF Commands, Quiet, DmaReady, dmaVars, busVars, rxSide, txSide
  <2>8. FlowTyped'
    BY ZenonT(30), <1>1, <2>1 DEF FlowTyped, dmaVars, busVars, rxSide, txSide
  <2>9. Transactions'
    BY <1>1 DEF Transactions
  <2> QED BY <1>2, <2>4, <2>5, <2>6, <2>7, <2>8, <2>9
<1> QED BY <1>4, <1>5

\* The USB interface carries bytes, reads DTR and writes DSR; a flush leaves the
\* host with what it has, and nothing on its way (usb_ft1248.sv:153-190).
LEMMA FtKeeps ==
  ASSUME PathInv, FlowInv, FtStep
  PROVE  FlowInv'
<1> USE DEF FlowInv
<1>1. UNCHANGED <<dmaVars, clockVars, ctlVars, host, sent, first, before>>
      /\ taken' = (IF flushBusy /\ ~flushBusy' THEN sent ELSE taken)
      /\ due' = (IF flushBusy /\ ~flushBusy' THEN toHost ELSE due)
      /\ rxOut' = rxOut
  BY DEF FtStep, FtIdle, FtStatus, FtData, FtFlush, FtRead, FtWrite, FtReadModem, FtWriteModem
<1> USE DEF clockVars, ctlVars
<1>2. EnginePart' /\ ToGather' = ToGather /\ ToSpread' = ToSpread /\ End' = End
  BY <1>1, EngineKept DEF engine
<1>3. Commands' \/ taken' # taken
  BY <1>1 DEF Commands, Quiet, DmaReady, dmaVars, busVars, rxSide, txSide
<1>4. BytesTyped /\ FlowTyped
  BY DEF PathInv, EngineInv
<1>5. Streams' = Streams \/ (flushBusy /\ ~flushBusy')
  BY <1>1 DEF Streams, dmaVars, FtStep, FtIdle, FtStatus, FtData, FtRead, FtWrite, FtReadModem,
      FtWriteModem, FtFlush
<1>6. CASE FtIdle \/ FtStatus \/ FtData
  <2>1. /\ Upstream' = Upstream /\ Downstream' = Downstream /\ Transactions'
        /\ txFifo' \in Seq(Bytes) /\ toHost' \in Seq(Bytes) /\ txOut' \in Bytes
    BY <1>4, <1>6, FtMoves
  <2>2. flushBusy' = flushBusy /\ dtr' = dtr
    BY <1>6 DEF FtIdle, FtStatus, FtData, FtRead, FtWrite, FtReadModem, FtWriteModem, chipVars
  <2>3. taken' = taken /\ due' = due
    BY <1>1, <2>2
  <2>4. toDev' = toDev \/ toDev # <<>>
    BY <1>6 DEF FtIdle, FtStatus, FtData, FtRead, FtWrite, FtReadModem, FtWriteModem, chipVars,
        Accepts
  <2>5. UNCHANGED resetReply
    BY <1>6 DEF FtIdle, FtStatus, FtData, FtRead, FtWrite, FtReadModem, FtWriteModem, modemVars
  <2>6. \/ UNCHANGED <<resetState, replyPending, dsr>>
        \/ resetState' = dtr /\ UNCHANGED <<replyPending, dsr>>
        \/ dsr' = resetReply /\ replyPending' = FALSE /\ UNCHANGED resetState
    BY <1>6 DEF FtIdle, FtStatus, FtData, FtRead, FtWrite, FtReadModem, FtWriteModem, modemVars,
        chipVars
  <2>7. Cleared' = Cleared
    BY <1>1, <2>2 DEF Cleared
  <2>8. Handshake'
    BY <1>1, <1>4, <2>1, <2>2, <2>3, <2>4, <2>5, <2>6, <2>7 DEF Handshake, FlowTyped
  <2>9. UpstreamOk'
    BY <1>1, <1>2, <2>1, <2>2, <2>3 DEF UpstreamOk
  <2>10. DownstreamOk'
    BY <1>1, <1>2, <1>5, <2>1, <2>2, <2>3 DEF DownstreamOk, TxSpreads, dmaVars, txSide
  <2>11. FlowTyped'
    <3>1. rxFailed' \in BOOLEAN /\ txFailed' \in BOOLEAN /\ dsr' \in BOOLEAN
          /\ replyPending' \in BOOLEAN /\ resetState' \in BOOLEAN
      BY <1>4, <1>6 DEF FtIdle, FtStatus, FtData, FtRead, FtWrite, FtReadModem, FtWriteModem,
          rxVars, txVars, modemVars, chipVars, FlowTyped
    <3> QED BY <1>1, <2>1, <2>2, <2>3, <2>5, <3>1 DEF FlowTyped, dmaVars, busVars, rxSide, txSide
  <2> QED BY <1>2, <1>3, <2>1, <2>3, <2>8, <2>9, <2>10, <2>11
<1>7. CASE FtFlush
  <2>1. /\ ftState = "IDLE" /\ flushBusy /\ flushBusy' = FALSE /\ rxFifo' = <<>> /\ txFifo' = <<>>
        /\ rxFailed' = FALSE /\ txFailed' = FALSE
        /\ UNCHANGED <<ftState, ftCmd, rxByte, txOut, modemVars, chipVars>>
    BY <1>7 DEF FtFlush
  <2> USE DEF modemVars, chipVars
  <2>2. ctl = "flushing" /\ host = "on" /\ job = NoJob /\ turn = "command" /\ toDev = <<>>
        /\ lastReset
    BY <1>4, <2>1 DEF Handshake, FlowTyped
  <2>3. taken' = sent /\ due' = toHost
    BY <1>1, <2>1
  <2>4. toHost \in Seq(Bytes) /\ <<>> \in Seq(Bytes)
    BY <1>4, EmptySeq DEF FlowTyped
  <2>5. Upstream' = <<>>
    <3>1. RxHeld' = <<>>
      BY <2>1 DEF RxHeld
    <3>2. <<>> \o <<>> = <<>>
      BY <2>4, ConcatEmptySeq
    <3> QED BY <2>1, <2>2, <3>1, <3>2 DEF Upstream
  <2>6. Downstream' = toHost
    <3>1. TxHeld' = <<>>
      BY <2>1 DEF TxHeld
    <3>2. toHost \o <<>> = toHost
      BY <2>4, ConcatEmptySeq
    <3> QED BY <2>1, <3>1, <3>2 DEF Downstream
  <2>7. Handshake'
    BY <1>1, <2>1, <2>2, <2>3, <2>5 DEF Handshake, Cleared
  <2>8. UpstreamOk'
    BY <1>1, <2>2, <2>5, EmptySeq DEF UpstreamOk
  <2>9. DownstreamOk'
    <3>1. IsPrefixOf(Downstream', due')
      BY <2>3, <2>4, <2>6, LenProperties, PrefixMembers
    <3>2. ToSpread = 0
      BY <2>2 DEF ToSpread
    <3>3. ~TxSpreads'
      BY <1>1, <2>2 DEF Commands, Quiet, TxSpreads, dmaVars, txSide
    <3>4. Len(due') = Len(Downstream') + 0
      BY <2>3, <2>4, <2>6, LenProperties
    <3>5. \A i \in 1 .. 0 : FALSE
      OBVIOUS
    <3> QED BY <1>2, <3>1, <3>2, <3>3, <3>4, <3>5 DEF DownstreamOk
  <2>10. FlowTyped'
    <3>1. sent \in Nat
      BY <1>4 DEF BytesTyped
    <3>2. {dmaStop, wEmpty, wReady, rReady, rAck, rEnd, shifted, txWaiting, lastReset, resetState,
           resetReply, replyPending, dtr, dsr, flushBusy, rxFailed, txFailed}' \subseteq BOOLEAN
      BY ZenonT(30), <1>1, <1>4, <2>1 DEF FlowTyped, dmaVars, busVars, rxSide, txSide
    <3>3. taken' \in Nat /\ due' \in Seq(Bytes) /\ txFifo' \in Seq(Bytes)
      BY <2>1, <2>3, <2>4, <3>1
    <3> QED BY <1>1, <1>4, <2>1, <3>2, <3>3 DEF FlowTyped, dmaVars, busVars, rxSide, txSide
  <2>11. Commands'
    BY <1>1, <2>2 DEF Commands, Quiet, DmaReady, dmaVars, busVars, rxSide, txSide, NoJob
  <2>12. Transactions'
    BY <2>1 DEF Transactions
  <2> QED BY <1>2, <2>7, <2>8, <2>9, <2>10, <2>11, <2>12
<1> QED BY <1>6, <1>7 DEF FtStep

\* The host's own ends of the two ways, and its side of the reset
\* (link.rs:89-123, 163-212).
LEMMA HostKeeps ==
  ASSUME PathInv, FlowInv, HostSend \/ HostReceive \/ HostResets
  PROVE  FlowInv'
<1> USE DEF FlowInv
<1>1. UNCHANGED <<ftRest, dmaVars, clockVars, ctlVars, first, before, taken>>
  BY DEF HostSend, HostReceive, HostResets, HostReset, HostRelease, HostUp, hostRest
<1> USE DEF ftRest, clockVars, ctlVars, rxVars, txVars, modemVars
<1>2. EnginePart' /\ ToGather' = ToGather /\ ToSpread' = ToSpread /\ End' = End
  BY <1>1, EngineKept DEF engine
<1>3. BytesTyped /\ FlowTyped /\ sent \in Nat /\ taken \in Nat
  BY DEF PathInv, EngineInv, BytesTyped, FlowTyped
<1>4. Commands' /\ Transactions' /\ Streams' = Streams /\ TxSpreads' = TxSpreads
      /\ RxHeld' = RxHeld /\ TxHeld' = TxHeld
  BY <1>1 DEF Commands, Transactions, Streams, Quiet, DmaReady, dmaVars, busVars, rxSide, txSide,
      TxSpreads, RxHeld, TxHeld
<1>5. /\ rxFifo \in Seq(Bytes) /\ toDev \in Seq(Bytes) /\ RxHeld \in Seq(Bytes)
      /\ toHost \in Seq(Bytes) /\ txFifo \in Seq(Bytes) /\ TxHeld \in Seq(Bytes)
      /\ due \in Seq(Bytes) /\ Upstream \in Seq(Bytes) /\ Downstream \in Seq(Bytes)
      /\ Len(Upstream) \in Nat /\ Len(Downstream) \in Nat /\ Len(due) \in Nat
  BY <1>3, HeldTyped, WaysTyped DEF BytesTyped, FlowTyped
<1>6. ToGather \in Int /\ ToSpread \in Nat
  <2>1. left \in Nat /\ scb \in [start : BOOLEAN, stop : BOOLEAN, write : BOOLEAN, address : Nat, length : Nat]
    BY DEF PathInv, EngineInv, EngineTyped
  <2>2. job.length \in Nat
    BY <1>3, MemoryAssumption DEF FlowTyped, NoJob
  <2> QED BY <2>1, <2>2 DEF ToGather, ToSpread, InTx, InBuffer, OnBus, LaneCount
<1>7. CASE HostSend
  <2>1. /\ host = "up" /\ sent' = sent + 1 /\ toDev' = Append(toDev, sent + 1)
        /\ UNCHANGED <<toHost, dtr, host, due>>
    BY <1>7 DEF HostSend
  <2>2. ~lastReset /\ ctl = "run" /\ ~Cleared /\ ~Cleared'
    BY <1>1, <2>1 DEF Handshake, Cleared
  <2>3. sent + 1 \in Bytes
    BY <1>3, <1>7, MemoryAssumption DEF HostSend, Bytes
  <2>4. Upstream' = Append(Upstream, sent + 1)
    <3>1. rxFifo \o RxHeld \o Append(toDev, sent + 1) = Append(Upstream, sent + 1)
      BY <1>3, <2>3, NewestGiven
    <3> QED BY <1>1, <1>4, <2>1, <3>1 DEF Upstream
  <2>5. Downstream' = Downstream
    BY <1>1, <1>4, <2>1 DEF Downstream
  <2>6. UpstreamOk'
    <3>1. /\ \A i \in 1 .. Len(Upstream) : Upstream[i] = taken - ToGather + i
          /\ Len(Upstream) = sent - taken + ToGather
      BY <2>1, <2>2 DEF UpstreamOk
    <3> DEFINE n == Len(Upstream)
    <3>2. /\ Len(Upstream') = n + 1
          /\ \A i \in 1 .. n : Upstream'[i] = Upstream[i]
          /\ Upstream'[n + 1] = sent + 1
      BY <1>5, <2>3, <2>4, AppendProperties
    <3>3. n + 1 = sent + 1 - taken + ToGather /\ sent + 1 = taken - ToGather + (n + 1) /\ n \in Nat
      BY <1>3, <1>5, <1>6, <3>1
    <3>4. \A i \in 1 .. n : Upstream'[i] = taken - ToGather + i
      BY <3>1, <3>2
    <3> HIDE DEF n
    <3>5. ASSUME NEW i \in 1 .. n + 1 PROVE Upstream'[i] = taken - ToGather + i
      <4>1. i \in 1 .. n \/ i = n + 1
        BY <3>3
      <4> QED BY <3>2, <3>3, <3>4, <4>1
    <3>6. taken' = taken /\ ToGather' = ToGather /\ sent' = sent + 1
      BY <1>1, <1>2, <2>1
    <3>7. \A i \in 1 .. Len(Upstream') : Upstream'[i] = taken' - ToGather' + i
      BY <3>2, <3>5, <3>6
    <3>8. Len(Upstream') = sent' - taken' + ToGather'
      <4>1. sent' - taken' + ToGather' = sent + 1 - taken + ToGather
        BY <1>3, <1>6, <3>6
      <4>2. Len(Upstream') = n + 1 /\ n + 1 = sent + 1 - taken + ToGather
        BY <3>2, <3>3
      <4> QED BY <4>1, <4>2
    <3> QED BY <3>7, <3>8 DEF UpstreamOk
  <2>7. DownstreamOk'
    BY <1>1, <1>2, <1>4, <2>1, <2>5 DEF DownstreamOk, dmaVars, txSide
  <2>8. Handshake' /\ FlowTyped'
    BY <1>1, <2>1, <2>2 DEF Handshake, FlowTyped, dmaVars, busVars, rxSide, txSide
  <2> QED BY <1>2, <1>4, <2>6, <2>7, <2>8
<1>8. CASE HostReceive
  <2>1. /\ host = "up" /\ toHost # <<>> /\ toHost' = Tail(toHost) /\ due' = Tail(due)
        /\ UNCHANGED <<toDev, dtr, host, sent>>
    BY <1>8 DEF HostReceive
  <2>2. Upstream' = Upstream
    BY <1>1, <1>4, <2>1 DEF Upstream
  <2>3. Downstream' = Tail(Downstream) /\ Downstream # <<>>
    BY <1>1, <1>3, <1>4, <2>1, OldestTaken DEF Downstream
  <2>4. Handshake' /\ UpstreamOk'
    BY <1>1, <1>2, <2>1, <2>2 DEF Handshake, UpstreamOk, Cleared
  <2>5. toHost' \in Seq(Bytes)
    BY <1>5, <2>1, HeadTailProperties
  <2> DEFINE n == Len(Downstream)
             d == Downstream
  <2>6. /\ Len(d') = n - 1 /\ n \in Nat /\ n > 0 /\ d' \in Seq(Bytes)
        /\ \A i \in 1 .. n - 1 : d'[i] = d[i + 1]
    <3>1. n > 0
      BY <1>5, <2>3, EmptySeq
    <3> QED BY <1>5, <2>3, <3>1, HeadTailProperties
  <2>7. n <= Len(due) /\ \A i \in 1 .. n : d[i] = due[i]
    <3>1. IsPrefixOf(Downstream, due)
      BY DEF DownstreamOk
    <3> QED BY <1>5, <3>1, PrefixMembers
  <2>8. /\ Len(due') = Len(due) - 1 /\ due' \in Seq(Bytes)
        /\ \A i \in 1 .. Len(due) - 1 : due'[i] = due[i + 1]
    <3>1. due # <<>>
      BY <1>5, <2>6, <2>7, EmptySeq
    <3> QED BY <1>5, <2>1, <3>1, HeadTailProperties
  <2>9. FlowTyped'
    BY <1>1, <2>1, <2>5, <2>8 DEF FlowTyped, dmaVars, busVars, rxSide, txSide
  <2>10. IsPrefixOf(d', due')
    <3>1. Len(d') <= Len(due')
      BY <1>5, <2>6, <2>7, <2>8
    <3>2. ASSUME NEW i \in 1 .. n - 1 PROVE d'[i] = due'[i]
      <4>1. i \in 1 .. Len(due) - 1 /\ i + 1 \in 1 .. n
        BY <1>5, <2>6, <2>7
      <4> QED BY <2>6, <2>7, <2>8, <4>1
    <3> QED BY <2>6, <2>8, <3>1, <3>2, PrefixMembers
  <2>11. ASSUME NEW k \in Nat, k > 0, n + k <= Len(due)
         PROVE  due'[Len(d') + k] = due[n + k]
    <3>1. n - 1 + k \in 1 .. Len(due) - 1 /\ n - 1 + k + 1 = n + k /\ Len(d') + k = n - 1 + k
      BY <1>5, <2>6, <2>11
    <3> QED BY <2>8, <3>1
  <2>12. DownstreamOk'
    <3>1. ASSUME Streams
          PROVE  /\ Len(due') = Len(d') + ToSpread'
                 /\ \A i \in 1 .. ToSpread' : due'[Len(d') + i] = mem'[End' - ToSpread' + i - 1]
      <4>1. /\ Len(due) = n + ToSpread
            /\ \A i \in 1 .. ToSpread : due[n + i] = mem[End - ToSpread + i - 1]
        BY <3>1 DEF DownstreamOk
      <4>2. Len(due') = Len(d') + ToSpread'
        BY <1>2, <1>6, <2>6, <2>8, <4>1
      <4>3. ASSUME NEW i \in 1 .. ToSpread PROVE due'[Len(d') + i] = mem[End - ToSpread + i - 1]
        <5>1. i \in Nat /\ i > 0 /\ n + i <= Len(due)
          BY <1>6, <2>6, <4>1
        <5> QED BY <2>11, <4>1, <5>1
      <4> QED BY <1>1, <1>2, <4>2, <4>3
    <3>2. ASSUME TxSpreads, txValid[1]
          PROVE  Len(d') < Len(due') /\ txBuf[1] = due'[Len(d') + 1]
      <4>1. n < Len(due) /\ txBuf[1] = due[n + 1]
        BY <3>2 DEF DownstreamOk
      <4>2. n + 1 <= Len(due) /\ Len(d') < Len(due')
        BY <1>5, <2>6, <2>8, <4>1
      <4>3. due'[Len(d') + 1] = due[n + 1]
        BY <2>11, <4>2
      <4> QED BY <4>1, <4>2, <4>3
    <3> QED BY <1>1, <1>4, <2>10, <3>1, <3>2 DEF DownstreamOk, dmaVars, txSide
  <2> QED BY <1>2, <1>4, <2>4, <2>9, <2>12
<1>9. CASE HostReset
  <2>1. /\ host = "up" /\ host' = "on" /\ dtr' = TRUE /\ toDev' = <<>>
        /\ UNCHANGED <<toHost, sent, due>>
    BY <1>9 DEF HostReset
  <2>2. ~lastReset /\ ctl = "run" /\ ~Cleared /\ ~Cleared' /\ ~dsr
    BY <1>1, <2>1 DEF Handshake, Cleared
  <2>3. Downstream' = Downstream
    BY <1>1, <1>4, <2>1 DEF Downstream
  <2>4. Len(Upstream') \in Nat /\ Len(Upstream') <= Len(Upstream)
        /\ \A i \in 1 .. Len(Upstream') : Upstream'[i] = Upstream[i]
    <3> DEFINE r == rxFifo
               h == RxHeld
    <3>1. <<>> \in Seq(Bytes) /\ Len(<<>>) = 0
      BY EmptySeq
    <3>2. Upstream = r \o h \o toDev /\ Upstream' = r \o h \o <<>>
      BY <1>1, <1>4, <2>1 DEF Upstream
    <3> HIDE DEF r, h
    <3>3. /\ Len(r) \in Nat /\ Len(h) \in Nat /\ Len(toDev) \in Nat
          /\ Len(r \o h \o toDev) = Len(r) + Len(h) + Len(toDev)
          /\ \A i \in 1 .. Len(r) + Len(h) + Len(toDev) :
               (r \o h \o toDev)[i] = IF i <= Len(r) THEN r[i]
                                      ELSE IF i <= Len(r) + Len(h) THEN h[i - Len(r)]
                                      ELSE toDev[i - Len(r) - Len(h)]
      BY SMTT(30), <1>5, Pieces DEF r, h
    <3>4. /\ Len(r \o h \o <<>>) = Len(r) + Len(h) + 0
          /\ \A i \in 1 .. Len(r) + Len(h) + 0 :
               (r \o h \o <<>>)[i] = IF i <= Len(r) THEN r[i]
                                     ELSE IF i <= Len(r) + Len(h) THEN h[i - Len(r)]
                                     ELSE <<>>[i - Len(r) - Len(h)]
      BY <1>5, <3>1, Pieces DEF r, h
    <3>5. ASSUME NEW i \in 1 .. Len(r) + Len(h)
          PROVE  (r \o h \o <<>>)[i] = (r \o h \o toDev)[i]
      <4>1. i \in 1 .. Len(r) + Len(h) + 0 /\ i \in 1 .. Len(r) + Len(h) + Len(toDev)
            /\ i <= Len(r) + Len(h)
        BY <3>3
      <4> QED BY <3>3, <3>4, <4>1
    <3>6. Len(Upstream') = Len(r) + Len(h)
      BY <3>2, <3>3, <3>4
    <3> QED BY <3>2, <3>3, <3>5, <3>6
  <2>5. UpstreamOk'
    <3>1. \A i \in 1 .. Len(Upstream) : Upstream[i] = taken - ToGather + i
      BY <2>2 DEF UpstreamOk
    <3>2. ASSUME NEW i \in 1 .. Len(Upstream') PROVE Upstream'[i] = taken - ToGather + i
      <4>1. i \in 1 .. Len(Upstream)
        BY <1>5, <2>4
      <4> QED BY <2>4, <3>1, <4>1
    <3> QED BY <1>1, <1>2, <2>1, <3>2 DEF UpstreamOk
  <2>6. DownstreamOk'
    BY <1>1, <1>2, <1>4, <2>1, <2>3 DEF DownstreamOk, dmaVars, txSide
  <2>7. Handshake'
    BY <1>1, <2>1, <2>2 DEF Handshake
  <2>8. FlowTyped'
    BY <1>1, <2>1 DEF FlowTyped, dmaVars, busVars, rxSide, txSide
  <2> QED BY <1>2, <1>4, <2>5, <2>6, <2>7, <2>8
<1>10. CASE HostRelease
  <2>1. /\ host = "on" /\ dsr /\ host' = "off" /\ dtr' = FALSE /\ toHost' = <<>>
        /\ due' = SubSeq(due, Len(toHost) + 1, Len(due))
        /\ UNCHANGED <<toDev, sent>>
    BY <1>10 DEF HostRelease
  <2>2. lastReset /\ ctl = "run" /\ Cleared /\ Cleared' /\ toDev = <<>>
    BY <1>1, <1>3, <2>1 DEF Handshake, Cleared, FlowTyped
  <2>3. Upstream' = Upstream
    BY <1>1, <1>4, <2>1 DEF Upstream
  <2>4. job = NoJob /\ ToSpread = 0 /\ ~TxSpreads
    BY <2>2 DEF Handshake, ToSpread, Commands, Quiet, TxSpreads
  <2>5. Handshake'
    BY <1>1, <2>1, <2>2, <2>3 DEF Handshake
  <2>6. UpstreamOk'
    BY <1>1, <1>2, <2>1, <2>3 DEF UpstreamOk
  <2>7. IsPrefixOf(Downstream, due) /\ Len(due) = Len(Downstream) + 0
    BY <2>2, <2>4 DEF DownstreamOk, Streams
  <2>8. Len(due) = Len(Downstream) /\ \A i \in 1 .. Len(Downstream) : Downstream[i] = due[i]
    BY <1>5, <2>7, PrefixMembers
  <2> DEFINE t == toHost
             h == TxHeld
             x == txFifo
  <2>9. /\ Len(t) \in Nat /\ Len(h) \in Nat /\ Len(x) \in Nat
        /\ Len(Downstream) = Len(t) + Len(h) + Len(x)
        /\ \A i \in 1 .. Len(t) + Len(h) + Len(x) :
             Downstream[i] = IF i <= Len(t) THEN t[i]
                             ELSE IF i <= Len(t) + Len(h) THEN h[i - Len(t)]
                             ELSE x[i - Len(t) - Len(h)]
    BY <1>5, Pieces DEF Downstream
  <2>10. Downstream' = <<>> \o h \o x
    BY <1>1, <1>4, <2>1 DEF Downstream
  <2>11. <<>> \o h = h /\ h \o x \in Seq(Bytes) /\ Len(h \o x) = Len(h) + Len(x)
         /\ \A i \in 1 .. Len(h) + Len(x) : (h \o x)[i] = IF i <= Len(h) THEN h[i] ELSE x[i - Len(h)]
    BY <1>5, ConcatEmptySeq, ConcatProperties
  <2>12. /\ due' \in Seq(Bytes) /\ Len(due') = Len(h) + Len(x)
         /\ \A i \in 1 .. Len(h) + Len(x) : due'[i] = due[Len(t) + i]
    <3> DEFINE m == Len(t) + 1
               n == Len(due)
    <3>1. m \in Int /\ n \in Int /\ \A i \in m .. n : due[i] \in Bytes
      <4>1. \A i \in m .. n : i \in 1 .. Len(due)
        BY <1>5, <2>9
      <4> QED BY <1>5, <2>9, <4>1, ElementOfSeq
    <3>2. /\ SubSeq(due, m, n) \in Seq(Bytes)
          /\ Len(SubSeq(due, m, n)) = IF m <= n THEN n - m + 1 ELSE 0
          /\ \A i \in 1 .. n - m + 1 : SubSeq(due, m, n)[i] = due[m + i - 1]
      <4> HIDE DEF m, n
      <4> QED BY <3>1, SubSeqProperties
    <3>3. n - m + 1 = Len(h) + Len(x) /\ (m <= n \/ Len(h) + Len(x) = 0)
      BY <2>8, <2>9
    <3>4. \A i \in 1 .. Len(h) + Len(x) : m + i - 1 = Len(t) + i
      BY <2>9
    <3>5. due' = SubSeq(due, m, n)
      BY <2>1
    <3> HIDE DEF m, n
    <3> QED BY <3>2, <3>3, <3>4, <3>5
  <2>13. ASSUME NEW i \in 1 .. Len(h) + Len(x) PROVE (h \o x)[i] = due'[i]
    <3>1. /\ Len(t) + i \in 1 .. Len(t) + Len(h) + Len(x) /\ ~(Len(t) + i <= Len(t))
          /\ (Len(t) + i <= Len(t) + Len(h) <=> i <= Len(h))
          /\ Len(t) + i - Len(t) = i /\ Len(t) + i - Len(t) - Len(h) = i - Len(h)
      BY <2>9
    <3>2. due'[i] = Downstream[Len(t) + i]
      BY <2>8, <2>9, <2>12, <3>1
    <3>3. Downstream[Len(t) + i] = IF i <= Len(h) THEN h[i] ELSE x[i - Len(h)]
      BY <2>9, <3>1
    <3> QED BY <2>11, <3>2, <3>3
  <2>14. Downstream' = due'
    BY <2>10, <2>11, <2>12, <2>13, SeqEqual
  <2>15. DownstreamOk'
    <3>1. Len(due') \in Nat /\ Len(due') = Len(Downstream') + 0
      BY <2>12, <2>14, LenProperties
    <3>2. IsPrefixOf(Downstream', due')
      BY <2>12, <2>14, <3>1, PrefixMembers
    <3>3. \A i \in 1 .. 0 : FALSE
      OBVIOUS
    <3> QED BY <1>2, <1>4, <2>4, <3>1, <3>2, <3>3 DEF DownstreamOk
  <2>16. FlowTyped'
    BY ZenonT(30), <1>1, <2>1, <2>12, EmptySeq DEF FlowTyped, dmaVars, busVars, rxSide, txSide
  <2> QED BY <1>2, <1>4, <2>5, <2>6, <2>15, <2>16
<1>11. CASE HostUp
  <2>1. /\ host = "off" /\ ~dsr /\ host' = "up" /\ UNCHANGED <<toDev, toHost, dtr, sent, due>>
    BY <1>11 DEF HostUp
  <2>2. ~lastReset /\ ctl = "run" /\ ~resetState /\ ~dtr /\ Cleared /\ ~Cleared'
    BY <1>1, <2>1 DEF Handshake, Cleared
  <2>3. Upstream' = Upstream /\ Downstream' = Downstream
    BY <1>1, <1>4, <2>1 DEF Upstream, Downstream
  <2>4. Upstream = <<>> /\ taken = sent /\ job = NoJob /\ ToGather = 0
    BY <2>2 DEF Handshake, ToGather, NoJob
  <2>5. UpstreamOk'
    <3>1. Len(Upstream) = 0
      BY <2>4, EmptySeq
    <3> QED BY <1>1, <1>2, <1>3, <2>1, <2>3, <2>4, <3>1 DEF UpstreamOk
  <2>6. DownstreamOk'
    BY <1>1, <1>2, <1>4, <2>1, <2>3 DEF DownstreamOk, dmaVars, txSide
  <2>7. Handshake'
    BY <1>1, <2>1, <2>2 DEF Handshake
  <2>8. FlowTyped'
    BY <1>1, <2>1 DEF FlowTyped, dmaVars, busVars, rxSide, txSide
  <2> QED BY <1>2, <1>4, <2>5, <2>6, <2>7, <2>8
<1> QED BY <1>7, <1>8, <1>9, <1>10, <1>11 DEF HostResets

-----------------------------------------------------------------------------
(* The clock edge: the word on the bus.                                     *)

\* What the masks select.
LEMMA Masks ==
  /\ Both[1] = TRUE /\ Both[2] = TRUE /\ High[1] = TRUE /\ High[2] = FALSE
  /\ Low[1] = FALSE /\ Low[2] = TRUE
  /\ High # Both /\ Low # Both /\ Low # High
  /\ Both \in BOOLEAN \X BOOLEAN /\ High \in BOOLEAN \X BOOLEAN /\ Low \in BOOLEAN \X BOOLEAN
  /\ LaneCount(Both) = 2 /\ LaneCount(High) = 1 /\ LaneCount(Low) = 1
<1>1. Both[1] = TRUE /\ Both[2] = TRUE /\ High[1] = TRUE /\ High[2] = FALSE
      /\ Low[1] = FALSE /\ Low[2] = TRUE
  BY DEF Both, High, Low
<1>2. High # Both /\ Low # Both /\ Low # High
  BY <1>1
<1>3. Both \in BOOLEAN \X BOOLEAN /\ High \in BOOLEAN \X BOOLEAN /\ Low \in BOOLEAN \X BOOLEAN
  BY DEF Both, High, Low
<1>4. LaneCount(Both) = 2 /\ LaneCount(High) = 1 /\ LaneCount(Low) = 1
  BY <1>1 DEF LaneCount
<1> QED BY <1>1, <1>2, <1>3, <1>4

\* What is known of the acknowledgement, and of the numbers.
LEMMA AtEdge ==
  ASSUME PathInv, FlowInv
  PROVE  /\ Acks \in BOOLEAN /\ (Acks => memState = "TRANSFER" /\ bus.request)
         /\ left \in Nat /\ End \in Nat /\ End <= Cells /\ Cells \in Nat
         /\ bus.address \in Nat /\ bus.address % 2 = 0
         /\ bus.mask \in {Both, High, Low} /\ bus.mask \in BOOLEAN \X BOOLEAN
         /\ rMask \in BOOLEAN \X BOOLEAN /\ NextLanes \in BOOLEAN \X BOOLEAN
         /\ LaneCount(bus.mask) \in {1, 2} /\ LaneCount(NextLanes) \in {1, 2}
         /\ job.address \in Nat /\ job.length \in Nat /\ job.write \in BOOLEAN
         /\ first \in Nat /\ taken \in Nat /\ sent \in Nat
         /\ job # NoJob => End = job.address + job.length /\ job.length > 0
         /\ BytesTyped /\ EngineTyped /\ Requests /\ Counted
         /\ FlowTyped /\ Commands /\ EnginePart
<1>1. EngineTyped /\ Requests /\ Counted /\ BytesTyped /\ FlowTyped /\ Commands /\ EnginePart
  BY DEF PathInv, EngineInv, FlowInv
<1>2. Acks \in BOOLEAN /\ (Acks => memState = "TRANSFER" /\ bus.request)
  BY <1>1, AcksExpected DEF PathInv, Acks, A!AckOf, Served, A!TypeOK, A!Memories, Requests
<1>3. left \in Nat /\ End <= Cells /\ Cells \in Nat /\ bus.address \in Nat /\ bus.address % 2 = 0
      /\ bus.mask \in {Both, High, Low} /\ scb.address \in Nat /\ scb.length \in Nat
  BY <1>1, MemoryAssumption DEF EngineTyped
<1>4. End \in Nat
  BY <1>3 DEF End
<1>5. job.address \in Nat /\ job.length \in Nat /\ job.write \in BOOLEAN
      /\ (job # NoJob => job.length > 0)
  <2>1. CASE job = NoJob
    BY <2>1 DEF NoJob
  <2>2. CASE job \in Jobs
    <3>1. job \in [write : BOOLEAN, address : Nat, length : Nat \ {0}]
      BY <2>2, MemoryAssumption
    <3>2. job.address \in Nat /\ job.length \in Nat \ {0} /\ job.write \in BOOLEAN
      BY <3>1
    <3> QED BY <3>2
  <2> QED BY <1>1, <2>1, <2>2 DEF FlowTyped
<1>6. job # NoJob => End = job.address + job.length
  BY <1>1 DEF Commands, End
<1>7. NextLanes \in {Both, High, Low} /\ rMask \in {Both, High, Low}
  BY <1>1 DEF NextLanes, FlowTyped
<1>8. \A m \in {Both, High, Low} : m \in BOOLEAN \X BOOLEAN /\ LaneCount(m) \in {1, 2}
  BY Masks
<1>9. first \in Nat /\ taken \in Nat /\ sent \in Nat
  BY <1>1 DEF FlowTyped, BytesTyped
<1> QED BY <1>1, <1>2, <1>3, <1>4, <1>5, <1>6, <1>7, <1>8, <1>9

\* A job is there when the engine is not idle.
LEMMA JobThere ==
  ASSUME PathInv, FlowInv, Moving \/ dmaStart \/ rxState # "IDLE" \/ txState # "IDLE" \/ busy
  PROVE  job # NoJob /\ ~scb.start /\ busy /\ scb.write = job.write
         /\ scb.address = job.address /\ scb.length = job.length
<1>1. Commands /\ Requests
  BY DEF PathInv, EngineInv, FlowInv
<1>2. busy
  BY <1>1 DEF Commands, Requests, Quiet, Moving
<1> QED BY <1>1, <1>2 DEF Commands

\* The edge at which a transfer begins.
LEMMA BeginEdge ==
  ASSUME PathInv, FlowInv, NEW now \in BOOLEAN, Tick(now), Begins
  PROVE  /\ memState = "IDLE" /\ memState' = "WAIT" /\ left' = job.length
         /\ bus'.write = job.write /\ job # NoJob /\ ~Acks /\ ~dmaStop /\ ~dmaStart'
         /\ NextByte' = job.address /\ wEmpty' = TRUE /\ ~rEnd' /\ Quiet /\ ~scb.start
<1>1. memState = "IDLE" /\ dmaStart
  BY DEF Begins
<1>2. job # NoJob /\ ~scb.start /\ scb.write = job.write /\ scb.length = job.length
  BY <1>1, JobThere
<1>3. ~Acks /\ Requests /\ EngineTyped /\ ~dmaStop /\ Quiet
  BY <1>1, AtEdge DEF Commands
<1>4. memState' = "WAIT"
  BY <1>1, EngineEdge DEF NextMemState
<1>5. left' = job.length /\ ~dmaStart'
  BY <1>2, EngineEdge
<1>6. bus'.write = job.write
  <2>1. bus' = NextBus(Acks)
    BY EngineEdge
  <2>2. NextBus(Acks).write = scb.write
    BY Zenon DEF NextBus
  <2> QED BY <1>2, <2>1, <2>2
<1>7. NextByte' = job.address
  <2>1. End' = End
    <3>1. scb' = [scb EXCEPT !.start = FALSE, !.stop = FALSE]
      BY EngineEdge
    <3> QED BY <1>3, <3>1 DEF End, EngineTyped
  <2>2. End = job.address + job.length /\ job.address \in Nat /\ job.length \in Nat
    BY <1>2, AtEdge
  <2> QED BY <1>5, <2>1, <2>2 DEF NextByte
<1>8. wEmpty' = TRUE /\ ~rEnd'
  BY <1>1 DEF Tick, DmaTick, MemoryBus, Begins
<1> QED BY <1>1, <1>2, <1>3, <1>4, <1>5, <1>6, <1>7, <1>8

\* The end of the transfer does not move.
LEMMA EndStays ==
  ASSUME PathInv, FlowInv, NEW now \in BOOLEAN, Tick(now)
  PROVE  End' = End
<1>1. scb' = [scb EXCEPT !.start = FALSE, !.stop = FALSE]
  BY EngineEdge
<1>2. EngineTyped
  BY AtEdge
<1> QED BY <1>1, <1>2 DEF End, EngineTyped

\* The word to come has no more lanes than the job has bytes left.
LEMMA LanesLeft ==
  ASSUME PathInv, Moving, left > 0
  PROVE  LaneCount(NextLanes) \in {1, 2} /\ LaneCount(NextLanes) <= left
<1>1. /\ EngineTyped /\ Requests /\ Counted
  BY DEF PathInv, EngineInv
<1> DEFINE e == End
           b == bus.address
           c == LaneCount(NextLanes)
<1>2. left \in Nat /\ left > 0 /\ e \in Nat /\ b \in Nat /\ b % 2 = 0
  <2>1. scb.address \in Nat /\ scb.length \in Nat /\ bus.address \in 0 .. Cells
    BY <1>1 DEF EngineTyped
  <2> QED BY <1>1, <2>1, MemoryAssumption DEF End, EngineTyped
<1>3. c = IF oddStart \/ (oddEnd /\ left <= 2) THEN 1 ELSE 2
  BY Masks DEF NextLanes, AlmostLastWord
<1>4. oddEnd <=> e % 2 = 1
  BY <1>1 DEF Counted, Moving
<1>5. ~oddStart => b + left = e \/ b + 2 + left = e
  BY <1>1, <1>2 DEF Counted, Moving, EngineTyped
<1> HIDE DEF e, b, c
<1>6. ~oddStart /\ left = 1 => e % 2 = 1
  BY <1>2, <1>5
<1>7. c \in {1, 2} /\ c <= left
  <2>1. CASE left = 1
    BY <1>3, <1>4, <1>6, <2>1
  <2>2. CASE left >= 2
    BY <1>2, <1>3, <2>2
  <2> QED BY <1>2, <2>1, <2>2
<1> QED BY <1>7 DEF c

\* The edge at which a word goes on the bus: its lanes are the next bytes.
LEMMA IssueEdge ==
  ASSUME PathInv, FlowInv, NEW now \in BOOLEAN, Tick(now), Issues(Acks)
  PROVE  /\ ~Begins /\ Moving /\ ~dmaStop /\ left > 0 /\ memState' = "TRANSFER"
         /\ memState = "WAIT" \/ (memState = "TRANSFER" /\ Acks /\ ~oddStart)
         /\ bus'.mask = NextLanes /\ bus'.wdata = wBuf /\ bus'.write = bus.write
         /\ left' = left - LaneCount(NextLanes) /\ LaneCount(NextLanes) <= left
         /\ BusFirst' = NextByte /\ NextByte' = NextByte + LaneCount(NextLanes)
         /\ bus'.address = (IF NextLanes[1] THEN NextByte ELSE NextByte - 1)
         /\ wEmpty' = TRUE
<1>1. /\ Requests /\ EngineTyped /\ Counted /\ Acks \in BOOLEAN /\ left \in Nat /\ End \in Nat
      /\ bus.address \in Nat /\ bus.address % 2 = 0
  BY AtEdge
<1>2. memState = "WAIT" \/ (memState = "TRANSFER" /\ Acks /\ ~oddStart)
  BY <1>1 DEF Issues, Requests
<1>3. ~Begins /\ Moving /\ ~dmaStop /\ left > 0
  BY <1>1, <1>2 DEF Begins, Moving, Issues, LastWord
<1>4. memState' = "TRANSFER"
  BY <1>1, <1>2, BusMoves, AtEdge, EngineEdge
<1>5. IssuedLanes = NextLanes
  BY <1>2 DEF IssuedLanes, NextLanes
<1>6. bus'.mask = NextLanes /\ bus'.wdata = wBuf /\ bus'.write = bus.write
      /\ bus'.address = NextAddress(Acks)
  <2>1. bus' = NextBus(Acks)
    BY EngineEdge
  <2>2. /\ NextBus(Acks).mask = IssuedLanes /\ NextBus(Acks).wdata = wBuf
        /\ NextBus(Acks).write = bus.write /\ NextBus(Acks).address = NextAddress(Acks)
    BY <1>3, Zenon DEF NextBus
  <2> QED BY <1>5, <2>1, <2>2
<1>7. Taken(Acks) = LaneCount(NextLanes)
  <2>1. Taken(Acks) = IF NextLanes = Both THEN 2 ELSE 1
    BY <1>5 DEF Taken
  <2>2. NextLanes \in {Both, High, Low}
    BY DEF NextLanes
  <2> QED BY <2>1, <2>2, Masks
<1>8. left' = left - LaneCount(NextLanes)
  BY <1>3, <1>7, EngineEdge
<1> DEFINE b == NextAddress(Acks)
           e == End
           c == LaneCount(NextLanes)
<1>9. b \in Nat /\ b % 2 = 0 /\ (oddStart => b + 1 + left = e) /\ (~oddStart => b + left = e)
  <2>1. CASE memState = "WAIT"
    <3>1. ~Acks
      BY <2>1, AtEdge
    <3>2. b = bus.address + 0
      BY <1>3, <3>1 DEF NextAddress
    <3>3. b = bus.address
      BY <1>1, <3>2
    <3>4. (oddStart => bus.address + 1 + left = e) /\ (~oddStart => bus.address + left = e)
      BY <1>1, <1>3, <2>1 DEF Counted
    <3> HIDE DEF b, e
    <3> QED BY <1>1, <3>3, <3>4
  <2>2. CASE memState = "TRANSFER" /\ Acks /\ ~oddStart
    <3>1. b = bus.address + 2
      BY <1>3, <2>2 DEF NextAddress
    <3>2. bus.address + 2 + left = e
      BY <1>1, <1>3, <2>2 DEF Counted
    <3> HIDE DEF b, e
    <3> QED BY <1>1, <2>2, <3>1, <3>2
  <2> QED BY <1>2, <2>1, <2>2
<1>10. e \in Nat /\ left \in Nat /\ left > 0
  BY <1>1, <1>3
<1>11. c \in {1, 2} /\ c <= left
  BY <1>3, LanesLeft
<1>12. NextLanes[1] <=> ~oddStart
  BY Masks DEF NextLanes
<1>13. b = IF NextLanes[1] THEN NextByte ELSE NextByte - 1
  <2> HIDE DEF b
  <2> QED BY <1>9, <1>10, <1>12 DEF NextByte
<1>14. BusFirst' = NextByte
  <2>1. BusFirst' = bus'.address + IF bus'.mask[1] THEN 0 ELSE 1
    BY DEF BusFirst
  <2>2. bus'.mask[1] <=> NextLanes[1]
    BY <1>6
  <2>3. NextByte \in Int
    BY <1>10 DEF NextByte
  <2>4. BusFirst' = b + IF NextLanes[1] THEN 0 ELSE 1
    BY <1>6, <2>1, <2>2
  <2> HIDE DEF b
  <2> QED BY <1>13, <2>3, <2>4
<1>15. NextByte' = NextByte + c
  <2>1. NextByte' = End - left'
    BY EndStays DEF NextByte
  <2> QED BY <1>8, <1>10, <1>11, <2>1 DEF NextByte
<1>16. wEmpty' = TRUE
  BY DEF Tick, DmaTick, MemoryBus, Acks
<1> QED BY <1>2, <1>3, <1>4, <1>6, <1>8, <1>11, <1>13, <1>14, <1>15, <1>16

\* The other edges move nothing.
LEMMA RestEdge ==
  ASSUME PathInv, FlowInv, NEW now \in BOOLEAN, Tick(now), ~Begins, ~Issues(Acks)
  PROVE  /\ left' = left /\ NextByte' = NextByte /\ oddStart' = oddStart /\ oddEnd' = oddEnd
         /\ NextLanes' = NextLanes /\ WordLanes' = WordLanes
         /\ bus'.mask = bus.mask /\ bus'.wdata = bus.wdata /\ bus'.write = bus.write
         /\ ~Acks => bus'.address = bus.address /\ BusFirst' = BusFirst
         /\ memState' = "TRANSFER" <=> memState = "TRANSFER" /\ ~Acks
         /\ ~Moving <=> memState' = "IDLE" /\ memState = "IDLE"
         /\ Moving /\ memState' = "IDLE" =>
              dmaStop \/ (memState = "TRANSFER" /\ Acks /\ left = 0)
         /\ memState' = "WAIT" => Moving /\ left > 0
         /\ wEmpty' = (wEmpty /\ ~wReady)
<1>1. /\ Requests /\ EngineTyped /\ Acks \in BOOLEAN /\ left \in Nat /\ End \in Nat
      /\ bus.address \in Nat /\ (Acks => memState = "TRANSFER")
      /\ memState \in {"IDLE", "WAIT", "TRANSFER"}
  BY AtEdge DEF EngineTyped
<1>2. left' = left
  <2>1. Taken(Acks) = 0
    BY DEF Taken
  <2>2. left' = left - Taken(Acks)
    BY EngineEdge
  <2> QED BY <1>1, <2>1, <2>2
<1>3. NextByte' = NextByte
  BY <1>2, EndStays DEF NextByte
<1>4. oddStart' = oddStart /\ oddEnd' = oddEnd
  BY <1>1, EngineEdge DEF EngineTyped
<1>5. NextLanes' = NextLanes /\ WordLanes' = WordLanes
  BY <1>2, <1>4 DEF NextLanes, WordLanes, AlmostLastWord
<1>6. bus'.mask = bus.mask /\ bus'.wdata = bus.wdata /\ bus'.write = bus.write
      /\ bus'.address = NextAddress(Acks)
  <2>1. bus' = NextBus(Acks)
    BY EngineEdge
  <2>2. /\ NextBus(Acks).mask = bus.mask /\ NextBus(Acks).wdata = bus.wdata
        /\ NextBus(Acks).write = bus.write /\ NextBus(Acks).address = NextAddress(Acks)
    BY Zenon DEF NextBus
  <2> QED BY <2>1, <2>2
<1>7. ~Acks => bus'.address = bus.address /\ BusFirst' = BusFirst
  BY <1>1, <1>6 DEF NextAddress, BusFirst
<1>8. memState' = "TRANSFER" <=> memState = "TRANSFER" /\ ~Acks
  BY <1>1, BusMoves, EngineEdge
<1>9. memState = "IDLE" => memState' = "IDLE" /\ ~dmaStart
  BY EngineEdge DEF NextMemState, Begins
<1>10. left = 0 <=> LastWord
  BY DEF LastWord
<1>11. Moving /\ memState' = "IDLE" => dmaStop \/ (memState = "TRANSFER" /\ Acks /\ left = 0)
  <2>1. memState = "WAIT" => left > 0
    BY DEF FlowInv, EnginePart, BusOk
  <2>2. CASE memState = "WAIT"
    <3>1. NextMemState(Acks) = IF dmaStop \/ LastWord THEN "IDLE"
                               ELSE IF DataWaiting THEN "TRANSFER" ELSE "WAIT"
      BY <2>2 DEF NextMemState
    <3>2. memState' = NextMemState(Acks)
      BY EngineEdge
    <3>3. ~LastWord
      BY <1>1, <1>10, <2>1, <2>2
    <3> QED BY <3>1, <3>2, <3>3
  <2>3. CASE memState = "TRANSFER"
    BY <1>1, <1>10, <2>3, EngineEdge DEF NextMemState
  <2> QED BY <1>1, <2>2, <2>3 DEF Moving
<1>12. memState' = "WAIT" => Moving /\ left > 0
  <2>1. memState' = "WAIT" => ~LastWord
    <3>0. memState' = NextMemState(Acks)
      BY EngineEdge
    <3>1. CASE memState = "WAIT"
      <4>1. NextMemState(Acks) = IF dmaStop \/ LastWord THEN "IDLE"
                                 ELSE IF DataWaiting THEN "TRANSFER" ELSE "WAIT"
        BY <3>1 DEF NextMemState
      <4> QED BY <3>0, <4>1
    <3>2. CASE memState = "TRANSFER"
      BY <3>2, EngineEdge DEF NextMemState
    <3>3. CASE memState = "IDLE"
      BY <1>9, <3>3
    <3> QED BY <1>1, <3>1, <3>2, <3>3
  <2> QED BY <1>1, <1>9, <1>10, <2>1 DEF Moving
<1>13. wEmpty' = (wEmpty /\ ~wReady)
  BY DEF Tick, DmaTick, MemoryBus, Acks
<1>14. ~Moving <=> memState' = "IDLE" /\ memState = "IDLE"
  BY <1>9 DEF Moving
<1> QED BY <1>2, <1>3, <1>4, <1>5, <1>6, <1>7, <1>8, <1>11, <1>12, <1>13, <1>14

\* The registers of the two machines at the FIFOs after an edge.
LEMMA FifoRegisters ==
  ASSUME NEW now, Tick(now)
  PROVE  /\ rxState' = NextRxState(RxEmpty) /\ shifted' = RxShifts(RxEmpty)
         /\ wReady' = (shifted /\ rxState = "ACK") /\ wBuf' = Gathered
         /\ txState' = NextTxState(TxFull)
         /\ txWaiting' = (IF TxSpreads THEN txWaiting \/ rAck
                          ELSE txWaiting /\ txState = "WAIT" /\ ~TxTakes)
         /\ txValid' = (IF TxTakes THEN rMask
                        ELSE IF TxShifts(TxFull) THEN <<txValid[2], FALSE>> ELSE txValid)
         /\ txBuf' = (IF TxTakes THEN rBuf
                      ELSE IF TxShifts(TxFull) THEN <<txBuf[2], None>> ELSE txBuf)
         /\ rReady' = CASE txState = "IDLE" -> dmaStart /\ ~scb.write
                        [] txState = "WAIT" -> rReady /\ ~TxTakes
                        [] txState = "FIRST" -> rReady
                        [] txState = "SECOND" -> IF TxWrites(TxFull) \/ ~txValid[1]
                                                 THEN ~rEnd ELSE rReady
         /\ rAck' = Acks
         /\ rEnd' = IF memState = "IDLE" THEN ~dmaStart ELSE IF Acks THEN LastWord ELSE rEnd
         /\ rMask' = (IF Acks THEN bus.mask ELSE rMask)
         /\ rBuf' = (IF Acks THEN Word(bus.address) ELSE rBuf)
         /\ dmaStop' = (scb.stop \/ (dmaStop /\ ~scb.start))
         /\ rxFifo' = (IF Reads THEN Tail(rxFifo) ELSE rxFifo)
         /\ rxOut' = (IF Reads THEN Head(rxFifo) ELSE rxOut)
         /\ txFifo' = IF Writes THEN Append(txFifo, txBuf[1]) ELSE txFifo
  BY DEF Tick, DmaTick, StartStop, MemoryBus, RxFifo, TxFifo, Acks, Gathered

\* What an edge of the clock leaves alone.
LEMMA EdgeLeaves ==
  ASSUME NEW now, Tick(now)
  PROVE  UNCHANGED <<ftState, ftCmd, polls, rxByte, rxFailed, txOut, txFailed, resetState,
                     resetReply, replyPending, flushBusy, toDev, toHost, dtr, dsr,
                     job, turn, ctl, lastReset, host, sent, taken, first, due, before>>
  BY DEF Tick, modemVars, chipVars, ctlVars

\* The commands of the controller last one edge.
LEMMA CommandsEnd ==
  ASSUME PathInv, FlowInv, NEW now \in BOOLEAN, Tick(now)
  PROVE  /\ ~scb'.start /\ ~scb'.stop /\ scb'.write = scb.write
         /\ scb'.address = scb.address /\ scb'.length = scb.length
<1>1. scb' = [scb EXCEPT !.start = FALSE, !.stop = FALSE]
  BY EngineEdge
<1>2. scb \in [start : BOOLEAN, stop : BOOLEAN, write : BOOLEAN, address : Nat, length : Nat]
  BY AtEdge DEF EngineTyped
<1> QED BY <1>1, <1>2

\* An idle engine that is not started stays idle.
LEMMA QuietStays ==
  ASSUME PathInv, FlowInv, NEW now \in BOOLEAN, Tick(now), Quiet, ~dmaStart
  PROVE  Quiet'
<1>1. memState' = "IDLE"
  BY EngineEdge DEF Quiet, NextMemState
<1>2. rxState' = "IDLE"
  BY FifoRegisters DEF Quiet, NextRxState
<1>3. txState' = "IDLE"
  BY FifoRegisters DEF Quiet, NextTxState
<1> QED BY <1>1, <1>2, <1>3 DEF Quiet

\* An idle engine without a command stays one, and no job is what the
\* controller lets end in its own time.
LEMMA CommandsAtEdge ==
  ASSUME PathInv, FlowInv, NEW now \in BOOLEAN, Tick(now)
  PROVE  Commands'
<1>1. Commands /\ Requests /\ EngineTyped
  BY AtEdge
<1>2. /\ dmaStart' = (scb.start /\ ~scb.stop) /\ dmaStop' = (scb.stop \/ (dmaStop /\ ~scb.start))
      /\ busy' = (\/ scb.start /\ ~scb.stop
                  \/ dmaStart
                  \/ memState # "IDLE" \/ rxState # "IDLE" \/ txState # "IDLE")
      /\ ~scb'.start /\ ~scb'.stop /\ scb'.write = scb.write
      /\ scb'.address = scb.address /\ scb'.length = scb.length
  BY EngineEdge, FifoRegisters, CommandsEnd
<1>3. UNCHANGED <<job, turn, ctl, first, taken>>
  BY EdgeLeaves
<1>4. Quiet /\ ~dmaStart => Quiet'
  BY QuietStays
<1>5. ~busy => Quiet /\ ~dmaStart /\ Quiet' /\ (~scb.start => ~busy')
  BY <1>1, <1>2, <1>4 DEF Commands, Requests, Quiet
<1>6. ~busy' => Quiet' /\ ~scb.start
  BY <1>1, <1>2, <1>4 DEF Commands, Quiet
<1>7. dmaStart' => Quiet' /\ ~dmaStop' /\ ~scb'.start
  BY <1>1, <1>2, <1>5 DEF Commands
<1>8. ctl = "stopping" => scb'.stop \/ dmaStop'
  BY <1>1, <1>2 DEF Commands
<1>9. ctl = "flushing" => ~busy'
  BY <1>1, <1>5 DEF Commands
<1>10. ctl = "run" /\ dmaStop' => job = NoJob \/ scb'.start
  BY <1>1, <1>2 DEF Commands
<1>11. job = NoJob => ~busy' /\ ~scb'.start
  BY <1>1, <1>2, <1>5 DEF Commands
<1>12. job.write /\ ~DmaReady' /\ ctl = "run" => turn = "writing"
  <2>1. ~DmaReady' => ~DmaReady
    BY <1>2, <1>5 DEF DmaReady
  <2> QED BY <1>1, <2>1 DEF Commands
<1>13. turn = "writing" => job.write /\ first + job.length = taken + 1
  BY <1>1 DEF Commands
<1>14. job # NoJob => scb'.write = job.write /\ scb'.address = job.address /\ scb'.length = job.length
  BY <1>1, <1>2 DEF Commands
<1>15. ctl' = ctl /\ job' = job /\ turn' = turn /\ first' = first /\ taken' = taken
  BY <1>3
<1>16. ~busy' => Quiet'
  BY <1>6
<1>17. (scb'.start => ~busy' /\ ~scb'.stop /\ ctl = "run") /\ (scb'.stop => ctl = "stopping")
  BY <1>2
<1>18. NoJob' = NoJob
  BY DEF NoJob
<1> QED BY <1>7, <1>8, <1>9, <1>10, <1>11, <1>12, <1>13, <1>14, <1>15, <1>16, <1>17, <1>18 DEF Commands

\* Nobody takes a byte for a job that is not there.
LEMMA IdleReads ==
  ASSUME PathInv, FlowInv, NEW now \in BOOLEAN, Tick(now), ~busy \/ job = NoJob
  PROVE  ~Reads /\ ~Writes /\ Upstream' = Upstream /\ Downstream' = Downstream
<1>1. Quiet
  BY AtEdge DEF Commands
<1>2. ~Reads /\ ~Writes
  BY <1>1 DEF Quiet, Reads, RxReads, Writes, TxWrites, TxSpreads
<1>3. rxFifo' = rxFifo /\ txFifo' = txFifo
  BY <1>2, FifoRegisters
<1>4. UNCHANGED <<rxFailed, rxByte, toDev, txFailed, ftState, ftCmd, txOut, toHost>>
  BY EdgeLeaves
<1> QED BY <1>2, <1>3, <1>4 DEF Upstream, Downstream, RxHeld, TxHeld

\* The edge has no part in the reset of the link.
LEMMA HandshakeAtEdge ==
  ASSUME PathInv, FlowInv, NEW now \in BOOLEAN, Tick(now)
  PROVE  Handshake' /\ Transactions'
<1>1. Handshake /\ Transactions
  BY DEF FlowInv
<1>2. UNCHANGED <<ftState, ftCmd, rxFailed, txFailed, resetState,
                  resetReply, replyPending, flushBusy, toDev, dtr, dsr,
                  job, turn, ctl, lastReset, host, sent, taken>>
  BY EdgeLeaves
<1>3. Cleared' = Cleared
  BY <1>2 DEF Cleared
<1>4. Cleared => Upstream' = Upstream
  BY <1>1, IdleReads DEF Handshake
<1>5. NoJob' = NoJob
  BY DEF NoJob
<1>6. txFifo # <<>> => txFifo' # <<>>
  <2>1. txFifo \in Seq(Bytes) /\ txBuf[1] \in Bytes
    BY AtEdge DEF FlowTyped
  <2>2. Append(txFifo, txBuf[1]) # <<>>
    BY <2>1
  <2> QED BY <2>2, FifoRegisters
<1>7. Handshake'
  BY <1>1, <1>2, <1>3, <1>4, <1>5 DEF Handshake
<1>8. Transactions'
  BY <1>1, <1>2, <1>6 DEF Transactions
<1> QED BY <1>7, <1>8

\* The memory serves the engine: the word on the bus goes to its place, and
\* the acknowledgement comes at the next edge.
LEMMA MemoryEdge ==
  ASSUME PathInv, FlowInv, NEW now \in BOOLEAN, Tick(now)
  PROVE  /\ Acks' => memState = "TRANSFER" /\ ~Acks /\ ~ack["sdram"]
         /\ ~(Acks' /\ bus.write) => mem' = mem
         /\ Acks' /\ bus.write =>
              mem' = [mem EXCEPT ![bus.address] = IF bus.mask[1] THEN bus.wdata[1] ELSE @,
                                 ![bus.address + 1] = IF bus.mask[2] THEN bus.wdata[2] ELSE @]
         /\ now => ~ack["sdram"]
         /\ ack'["sdram"] = now
<1>1. Served /\ Others
  BY DEF PathInv, EngineInv
<1>2. "sdram" \in A!Memories /\ ack \in [A!Memories -> BOOLEAN]
  BY <1>1 DEF A!Memories, Served, A!TypeOK
<1>3. MemoryAnswers(now) /\ arb' = [m \in A!Memories |-> A!Latch(m)]
  BY DEF Tick
<1>4. ack'["sdram"] = now /\ (now => arb["sdram"].request /\ ~ack["sdram"])
  BY <1>2, <1>3 DEF MemoryAnswers
<1> DEFINE usb == arb["sdram"].source = "usb"
<1>5. now => arb'["sdram"].source = arb["sdram"].source
  BY <1>2, <1>3, <1>4 DEF A!Latch
<1>6. Acks' <=> now /\ usb
  BY <1>4, <1>5 DEF Acks, A!AckOf
<1>7. now /\ usb => /\ Asks["usb"] /\ Accesses["usb"] = arb["sdram"].access
  BY <1>1, <1>2, <1>4 DEF Served, A!ServesItsClient
<1>8. Asks["usb"] = bus.request
      /\ Accesses["usb"] = [mem |-> "sdram", write |-> bus.write, mask |-> bus.mask,
                            address |-> bus.address, wdata |-> bus.wdata]
  BY DEF Asks, Accesses
<1>9. Acks' => memState = "TRANSFER" /\ ~Acks /\ ~ack["sdram"]
  BY <1>4, <1>6, <1>7, <1>8, AtEdge DEF Requests, Acks, A!AckOf
<1>10. now /\ ~usb => ~arb["sdram"].access.write
  <2> SUFFICES ASSUME now, ~usb PROVE ~arb["sdram"].access.write
    OBVIOUS
  <2>1. arb["sdram"].source \in {"n64", "cfg", "usb", "sd"}
    BY <1>1, <1>2 DEF Served, A!TypeOK, A!Clients
  <2>2. Accesses[arb["sdram"].source] = arb["sdram"].access
    BY <1>1, <1>2, <1>4 DEF Served, A!ServesItsClient
  <2>3. Accesses[arb["sdram"].source] = Reading0
    BY <2>1 DEF Accesses
  <2> QED BY <2>2, <2>3 DEF Reading0
<1>11. ~(Acks' /\ bus.write) => mem' = mem
  BY <1>3, <1>6, <1>7, <1>8, <1>10 DEF MemoryAnswers
<1>12. Acks' /\ bus.write =>
         mem' = [mem EXCEPT ![bus.address] = IF bus.mask[1] THEN bus.wdata[1] ELSE @,
                            ![bus.address + 1] = IF bus.mask[2] THEN bus.wdata[2] ELSE @]
  <2> SUFFICES ASSUME Acks', bus.write
               PROVE  mem' = [mem EXCEPT
                        ![bus.address] = IF bus.mask[1] THEN bus.wdata[1] ELSE @,
                        ![bus.address + 1] = IF bus.mask[2] THEN bus.wdata[2] ELSE @]
    OBVIOUS
  <2> DEFINE a == arb["sdram"].access
  <2>1. a.write = bus.write /\ a.mask = bus.mask /\ a.address = bus.address /\ a.wdata = bus.wdata
    <3>1. a = [mem |-> "sdram", write |-> bus.write, mask |-> bus.mask,
               address |-> bus.address, wdata |-> bus.wdata]
      BY <1>6, <1>7, <1>8, Zenon
    <3> HIDE DEF a
    <3> QED BY <3>1
  <2>2. now
    BY <1>6
  <2>3. mem' = [mem EXCEPT ![a.address] = IF a.mask[1] THEN a.wdata[1] ELSE @,
                           ![a.address + 1] = IF a.mask[2] THEN a.wdata[2] ELSE @]
    BY <1>3, <2>1, <2>2, Zenon DEF MemoryAnswers
  <2> HIDE DEF a
  <2> QED BY <2>1, <2>3
<1> QED BY <1>4, <1>9, <1>11, <1>12

\* A stop takes effect at the edge that follows it: a machine that is still at
\* work afterwards has not seen one.
LEMMA StopEdge ==
  ASSUME PathInv, FlowInv, NEW now \in BOOLEAN, Tick(now)
  PROVE  /\ dmaStop' = (scb.stop \/ (dmaStop /\ ~scb.start))
         /\ rxState' # "IDLE" \/ txState' # "IDLE" => ~dmaStop
         /\ ~dmaStop' /\ (Moving \/ Moving' \/ dmaStart \/ rxState # "IDLE" \/ txState # "IDLE"
                          \/ rxState' # "IDLE" \/ txState' # "IDLE") =>
              ~dmaStop /\ ~scb.stop /\ ~scb.start
         /\ scb.start => Quiet' /\ ~dmaStart
<1>1. Commands /\ Requests
  BY AtEdge
<1>2. dmaStop' = (scb.stop \/ (dmaStop /\ ~scb.start))
  BY FifoRegisters
<1>3. rxState' # "IDLE" \/ txState' # "IDLE" => ~dmaStop
  BY FifoRegisters DEF NextRxState, NextTxState
<1>4. scb.start => Quiet /\ ~dmaStart
  BY <1>1 DEF Commands, Requests
<1>5. Quiet /\ ~dmaStart => Quiet'
  BY QuietStays
<1>6. ASSUME ~dmaStop', Moving \/ Moving' \/ dmaStart \/ rxState # "IDLE" \/ txState # "IDLE"
                        \/ rxState' # "IDLE" \/ txState' # "IDLE"
      PROVE  ~dmaStop /\ ~scb.stop /\ ~scb.start
  BY <1>2, <1>4, <1>5, <1>6 DEF Quiet, Moving
<1> QED BY <1>2, <1>3, <1>4, <1>5, <1>6

\* Where the job is over, the last word has been acknowledged.
LEMMA FinishEdge ==
  ASSUME PathInv, FlowInv, NEW now \in BOOLEAN, Tick(now), Finished'
  PROVE  /\ ~Begins /\ ~Issues(Acks) /\ left = 0 /\ job # NoJob
         /\ Finished \/ (memState = "TRANSFER" /\ Acks)
<1>1. Commands /\ Requests /\ EngineTyped /\ BusOk
  BY AtEdge DEF EnginePart
<1>2. job # NoJob /\ memState' = "IDLE" /\ ~dmaStart' /\ ~dmaStop'
  <2>1. job' = job /\ NoJob' = NoJob
    BY EdgeLeaves DEF NoJob
  <2> QED BY <2>1 DEF Finished
<1>3. dmaStart' = (scb.start /\ ~scb.stop) /\ dmaStop' = (scb.stop \/ (dmaStop /\ ~scb.start))
  BY EngineEdge, FifoRegisters
<1>4. ~scb.start /\ ~scb.stop /\ ~dmaStop
  BY <1>1, <1>2, <1>3 DEF Commands
<1>5. ~Begins
  BY <1>2, BeginEdge
<1>6. ~Issues(Acks)
  BY <1>2, IssueEdge
<1>7. CASE memState = "IDLE"
  BY <1>1, <1>2, <1>4, <1>5, <1>6, <1>7 DEF Finished, BusOk, Begins
<1>8. CASE memState # "IDLE"
  BY <1>2, <1>4, <1>5, <1>6, <1>8, RestEdge DEF Moving
<1> QED BY <1>5, <1>6, <1>2, <1>7, <1>8

\* The words on the bus follow each other to the end of the job
\* (memory_dma.sv:126-172).
LEMMA BusAtEdge ==
  ASSUME PathInv, FlowInv, NEW now \in BOOLEAN, Tick(now)
  PROVE  BusOk'
<1>1. BusOk /\ EngineTyped
  BY AtEdge DEF EnginePart
<1>2. job' = job
  BY EdgeLeaves
<1>3. left \in Nat /\ job.length \in Nat /\ job.address \in Nat /\ End \in Nat
      /\ (job # NoJob => End = job.address + job.length /\ job.length > 0)
  BY AtEdge
<1>4. Finished' => left' = 0
  <2> SUFFICES ASSUME Finished' PROVE left' = 0
    OBVIOUS
  <2> QED BY FinishEdge, RestEdge
<1>5. CASE Begins
  <2>1. memState' = "WAIT" /\ left' = job.length /\ bus'.write = job.write /\ job # NoJob
    BY <1>5, BeginEdge
  <2> QED BY <1>2, <1>3, <1>4, <2>1 DEF BusOk
<1>6. CASE Issues(Acks)
  <2>1. Moving /\ memState' = "TRANSFER" /\ bus'.mask = NextLanes /\ bus'.write = bus.write
        /\ left' = left - LaneCount(NextLanes) /\ LaneCount(NextLanes) <= left
        /\ BusFirst' = NextByte /\ NextByte' = NextByte + LaneCount(NextLanes)
    BY <1>6, IssueEdge
  <2>2. LaneCount(NextLanes) \in {1, 2} /\ job # NoJob
    BY <2>1, AtEdge, JobThere
  <2>3. bus.write = job.write /\ left <= job.length
    BY <1>1, <2>1 DEF BusOk
  <2>4. left' <= job.length
    BY <1>3, <2>1, <2>2, <2>3
  <2>5. NextByte >= job.address
    BY <1>3, <2>2, <2>3 DEF NextByte
  <2>6. LaneCount(bus'.mask) = LaneCount(NextLanes)
    BY <2>1 DEF LaneCount
  <2>7. BusFirst' + LaneCount(bus'.mask) = NextByte' /\ BusFirst' >= job.address
    BY <2>1, <2>5, <2>6
  <2> QED BY <1>2, <1>4, <2>1, <2>3, <2>4, <2>7 DEF BusOk, LaneCount
<1>7. CASE ~Begins /\ ~Issues(Acks)
  <2>1. /\ left' = left /\ NextByte' = NextByte
        /\ bus'.mask = bus.mask /\ bus'.write = bus.write
        /\ ~Acks => BusFirst' = BusFirst
        /\ memState' = "TRANSFER" <=> memState = "TRANSFER" /\ ~Acks
        /\ ~Moving <=> memState' = "IDLE" /\ memState = "IDLE"
        /\ memState' = "WAIT" => Moving /\ left > 0
    BY <1>7, RestEdge
  <2>2. Moving' => bus'.write = job.write /\ left' <= job.length
    BY <1>1, <2>1 DEF BusOk, Moving
  <2>3. memState' = "TRANSFER" =>
          BusFirst' + LaneCount(bus'.mask) = NextByte' /\ BusFirst' >= job.address
    BY <1>1, <2>1 DEF BusOk, LaneCount
  <2> QED BY <1>2, <1>4, <2>1, <2>2, <2>3 DEF BusOk, LaneCount
<1> QED BY <1>5, <1>6, <1>7

-----------------------------------------------------------------------------
(* The clock edge: from the FIFO to the memory.                             *)

\* While the engine gathers a word, none goes on the bus.
LEMMA GatherRest ==
  ASSUME PathInv, FlowInv, NEW now \in BOOLEAN, Tick(now), ~dmaStop, ~scb.stop, ~scb.start,
         \/ rxState = "FIRST" /\ wEmpty /\ ~LastWord
         \/ rxState = "SECOND"
         \/ rxState = "ACK" /\ ~wReady
  PROVE  /\ Moving /\ Moving' /\ job.write /\ ~Begins /\ ~Issues(Acks)
         /\ left > 0 /\ left' = left /\ wEmpty /\ ~wReady /\ wEmpty' = TRUE
<1>1. Gathers /\ Spreads /\ BusOk /\ Requests /\ Commands /\ left \in Nat /\ FlowTyped
  BY AtEdge DEF EnginePart
<1>2. job.write /\ job # NoJob
  BY <1>1, JobThere DEF Gathers
<1>3. left > 0 /\ wEmpty /\ ~wReady
  BY <1>1 DEF Gathers, LastWord
<1>4. ~dmaStart
  BY <1>1 DEF Commands, Quiet
<1>5. Moving
  BY <1>1, <1>2, <1>3, <1>4 DEF BusOk, Finished, Moving
<1>6. ~rReady
  BY <1>1, <1>2, <1>5 DEF Spreads
<1>7. ~Issues(Acks) /\ ~Begins
  BY <1>3, <1>4, <1>6 DEF Issues, DataWaiting, Begins
<1>8. left' = left /\ wEmpty' = (wEmpty /\ ~wReady) /\ Moving'
  BY <1>3, <1>5, <1>7, RestEdge DEF Moving
<1> QED BY <1>2, <1>3, <1>5, <1>7, <1>8

\* A word that waits to be written goes on the bus, or the one before is still
\* there.
LEMMA WaitsItsTurn ==
  ASSUME PathInv, FlowInv, NEW now \in BOOLEAN, Tick(now), ~dmaStop, Moving, left > 0,
         DataWaiting, ~Issues(Acks)
  PROVE  memState = "TRANSFER" /\ ~Acks /\ memState' = "TRANSFER" /\ left' = left /\ ~Begins
<1>1. memState \in {"IDLE", "WAIT", "TRANSFER"} /\ left \in Nat
  BY AtEdge DEF EngineTyped
<1>2. ~LastWord /\ ~Begins
  BY DEF LastWord, Begins, Moving
<1>3. memState = "TRANSFER" /\ ~Acks
  BY <1>1, <1>2 DEF Moving, Issues
<1>4. memState' = "TRANSFER" /\ left' = left
  BY <1>2, <1>3, RestEdge
<1> QED BY <1>2, <1>3, <1>4

\* The machine at the FIFO shifts a byte in at its first place only when the
\* word before has gone up.
LEMMA FirstShifts ==
  ASSUME PathInv, FlowInv, ~dmaStop, rxState = "FIRST", RxShifts(RxEmpty)
  PROVE  wEmpty
<1> SUFFICES ASSUME ~wEmpty PROVE FALSE
  OBVIOUS
<1>1. memState = "TRANSFER" /\ ~oddStart
  BY AtEdge DEF EnginePart, Gathers, Requests
<1>2. WordLanes[1]
  BY <1>1, Masks DEF WordLanes
<1> QED BY <1>2 DEF RxShifts

\* The machine at the FIFO fills one word while the last one is on the bus, and
\* never two (memory_dma.sv:205-269).
LEMMA GathersAtEdge ==
  ASSUME PathInv, FlowInv, NEW now \in BOOLEAN, Tick(now)
  PROVE  Gathers'
<1>1. Gathers /\ Spreads /\ Commands /\ Requests /\ left \in Nat /\ FlowTyped /\ EngineTyped
  BY AtEdge DEF EnginePart
<1>2. job' = job
  BY EdgeLeaves
<1>3. rxState' = NextRxState(RxEmpty) /\ shifted' = RxShifts(RxEmpty)
      /\ wReady' = (shifted /\ rxState = "ACK")
  BY FifoRegisters
<1>4. ~job.write => rxState' = "IDLE" /\ (Moving' => wEmpty' /\ ~wReady')
  <2> SUFFICES ASSUME ~job.write PROVE rxState' = "IDLE" /\ (Moving' => wEmpty' /\ ~wReady')
    OBVIOUS
  <2>1. rxState = "IDLE" /\ (Moving => wEmpty /\ ~wReady)
    BY <1>1 DEF Gathers
  <2>2. dmaStart => ~scb.write
    BY JobThere
  <2>3. rxState' = "IDLE" /\ ~wReady'
    BY <1>3, <2>1, <2>2 DEF NextRxState
  <2>4. CASE Begins
    BY <2>3, <2>4, BeginEdge
  <2>5. CASE Issues(Acks)
    BY <2>3, <2>5, IssueEdge
  <2>6. CASE ~Begins /\ ~Issues(Acks)
    BY <2>1, <2>3, <2>6, RestEdge DEF Moving
  <2> QED BY <2>4, <2>5, <2>6
<1>5. ~dmaStop' /\ Moving' /\ job.write /\ rxState' = "IDLE" => left' = 0
  <2> SUFFICES ASSUME ~dmaStop', Moving', job.write, rxState' = "IDLE" PROVE left' = 0
    OBVIOUS
  <2>1. ~dmaStop /\ ~scb.start /\ ~scb.stop
    BY StopEdge
  <2>2. ~Begins
    <3> SUFFICES ASSUME Begins PROVE FALSE
      OBVIOUS
    <3>1. dmaStart /\ scb.write /\ rxState = "IDLE"
      BY BeginEdge, JobThere DEF Begins, Quiet
    <3> QED BY <1>3, <2>1, <3>1 DEF NextRxState
  <2>3. Moving
    BY <2>2, RestEdge, IssueEdge DEF Moving
  <2>4. left = 0
    <3>1. CASE rxState = "IDLE"
      BY <1>1, <2>1, <2>3, <3>1 DEF Gathers
    <3>2. CASE rxState = "FIRST"
      BY <1>3, <2>1, <3>2 DEF NextRxState, LastWord
    <3>3. CASE rxState \in {"SECOND", "ACK"}
      BY <1>3, <2>1, <3>3 DEF NextRxState
    <3> QED BY <1>1, <3>1, <3>2, <3>3 DEF FlowTyped
  <2>5. ~Issues(Acks)
    BY <2>4, IssueEdge
  <2> QED BY <2>2, <2>4, <2>5, RestEdge
<1>6. ~dmaStop' /\ rxState' = "FIRST" =>
        ~wReady' /\ ~shifted' /\ (wEmpty' \/ (memState' = "TRANSFER" /\ left' > 0))
  <2> SUFFICES ASSUME ~dmaStop', rxState' = "FIRST"
               PROVE  ~wReady' /\ ~shifted' /\ (wEmpty' \/ (memState' = "TRANSFER" /\ left' > 0))
    OBVIOUS
  <2>1. ~dmaStop /\ ~scb.start /\ ~scb.stop
    BY StopEdge
  <2>2. CASE rxState = "IDLE"
    <3>1. dmaStart
      BY <1>3, <2>1, <2>2 DEF NextRxState
    <3>2. wEmpty' = TRUE
      BY <1>1, <3>1, BeginEdge DEF Commands, Quiet, Begins
    <3> QED BY <1>3, <2>2, <3>2 DEF RxShifts
  <2>3. CASE rxState = "FIRST"
    <3>1. ~RxShifts(RxEmpty)
      BY <1>3, <2>1, <2>3 DEF NextRxState
    <3>2. ~wReady /\ (wEmpty \/ (memState = "TRANSFER" /\ left > 0))
      BY <1>1, <2>1, <2>3 DEF Gathers
    <3>3. wEmpty' \/ (memState' = "TRANSFER" /\ left' > 0)
      <4>1. CASE Begins
        BY <4>1, BeginEdge
      <4>2. CASE Issues(Acks)
        BY <4>2, IssueEdge
      <4>3. CASE wEmpty /\ ~Begins /\ ~Issues(Acks)
        BY <3>2, <4>3, RestEdge
      <4>4. CASE ~wEmpty /\ ~Begins /\ ~Issues(Acks)
        BY <2>1, <3>2, <4>4, WaitsItsTurn DEF Moving, DataWaiting
      <4> QED BY <4>1, <4>2, <4>3, <4>4
    <3> QED BY <1>3, <2>3, <3>1, <3>3
  <2>4. CASE rxState = "ACK"
    <3>1. wReady
      BY <1>3, <2>1, <2>4 DEF NextRxState
    <3>2. ~shifted /\ left > 0 /\ Moving
      BY <1>1, <2>1, <2>4, <3>1 DEF Gathers
    <3>3. wEmpty' \/ (memState' = "TRANSFER" /\ left' > 0)
      <4>1. CASE Issues(Acks)
        BY <4>1, IssueEdge
      <4>2. CASE ~Issues(Acks)
        BY <2>1, <3>1, <3>2, <4>2, WaitsItsTurn DEF DataWaiting
      <4> QED BY <4>1, <4>2
    <3> QED BY <1>3, <2>4, <3>2, <3>3 DEF RxShifts
  <2>5. CASE rxState = "SECOND"
    BY <1>3, <2>1, <2>5 DEF NextRxState
  <2> QED BY <1>1, <2>2, <2>3, <2>4, <2>5 DEF FlowTyped
<1>7. ~dmaStop' /\ rxState' = "SECOND" =>
        /\ ~wReady' /\ wEmpty' /\ left' > 0 /\ Moving'
        /\ WordLanes' = High => shifted'
  <2> SUFFICES ASSUME ~dmaStop', rxState' = "SECOND"
               PROVE  /\ ~wReady' /\ wEmpty' /\ left' > 0 /\ Moving'
                      /\ WordLanes' = High => shifted'
    OBVIOUS
  <2>1. ~dmaStop /\ ~scb.start /\ ~scb.stop
    BY StopEdge
  <2>2. CASE rxState = "FIRST"
    <3>1. ~LastWord /\ RxShifts(RxEmpty)
      BY <1>3, <2>1, <2>2 DEF NextRxState
    <3>2. wEmpty
      BY <2>1, <2>2, <3>1, FirstShifts
    <3>3. left > 0 /\ left' = left /\ wEmpty' /\ Moving'
      BY <2>1, <2>2, <3>1, <3>2, GatherRest
    <3> QED BY <1>3, <2>2, <3>1, <3>3
  <2>3. CASE rxState = "SECOND"
    <3>1. ~RxShifts(RxEmpty)
      BY <1>3, <2>1, <2>3 DEF NextRxState
    <3>2. left > 0 /\ left' = left /\ wEmpty' /\ Moving' /\ ~Begins /\ ~Issues(Acks)
      BY <2>1, <2>3, GatherRest
    <3>3. WordLanes' = WordLanes
      BY <3>2, RestEdge
    <3>4. High' = High /\ ~High[2]
      BY DEF High
    <3>5. WordLanes # High
      BY <2>3, <3>1, <3>4 DEF RxShifts
    <3> QED BY <1>3, <2>3, <3>2, <3>3, <3>4, <3>5
  <2>4. CASE rxState \in {"IDLE", "ACK"}
    BY <1>3, <2>1, <2>4 DEF NextRxState
  <2> QED BY <1>1, <2>2, <2>3, <2>4 DEF FlowTyped
<1>8. ~dmaStop' /\ rxState' = "ACK" => wReady' = ~shifted' /\ wEmpty' /\ left' > 0 /\ Moving'
  <2> SUFFICES ASSUME ~dmaStop', rxState' = "ACK"
               PROVE  wReady' = ~shifted' /\ wEmpty' /\ left' > 0 /\ Moving'
    OBVIOUS
  <2>1. ~dmaStop /\ ~scb.start /\ ~scb.stop
    BY StopEdge
  <2>2. CASE rxState = "SECOND"
    <3>1. RxShifts(RxEmpty)
      BY <1>3, <2>1, <2>2 DEF NextRxState
    <3>2. left > 0 /\ left' = left /\ wEmpty' /\ Moving'
      BY <2>1, <2>2, GatherRest
    <3> QED BY <1>3, <2>2, <3>1, <3>2
  <2>3. CASE rxState = "ACK"
    <3>1. ~wReady
      BY <1>3, <2>1, <2>3 DEF NextRxState
    <3>2. left > 0 /\ left' = left /\ wEmpty' /\ Moving'
      BY <2>1, <2>3, <3>1, GatherRest
    <3>3. shifted
      BY <1>1, <2>1, <2>3, <3>1 DEF Gathers, FlowTyped
    <3>4. wReady' = TRUE /\ shifted' = FALSE
      BY <1>3, <2>3, <3>3 DEF RxShifts
    <3> QED BY <3>2, <3>4
  <2>4. CASE rxState \in {"IDLE", "FIRST"}
    BY <1>3, <2>1, <2>4 DEF NextRxState
  <2> QED BY <1>1, <2>2, <2>3, <2>4 DEF FlowTyped
<1> QED BY <1>2, <1>4, <1>5, <1>6, <1>7, <1>8 DEF Gathers

\* The lanes the FIFO fills are those that go on the bus, except that a word of
\* one byte goes up first when the job begins and ends in it.
LEMMA LanesAgree ==
  /\ LaneCount(WordLanes) = LaneCount(NextLanes)
  /\ LaneCount(WordLanes) = (IF WordLanes[1] THEN 1 ELSE 0) + (IF WordLanes[2] THEN 1 ELSE 0)
  /\ WordLanes[1] \in BOOLEAN /\ WordLanes[2] \in BOOLEAN
  /\ NextLanes[1] \in BOOLEAN /\ NextLanes[2] \in BOOLEAN
  /\ NextLanes[1] => WordLanes[1]
  /\ WordLanes[2] /\ NextLanes[2] => (NextLanes[1] <=> WordLanes[1])
  /\ ~WordLanes[2] => WordLanes = High /\ WordLanes[1]
  /\ ~WordLanes[1] => oddStart
  /\ ~WordLanes[2] /\ NextLanes[2] => ~NextLanes[1]
<1>1. Both[1] = TRUE /\ Both[2] = TRUE /\ High[1] = TRUE /\ High[2] = FALSE
      /\ Low[1] = FALSE /\ Low[2] = TRUE
  BY DEF Both, High, Low
<1>2. WordLanes \in {Both, High, Low} /\ NextLanes \in {Both, High, Low}
  BY DEF WordLanes, NextLanes
<1>3. LaneCount(Both) = 2 /\ LaneCount(High) = 1 /\ LaneCount(Low) = 1
  BY <1>1 DEF LaneCount
<1>4. CASE oddStart
  BY <1>1, <1>3, <1>4 DEF WordLanes, NextLanes, LaneCount
<1>5. CASE ~oddStart
  <2>1. WordLanes = NextLanes
    BY <1>5 DEF WordLanes, NextLanes
  <2>2. WordLanes # Low
    BY <1>1, <1>5 DEF WordLanes
  <2> QED BY <1>1, <1>2, <1>3, <2>1, <2>2 DEF LaneCount
<1> QED BY <1>4, <1>5

\* The byte that comes out of the FIFO is the next one the job has to take.
LEMMA NextTaken ==
  ASSUME PathInv, FlowInv, ~dmaStop, ~scb.stop, ~scb.start, Reads
  PROVE  /\ ctl = "run" /\ job.write /\ first + job.length = taken + 1
         /\ Head(rxFifo) = taken - ToGather + 1
<1>1. Commands /\ Gathers /\ FlowTyped /\ BytesTyped /\ UpstreamOk
  BY AtEdge DEF EnginePart, FlowInv
<1>2. rxState # "IDLE" /\ rxFifo # <<>>
  BY DEF Reads, RxReads, RxEmpty
<1>3. job.write /\ busy
  BY <1>1, <1>2, JobThere DEF Gathers
<1>4. ctl = "run"
  BY <1>1, <1>3 DEF Commands, FlowTyped
<1>5. first + job.length = taken + 1
  BY <1>1, <1>3, <1>4 DEF Commands, DmaReady
<1>6. Upstream # <<>> /\ Head(rxFifo) = Head(Upstream) /\ Upstream \in Seq(Bytes) /\ Len(Upstream) \in Nat
  BY <1>1, <1>2, OldestTaken, WaysTyped
<1>7. Head(Upstream) = Upstream[1] /\ 1 \in 1 .. Len(Upstream)
  BY <1>6, EmptySeq
<1>8. Upstream[1] = taken - ToGather + 1
  BY <1>1, <1>4, <1>7 DEF UpstreamOk
<1> QED BY <1>3, <1>4, <1>5, <1>6, <1>7, <1>8

\* The bytes the machine at the FIFO puts together are those the next word has
\* to have, whatever lane comes first (memory_dma.sv:205-269).
LEMMA GatheredAtEdge ==
  ASSUME PathInv, FlowInv, NEW now \in BOOLEAN, Tick(now)
  PROVE  GatheredOk'
<1>1. Gathers /\ GatheredOk /\ Commands /\ Requests /\ FlowTyped /\ EngineTyped /\ BytesTyped
  BY AtEdge DEF EnginePart
<1>2. UNCHANGED <<job, first, taken>>
  BY EdgeLeaves
<1>3. rxState' = NextRxState(RxEmpty) /\ shifted' = RxShifts(RxEmpty)
      /\ wBuf' = Gathered /\ rxOut' = (IF Reads THEN Head(rxFifo) ELSE rxOut)
  BY FifoRegisters
<1>4. Gathered' = IF shifted' THEN <<Gathered[2], rxOut'>> ELSE Gathered
  BY <1>3 DEF Gathered
<1>5. /\ left \in Nat /\ End \in Nat /\ first \in Nat /\ taken \in Nat
      /\ job.address \in Nat /\ job.length \in Nat
      /\ (job # NoJob => End = job.address + job.length)
  BY AtEdge
<1>6. NextByte \in Int
  BY <1>5 DEF NextByte
<1>7. ASSUME job # NoJob, first + job.length = taken + 1
      PROVE  /\ taken - left + 1 = Due(NextByte)
             /\ taken - (left - 1) + 1 = Due(NextByte + 1)
  <2>1. End = job.address + job.length
    BY <1>5, <1>7
  <2> QED BY <1>5, <1>7, <2>1 DEF Due, NextByte
<1>8. ~dmaStop' /\ rxState' = "SECOND" /\ WordLanes'[1] => Gathered'[2] = Due(NextByte)'
  <2> SUFFICES ASSUME ~dmaStop', rxState' = "SECOND", WordLanes'[1]
               PROVE  Gathered'[2] = Due(NextByte)'
    OBVIOUS
  <2>1. ~dmaStop /\ ~scb.start /\ ~scb.stop
    BY StopEdge
  <2>2. CASE rxState = "FIRST"
    <3>1. ~LastWord /\ RxShifts(RxEmpty)
      BY <1>3, <2>1, <2>2 DEF NextRxState
    <3>2. wEmpty
      BY <2>1, <2>2, <3>1, FirstShifts
    <3>3. ~Begins /\ ~Issues(Acks)
      BY <2>1, <2>2, <3>1, <3>2, GatherRest
    <3>4. NextByte' = NextByte /\ WordLanes' = WordLanes
      BY <3>3, RestEdge
    <3>5. Reads
      BY <2>2, <2>1, <3>1, <3>2, <3>4 DEF RxShifts, Reads, RxReads
    <3>6. Head(rxFifo) = taken - ToGather + 1 /\ first + job.length = taken + 1 /\ job.write
      BY <2>1, <3>5, NextTaken
    <3>7. ToGather = left
      <4>1. ~scb.start /\ ~dmaStart
        BY <1>1, <2>1, <2>2 DEF Commands, Quiet
      <4> QED BY <2>2, <3>2, <3>6, <4>1 DEF ToGather
    <3>8. Gathered'[2] = taken - left + 1
      BY <1>3, <1>4, <3>1, <3>5, <3>6, <3>7
    <3>9. job # NoJob
      BY <3>6 DEF NoJob
    <3>10. Due(NextByte)' = Due(NextByte)
      BY <1>2, <3>4 DEF Due
    <3> QED BY <1>7, <3>6, <3>8, <3>9, <3>10
  <2>3. CASE rxState = "SECOND"
    <3>1. ~RxShifts(RxEmpty)
      BY <1>3, <2>1, <2>3 DEF NextRxState
    <3>2. ~Begins /\ ~Issues(Acks)
      BY <2>1, <2>3, GatherRest
    <3>3. NextByte' = NextByte /\ WordLanes' = WordLanes
      BY <3>2, RestEdge
    <3>4. Due(NextByte)' = Due(NextByte)
      BY <1>2, <3>3 DEF Due
    <3>5. Gathered' = Gathered
      BY <1>3, <1>4, <3>1
    <3> QED BY <1>1, <2>1, <2>3, <3>3, <3>4, <3>5 DEF GatheredOk
  <2>4. CASE rxState \in {"IDLE", "ACK"}
    BY <1>3, <2>1, <2>4 DEF NextRxState
  <2> QED BY <1>1, <2>2, <2>3, <2>4 DEF FlowTyped
<1>9. ASSUME ~dmaStop', rxState' = "ACK" \/ (rxState' = "FIRST" /\ ~wEmpty')
       PROVE  /\ NextLanes'[1] => Gathered'[1] = Due(NextByte)'
              /\ NextLanes'[2] => Gathered'[2] = Due(NextByte + IF NextLanes[1] THEN 1 ELSE 0)'
  <2>1. ~dmaStop /\ ~scb.start /\ ~scb.stop
    BY <1>9, StopEdge
  <2>2. ASSUME ~Begins, ~Issues(Acks)
        PROVE  /\ NextLanes' = NextLanes /\ NextByte' = NextByte /\ Due(NextByte)' = Due(NextByte)
               /\ Due(NextByte + IF NextLanes[1] THEN 1 ELSE 0)'
                    = Due(NextByte + IF NextLanes[1] THEN 1 ELSE 0)
               /\ wEmpty' = (wEmpty /\ ~wReady)
    <3>1. NextLanes' = NextLanes /\ NextByte' = NextByte /\ wEmpty' = (wEmpty /\ ~wReady)
      BY <2>2, RestEdge
    <3> QED BY <1>2, <3>1 DEF Due
  <2>3. CASE rxState = "SECOND"
    <3>1. RxShifts(RxEmpty)
      BY <1>3, <1>9, <2>1, <2>3 DEF NextRxState
    <3>2. ~Begins /\ ~Issues(Acks)
      BY <2>1, <2>3, GatherRest
    <3>3. Gathered'[1] = Gathered[2] /\ Gathered'[2] = rxOut'
      BY <1>3, <1>4, <3>1
    <3>4. WordLanes[1] => Gathered[2] = Due(NextByte)
      BY <1>1, <2>1, <2>3 DEF GatheredOk
    <3>5. NextLanes[1] => Gathered'[1] = Due(NextByte)
      BY <3>3, <3>4, LanesAgree
    <3>6. NextLanes[2] => Gathered'[2] = Due(NextByte + IF NextLanes[1] THEN 1 ELSE 0)
      <4>1. CASE WordLanes[2] /\ NextLanes[2]
        <5>1. Reads
          BY <2>3, <3>1, <4>1 DEF RxShifts, Reads, RxReads
        <5>2. /\ Head(rxFifo) = taken - ToGather + 1 /\ first + job.length = taken + 1
              /\ job.write
          BY <2>1, <5>1, NextTaken
        <5>3. ToGather = left - IF WordLanes[1] THEN 1 ELSE 0
          <6>1. ~scb.start /\ ~dmaStart
            BY <1>1, <2>1, <2>3 DEF Commands, Quiet
          <6> QED BY <2>3, <5>2, <6>1 DEF ToGather
        <5>4. job # NoJob
          BY <5>2 DEF NoJob
        <5>5. rxOut' = Head(rxFifo)
          BY <1>3, <5>1
        <5>6. NextLanes[1] <=> WordLanes[1]
          BY <4>1, LanesAgree
        <5>7. CASE NextLanes[1]
          <6>1. ToGather = left - 1
            BY <5>3, <5>6, <5>7
          <6>2. rxOut' = Due(NextByte + 1)
            BY <1>7, <5>2, <5>4, <5>5, <6>1
          <6> QED BY <3>3, <5>7, <6>2
        <5>8. CASE ~NextLanes[1]
          <6>1. ToGather = left
            BY <1>5, <5>3, <5>6, <5>8
          <6>2. rxOut' = Due(NextByte)
            BY <1>7, <5>2, <5>4, <5>5, <6>1
          <6>3. NextByte + 0 = NextByte
            BY <1>6
          <6> QED BY <3>3, <5>8, <6>2, <6>3
        <5> QED BY <5>7, <5>8
      <4>2. CASE ~WordLanes[2] /\ NextLanes[2]
        <5>1. ~Reads
          BY <2>3, <4>2 DEF Reads, RxReads
        <5>2. WordLanes = High /\ WordLanes[1] /\ ~NextLanes[1]
          BY <4>2, LanesAgree
        <5>3. shifted
          BY <1>1, <2>1, <2>3, <5>2 DEF Gathers
        <5>4. Gathered[2] = rxOut /\ rxOut' = rxOut
          BY <1>3, <5>1, <5>3 DEF Gathered
        <5>5. NextByte + 0 = NextByte
          BY <1>6
        <5> QED BY <3>3, <3>4, <5>2, <5>4, <5>5
      <4> QED BY <4>1, <4>2, LanesAgree
    <3> QED BY <2>2, <3>2, <3>5, <3>6
  <2>4. ASSUME rxState = "ACK" \/ (rxState = "FIRST" /\ ~wEmpty),
               ~Begins, ~Issues(Acks), ~shifted'
        PROVE  /\ NextLanes'[1] => Gathered'[1] = Due(NextByte)'
               /\ NextLanes'[2] => Gathered'[2] = Due(NextByte + IF NextLanes[1] THEN 1 ELSE 0)'
    <3>1. Gathered' = Gathered
      BY <1>4, <2>4
    <3>2. /\ NextLanes[1] => Gathered[1] = Due(NextByte)
          /\ NextLanes[2] => Gathered[2] = Due(NextByte + IF NextLanes[1] THEN 1 ELSE 0)
      BY <1>1, <2>1, <2>4 DEF GatheredOk
    <3> QED BY <2>2, <2>4, <3>1, <3>2
  <2>5. CASE rxState = "ACK"
    <3>1. ~shifted'
      BY <1>3, <2>5 DEF RxShifts
    <3>2. ~Begins
      BY <1>1, <2>5 DEF Begins, Commands, Quiet
    <3>3. ~Issues(Acks)
      <4>1. CASE rxState' = "ACK"
        <5>1. ~wReady
          BY <1>3, <2>1, <2>5, <4>1 DEF NextRxState
        <5> QED BY <2>1, <2>5, <5>1, GatherRest
      <4>2. CASE ~wEmpty'
        BY <4>2, IssueEdge
      <4> QED BY <1>9, <4>1, <4>2
    <3> QED BY <2>4, <2>5, <3>1, <3>2, <3>3
  <2>6. CASE rxState = "FIRST"
    <3>1. rxState' = "FIRST" /\ ~wEmpty'
      BY <1>3, <1>9, <2>1, <2>6 DEF NextRxState
    <3>2. ~Begins /\ ~Issues(Acks)
      BY <3>1, BeginEdge, IssueEdge
    <3>3. ~wEmpty
      BY <1>1, <2>1, <2>2, <2>6, <3>1, <3>2 DEF Gathers
    <3>4. ~shifted'
      BY <1>3, <2>1, <2>6, <3>1 DEF NextRxState
    <3> QED BY <2>4, <2>6, <3>2, <3>3, <3>4
  <2>7. CASE rxState = "IDLE"
    <3>1. dmaStart /\ rxState' = "FIRST"
      BY <1>3, <1>9, <2>1, <2>7 DEF NextRxState
    <3>2. Begins
      BY <1>1, <3>1 DEF Begins, Commands, Quiet
    <3>3. wEmpty' = TRUE
      BY <3>2, BeginEdge
    <3> QED BY <1>9, <3>1, <3>3
  <2> QED BY <1>1, <2>3, <2>5, <2>6, <2>7 DEF FlowTyped
<1> QED BY <1>8, <1>9 DEF GatheredOk

\* Each byte taken from the FIFO is one less the job has to take.
LEMMA GatherCounts ==
  ASSUME PathInv, FlowInv, NEW now \in BOOLEAN, Tick(now),
         ctl = "run" \/ (ctl = "flushing" /\ ~flushBusy)
  PROVE  ToGather' = ToGather - (IF Reads THEN 1 ELSE 0) /\ ToGather \in Int
<1>1. Gathers /\ Commands /\ Requests /\ FlowTyped /\ EngineTyped /\ Handshake
  BY AtEdge DEF EnginePart, FlowInv
<1>2. job' = job
  BY EdgeLeaves
<1>3. rxState' = NextRxState(RxEmpty)
  BY FifoRegisters
<1>4. left \in Nat /\ job.length \in Nat /\ LaneCount(NextLanes) \in {1, 2}
  BY AtEdge
<1>5. ToGather \in Int
  BY <1>4 DEF ToGather
<1>6. ~scb'.start /\ dmaStart' = (scb.start /\ ~scb.stop)
  BY CommandsEnd, EngineEdge
<1>7. CASE ~job.write
  <2>1. rxState = "IDLE"
    BY <1>1, <1>7 DEF Gathers
  <2>2. ~Reads
    BY <2>1 DEF Reads, RxReads
  <2>3. ToGather = 0 /\ ToGather' = 0
    BY <1>2, <1>7 DEF ToGather
  <2>4. (IF Reads THEN 1 ELSE 0) = 0
     BY <2>2
  <2>5. 0 = 0 - 0 /\ 0 \in Int
    OBVIOUS
  <2> QED BY <2>3, <2>4, <2>5, Zenon
<1>8. CASE job.write
  <2>1. job # NoJob
    BY <1>8 DEF NoJob
  <2>2. ctl = "run" /\ ~scb.stop /\ (dmaStop => scb.start) /\ ~dmaStop'
    <3>1. ctl = "run"
      BY <1>1, <2>1 DEF Handshake
    <3>2. ~scb.stop /\ (dmaStop => scb.start)
      BY <1>1, <2>1, <3>1 DEF Commands
    <3>3. dmaStop' = (scb.stop \/ (dmaStop /\ ~scb.start))
      BY FifoRegisters
    <3> QED BY <3>1, <3>2, <3>3
  <2>3. CASE scb.start
    <3>1. Quiet /\ dmaStart'
      BY <1>1, <1>6, <2>3 DEF Commands
    <3>2. ~Reads
      BY <3>1 DEF Quiet, Reads, RxReads
    <3>3. ToGather = job.length /\ ToGather' = job.length
      BY <1>2, <1>8, <2>3, <3>1 DEF ToGather
    <3> QED BY <1>4, <1>5, <3>2, <3>3
  <2>4. CASE dmaStart /\ ~scb.start
    <3>1. Begins /\ Quiet /\ ~dmaStop /\ scb.write
      BY <1>1, <1>8, <2>1, <2>4 DEF Commands, Quiet, Begins
    <3>2. left' = job.length /\ wEmpty' = TRUE
      BY <3>1, BeginEdge
    <3>3. rxState' = "FIRST"
      BY <1>3, <2>4, <3>1 DEF NextRxState, Quiet
    <3>4. ~Reads
      BY <3>1 DEF Quiet, Reads, RxReads
    <3>5. ToGather = job.length
      BY <1>8, <2>4 DEF ToGather
    <3>6. ToGather' = job.length
      BY <1>2, <1>6, <1>8, <2>4, <3>2, <3>3 DEF ToGather
    <3> QED BY <1>4, <1>5, <3>4, <3>5, <3>6
  <2>5. CASE ~dmaStart /\ ~scb.start
    <3>1. ~dmaStop /\ ~Begins /\ ~dmaStart' /\ ~scb'.start
      BY <1>6, <2>2, <2>5 DEF Begins
    <3>2. CASE rxState = "IDLE"
      <4>1. rxState' = "IDLE" /\ ~Reads
        BY <1>3, <2>5, <3>2 DEF NextRxState, Reads, RxReads
      <4>2. ToGather = 0 /\ ToGather' = 0
        BY <1>2, <1>8, <2>5, <3>1, <3>2, <4>1 DEF ToGather
      <4>3. (IF Reads THEN 1 ELSE 0) = 0
         BY <4>1
      <4>4. 0 = 0 - 0 /\ 0 \in Int
        OBVIOUS
      <4> QED BY <4>2, <4>3, <4>4, Zenon
    <3>3. CASE rxState = "FIRST" /\ wEmpty /\ LastWord
      <4>1. rxState' = "IDLE" /\ ~Reads
        BY <1>3, <3>1, <3>3 DEF NextRxState, Reads, RxReads
      <4>2. ToGather' = 0
        BY <1>2, <1>8, <3>1, <4>1 DEF ToGather
      <4>3. ToGather = 0
        BY <1>8, <2>5, <3>3 DEF ToGather, LastWord
      <4>4. (IF Reads THEN 1 ELSE 0) = 0
         BY <4>1
      <4>5. 0 = 0 - 0 /\ 0 \in Int
        OBVIOUS
      <4> QED BY <4>2, <4>3, <4>4, <4>5, Zenon
    <3>4. CASE rxState = "FIRST" /\ wEmpty /\ ~LastWord
      <4>1. ~Issues(Acks) /\ left' = left /\ wEmpty' = TRUE
        BY <2>2, <2>5, <3>1, <3>4, GatherRest
      <4>2. WordLanes' = WordLanes
        BY <3>1, <4>1, RestEdge
      <4>3. ToGather = left
        BY <1>8, <2>5, <3>4 DEF ToGather
      <4>4. CASE RxShifts(RxEmpty)
        <5>1. rxState' = "SECOND"
          BY <1>3, <3>1, <3>4, <4>4 DEF NextRxState
        <5>2. Reads <=> WordLanes[1]
          BY <3>4, <4>4 DEF RxShifts, Reads, RxReads
        <5>3. ToGather' = left' - IF WordLanes'[1] THEN 1 ELSE 0
          BY <1>2, <1>8, <3>1, <5>1 DEF ToGather
        <5> QED BY <1>4, <1>5, <4>1, <4>2, <4>3, <5>2, <5>3
      <4>5. CASE ~RxShifts(RxEmpty)
        <5>1. rxState' = "FIRST"
          BY <1>3, <3>1, <3>4, <4>5 DEF NextRxState
        <5>2. ~Reads
          BY <3>4, <4>5 DEF RxShifts, Reads, RxReads
        <5>3. ToGather' = left'
          BY <1>2, <1>8, <3>1, <4>1, <5>1 DEF ToGather
        <5> QED BY <1>4, <1>5, <4>1, <4>3, <5>2, <5>3
      <4> QED BY <4>4, <4>5
    <3>5. CASE rxState = "FIRST" /\ ~wEmpty
      <4>1. memState = "TRANSFER" /\ left > 0 /\ ~oddStart /\ ~wReady
        BY <1>1, <3>1, <3>5 DEF Gathers, Requests
      <4>2. ~Reads /\ ~RxShifts(RxEmpty) /\ ~LastWord
        <5>1. WordLanes[1]
          BY <4>1, LanesAgree
        <5> QED BY <1>4, <3>5, <4>1, <5>1 DEF RxShifts, Reads, RxReads, LastWord
      <4>3. rxState' = "FIRST"
        BY <1>3, <3>1, <3>5, <4>2 DEF NextRxState
      <4>4. ToGather = left - LaneCount(NextLanes)
        BY <1>8, <2>5, <3>5 DEF ToGather
      <4>5. CASE Issues(Acks)
        <5>1. wEmpty' = TRUE /\ left' = left - LaneCount(NextLanes)
          BY <4>5, IssueEdge
        <5>2. ToGather' = left'
          BY <1>2, <1>8, <3>1, <4>3, <5>1 DEF ToGather
        <5> QED BY <1>5, <4>2, <4>4, <5>1, <5>2
      <4>6. CASE ~Issues(Acks)
        <5>1. wEmpty' = FALSE /\ left' = left /\ NextLanes' = NextLanes
          BY <3>1, <3>5, <4>6, RestEdge
        <5>2. ToGather' = left' - LaneCount(NextLanes)'
          BY <1>2, <1>8, <3>1, <4>3, <5>1 DEF ToGather
        <5>3. LaneCount(NextLanes)' = LaneCount(NextLanes)
          BY <5>1 DEF LaneCount
        <5> QED BY <1>5, <4>2, <4>4, <5>1, <5>2, <5>3
      <4> QED BY <4>5, <4>6
    <3>6. CASE rxState = "SECOND"
      <4>1. ~Issues(Acks) /\ left' = left
        BY <2>2, <2>5, <3>1, <3>6, GatherRest
      <4>2. WordLanes' = WordLanes /\ NextLanes' = NextLanes
        BY <3>1, <4>1, RestEdge
      <4>3. ToGather = left - IF WordLanes[1] THEN 1 ELSE 0
        BY <1>8, <2>5, <3>6 DEF ToGather
      <4>4. CASE RxShifts(RxEmpty)
        <5>1. rxState' = "ACK"
          BY <1>3, <3>1, <3>6, <4>4 DEF NextRxState
        <5>2. Reads <=> WordLanes[2]
          BY <3>6, <4>4 DEF RxShifts, Reads, RxReads
        <5>3. ToGather' = left' - LaneCount(NextLanes)'
          BY <1>2, <1>8, <3>1, <5>1 DEF ToGather
        <5>4. LaneCount(NextLanes)' = LaneCount(NextLanes)
          BY <4>2 DEF LaneCount
        <5>5. LaneCount(NextLanes)
                = (IF WordLanes[1] THEN 1 ELSE 0) + (IF WordLanes[2] THEN 1 ELSE 0)
          BY LanesAgree
        <5> QED BY <1>4, <1>5, <4>1, <4>3, <5>2, <5>3, <5>4, <5>5
      <4>5. CASE ~RxShifts(RxEmpty)
        <5>1. rxState' = "SECOND"
          BY <1>3, <3>1, <3>6, <4>5 DEF NextRxState
        <5>2. ~Reads
          BY <3>6, <4>5 DEF RxShifts, Reads, RxReads
        <5>3. ToGather' = left' - IF WordLanes'[1] THEN 1 ELSE 0
          BY <1>2, <1>8, <3>1, <5>1 DEF ToGather
        <5> QED BY <1>4, <1>5, <4>1, <4>2, <4>3, <5>2, <5>3
      <4> QED BY <4>4, <4>5
    <3>7. CASE rxState = "ACK"
      <4>1. ~Reads
        BY <3>7 DEF Reads, RxReads
      <4>2. ToGather = left - LaneCount(NextLanes)
        BY <1>8, <2>5, <3>7 DEF ToGather
      <4>3. CASE ~wReady
        <5>1. ~Issues(Acks) /\ left' = left
          BY <2>2, <2>5, <3>1, <3>7, <4>3, GatherRest
        <5>2. NextLanes' = NextLanes
          BY <3>1, <5>1, RestEdge
        <5>3. rxState' = "ACK"
          BY <1>3, <3>1, <3>7, <4>3 DEF NextRxState
        <5>4. ToGather' = left' - LaneCount(NextLanes)'
          BY <1>2, <1>8, <3>1, <5>3 DEF ToGather
        <5>5. LaneCount(NextLanes)' = LaneCount(NextLanes)
          BY <5>2 DEF LaneCount
        <5> QED BY <1>5, <4>1, <4>2, <5>1, <5>4, <5>5
      <4>4. CASE wReady
        <5>1. rxState' = "FIRST"
          BY <1>3, <3>1, <3>7, <4>4 DEF NextRxState
        <5>2. CASE Issues(Acks)
          <6>1. wEmpty' = TRUE /\ left' = left - LaneCount(NextLanes)
            BY <5>2, IssueEdge
          <6>2. ToGather' = left'
            BY <1>2, <1>8, <3>1, <5>1, <6>1 DEF ToGather
          <6> QED BY <1>5, <4>1, <4>2, <6>1, <6>2
        <5>3. CASE ~Issues(Acks)
          <6>1. wEmpty' = FALSE /\ left' = left /\ NextLanes' = NextLanes
            BY <3>1, <4>4, <5>3, RestEdge
          <6>2. ToGather' = left' - LaneCount(NextLanes)'
            BY <1>2, <1>8, <3>1, <5>1, <6>1 DEF ToGather
          <6>3. LaneCount(NextLanes)' = LaneCount(NextLanes)
            BY <6>1 DEF LaneCount
          <6> QED BY <1>5, <4>1, <4>2, <6>1, <6>2, <6>3
        <5> QED BY <5>2, <5>3
      <4> QED BY <4>3, <4>4
    <3> QED BY <1>1, <3>2, <3>3, <3>4, <3>5, <3>6, <3>7 DEF FlowTyped
  <2> QED BY <2>3, <2>4, <2>5
<1> QED BY <1>5, <1>7, <1>8

\* The engine takes the bytes of the host in their order (memory_dma.sv:205-269).
LEMMA UpstreamAtEdge ==
  ASSUME PathInv, FlowInv, NEW now \in BOOLEAN, Tick(now)
  PROVE  UpstreamOk'
<1>1. UpstreamOk /\ FlowTyped /\ BytesTyped
  BY AtEdge DEF FlowInv
<1>2. UNCHANGED <<rxFailed, rxByte, toDev, ctl, flushBusy, host, sent, taken>>
  BY EdgeLeaves
<1> SUFFICES ASSUME ctl = "run" \/ (ctl = "flushing" /\ ~flushBusy)
             PROVE  /\ \A i \in 1 .. Len(Upstream') : Upstream'[i] = taken - ToGather' + i
                    /\ host = "up" => Len(Upstream') = sent - taken + ToGather'
  BY <1>2 DEF UpstreamOk
<1>3. ToGather' = ToGather - (IF Reads THEN 1 ELSE 0) /\ ToGather \in Int
  BY GatherCounts
<1>4. /\ \A i \in 1 .. Len(Upstream) : Upstream[i] = taken - ToGather + i
      /\ host = "up" => Len(Upstream) = sent - taken + ToGather
  BY <1>1 DEF UpstreamOk
<1>5. Upstream \in Seq(Bytes) /\ Len(Upstream) \in Nat /\ taken \in Nat /\ sent \in Nat
  BY <1>1, AtEdge, WaysTyped
<1>6. CASE ~Reads
  <2>1. rxFifo' = rxFifo
    BY <1>6, FifoRegisters
  <2>2. Upstream' = Upstream
    BY <1>2, <2>1 DEF Upstream, RxHeld
  <2>3. ToGather' = ToGather
    BY <1>3, <1>6
  <2> QED BY <1>4, <2>2, <2>3
<1>7. CASE Reads
  <2>1. rxFifo' = Tail(rxFifo) /\ rxFifo # <<>>
    BY <1>7, FifoRegisters DEF Reads, RxReads, RxEmpty
  <2>2. Upstream' = Tail(rxFifo) \o RxHeld \o toDev
    BY <1>2, <2>1 DEF Upstream, RxHeld
  <2>3. Upstream' = Tail(Upstream) /\ Upstream # <<>>
    BY <1>1, <2>1, <2>2, OldestTaken
  <2> DEFINE u == Upstream
             u1 == Tail(Upstream)
             g == ToGather
  <2>4. Len(u1) = Len(u) - 1 /\ \A i \in 1 .. Len(u1) : u1[i] = u[i + 1]
    BY <1>5, <2>3, EmptySeq
  <2>5. ToGather' = g - 1 /\ g \in Int
    BY <1>3, <1>7
  <2> HIDE DEF u, g
  <2>6. ASSUME NEW i \in 1 .. Len(u1) PROVE u1[i] = taken - (g - 1) + i
    <3>1. i + 1 \in 1 .. Len(u) /\ i \in Nat
      BY <1>5, <2>4 DEF u
    <3>2. u[i + 1] = taken - g + (i + 1)
      BY <1>4, <3>1 DEF u, g
    <3> HIDE DEF u1
    <3> QED BY <1>5, <2>4, <2>5, <3>1, <3>2
  <2>7. host = "up" => Len(u1) = sent - taken + (g - 1)
    <3>1. host = "up" => Len(u) = sent - taken + g
      BY <1>4 DEF u, g
    <3> HIDE DEF u1
    <3> QED BY <1>5, <2>4, <2>5, <3>1
  <2>8. Upstream' = u1
    BY <2>3 DEF u
  <2> HIDE DEF u1
  <2> QED BY <2>5, <2>6, <2>7, <2>8
<1> QED BY <1>6, <1>7

\* Where the word on the bus lies.
LEMMA WordOnBus ==
  ASSUME PathInv, FlowInv, memState = "TRANSFER"
  PROVE  /\ bus.address \in Nat /\ bus.address + 1 < Cells
         /\ BusFirst \in Nat /\ NextByte \in Nat /\ job # NoJob
         /\ job.address <= BusFirst /\ NextByte <= End
         /\ NextByte = BusFirst + LaneCount(bus.mask)
         /\ \/ bus.mask[1] /\ bus.mask[2] /\ BusFirst = bus.address /\ NextByte = bus.address + 2
            \/ bus.mask[1] /\ ~bus.mask[2] /\ BusFirst = bus.address /\ NextByte = bus.address + 1
            \/ ~bus.mask[1] /\ bus.mask[2] /\ BusFirst = bus.address + 1 /\ NextByte = bus.address + 2
<1>1. BusOk /\ Requests
  BY AtEdge DEF EnginePart
<1>2. bus.address \in Nat /\ bus.mask \in {Both, High, Low} /\ left \in Nat /\ End \in Nat
  BY AtEdge
<1>3. bus.address + 1 < Cells
  BY <1>1, Inside DEF WordInside, Requests
<1>4. job # NoJob
  BY JobThere DEF Moving
<1>5. NextByte = BusFirst + LaneCount(bus.mask) /\ BusFirst >= job.address
  BY <1>1 DEF BusOk
<1>6. Both[1] = TRUE /\ Both[2] = TRUE /\ High[1] = TRUE /\ High[2] = FALSE
      /\ Low[1] = FALSE /\ Low[2] = TRUE
  BY DEF Both, High, Low
<1> DEFINE m == bus.mask
           x == bus.address
           f == BusFirst
           n == NextByte
<1>7. m[1] \in BOOLEAN /\ m[2] \in BOOLEAN /\ (m[1] \/ m[2])
  BY <1>2, <1>6
<1>8. f = (x + IF m[1] THEN 0 ELSE 1)
      /\ n = f + ((IF m[1] THEN 1 ELSE 0) + (IF m[2] THEN 1 ELSE 0))
  BY <1>5 DEF BusFirst, LaneCount
<1>9. n <= End
  BY <1>2 DEF NextByte
<1>10. x \in Nat
  BY <1>2
<1> HIDE DEF m, x, f, n
<1>11. /\ f \in Nat /\ n \in Nat
       /\ \/ m[1] /\ m[2] /\ f = x /\ n = x + 2
          \/ m[1] /\ ~m[2] /\ f = x /\ n = x + 1
          \/ ~m[1] /\ m[2] /\ f = x + 1 /\ n = x + 2
  <2>1. CASE m[1] /\ m[2]
    BY <1>8, <1>10, <2>1
  <2>2. CASE m[1] /\ ~m[2]
    BY <1>8, <1>10, <2>2
  <2>3. CASE ~m[1] /\ m[2]
    BY <1>8, <1>10, <2>3
  <2> QED BY <1>7, <2>1, <2>2, <2>3
<1>12. job.address <= f
  <2>1. job.address \in Nat
    BY AtEdge
  <2> QED BY <1>5, <1>11, <2>1 DEF f
<1> QED BY <1>2, <1>3, <1>4, <1>5, <1>9, <1>11, <1>12 DEF m, x, f, n

\* The memory changes where the word on the bus lies, and gets the bytes that
\* belong there.
LEMMA WordWritten ==
  ASSUME PathInv, FlowInv, NEW now \in BOOLEAN, Tick(now)
  PROVE  /\ ~(Acks' /\ job.write) => mem' = mem
         /\ \A a \in 0 .. Cells - 1 :
              mem'[a] = mem[a] \/ (job.write /\ a \in Window /\ mem'[a] = Due(a))
         /\ Acks' /\ job.write =>
              \A a \in Window : BusFirst <= a /\ a < NextByte => mem'[a] = Due(a)
         /\ mem' \in [0 .. Cells - 1 -> Bytes]
<1>1. WrittenOk /\ BusOk /\ FlowTyped /\ EngineTyped
  BY AtEdge DEF EnginePart
<1>2. Acks' => memState = "TRANSFER" /\ bus.write = job.write
  BY <1>1, MemoryEdge DEF BusOk, Moving
<1>3. ~(Acks' /\ job.write) => mem' = mem
  BY <1>2, MemoryEdge
<1>4. mem \in [0 .. Cells - 1 -> Bytes] /\ Cells \in Nat
  BY <1>1, AtEdge DEF FlowTyped
<1>5. ASSUME Acks', job.write
      PROVE  /\ \A a \in 0 .. Cells - 1 :
                  mem'[a] = mem[a] \/ (a \in Window /\ mem'[a] = Due(a))
             /\ \A a \in Window : BusFirst <= a /\ a < NextByte => mem'[a] = Due(a)
             /\ mem' \in [0 .. Cells - 1 -> Bytes]
  <2> DEFINE x == bus.address
             m == bus.mask
             d == bus.wdata
             f == BusFirst
             n == NextByte
  <2>1. /\ x \in Nat /\ x + 1 < Cells /\ f \in Nat /\ n \in Nat /\ job # NoJob
        /\ job.address <= f /\ n <= End
        /\ \/ m[1] /\ m[2] /\ f = x /\ n = x + 2
           \/ m[1] /\ ~m[2] /\ f = x /\ n = x + 1
           \/ ~m[1] /\ m[2] /\ f = x + 1 /\ n = x + 2
    BY <1>2, <1>5, WordOnBus
  <2>2. (m[1] => d[1] = Due(x)) /\ (m[2] => d[2] = Due(x + 1))
    BY <1>1, <1>2, <1>5 DEF WrittenOk
  <2>3. mem' = [mem EXCEPT ![x] = IF m[1] THEN d[1] ELSE @,
                           ![x + 1] = IF m[2] THEN d[2] ELSE @]
    BY <1>2, <1>5, MemoryEdge
  <2>4. job.address \in Nat /\ job.length \in Nat /\ End = job.address + job.length
    BY <2>1, AtEdge
  <2>5. d[1] \in Bytes /\ d[2] \in Bytes
    BY <1>1 DEF EngineTyped
  <2>6. x \in 0 .. Cells - 1 /\ x + 1 \in 0 .. Cells - 1 /\ x # x + 1
    BY <1>4, <2>1
  <2> HIDE DEF x, m, d, f, n
  <2>7. /\ mem' \in [0 .. Cells - 1 -> Bytes]
        /\ mem'[x] = IF m[1] THEN d[1] ELSE mem[x]
        /\ mem'[x + 1] = IF m[2] THEN d[2] ELSE mem[x + 1]
        /\ \A a \in 0 .. Cells - 1 : a # x /\ a # x + 1 => mem'[a] = mem[a]
    BY <1>4, <2>3, <2>5, <2>6
  <2>8. (m[1] => x \in Window) /\ (m[2] => x + 1 \in Window)
    BY <2>1, <2>4 DEF Window
  <2>9. ASSUME NEW a \in 0 .. Cells - 1
        PROVE  mem'[a] = mem[a] \/ (a \in Window /\ mem'[a] = Due(a))
    <3>1. CASE a = x
      BY <2>2, <2>7, <2>8, <3>1
    <3>2. CASE a = x + 1
      BY <2>2, <2>7, <2>8, <3>2
    <3>3. CASE a # x /\ a # x + 1
      BY <2>7, <3>3
    <3> QED BY <3>1, <3>2, <3>3
  <2>10. ASSUME NEW a \in Window, f <= a, a < n PROVE mem'[a] = Due(a)
    <3>1. a \in Int
      BY <2>4 DEF Window
    <3>2. (a = x /\ m[1]) \/ (a = x + 1 /\ m[2])
      BY <2>1, <2>10, <3>1
    <3>3. CASE a = x /\ m[1]
      BY <2>2, <2>7, <3>3
    <3>4. CASE a = x + 1 /\ m[2]
      BY <2>2, <2>7, <3>4
    <3> QED BY <3>2, <3>3, <3>4
  <2> QED BY <2>7, <2>9, <2>10 DEF f, n
<1>6. mem' \in [0 .. Cells - 1 -> Bytes]
  BY <1>3, <1>4, <1>5
<1>7. \A a \in 0 .. Cells - 1 : mem'[a] = mem[a] \/ (job.write /\ a \in Window /\ mem'[a] = Due(a))
  BY <1>3, <1>5
<1> QED BY <1>3, <1>5, <1>6, <1>7

\* A word that goes on the bus holds the bytes that belong to its addresses.
LEMMA WordLoaded ==
  ASSUME PathInv, FlowInv, NEW now \in BOOLEAN, Tick(now), Issues(Acks), job.write
  PROVE  /\ bus'.mask[1] => bus'.wdata[1] = Due(bus'.address)
         /\ bus'.mask[2] => bus'.wdata[2] = Due(bus'.address + 1)
<1>1. Gathers /\ GatheredOk /\ Spreads /\ FlowTyped
  BY AtEdge DEF EnginePart
<1>2. /\ Moving /\ ~dmaStop /\ left > 0 /\ bus'.mask = NextLanes /\ bus'.wdata = wBuf
      /\ bus'.address = (IF NextLanes[1] THEN NextByte ELSE NextByte - 1)
  BY IssueEdge
<1>3. wReady \/ ~wEmpty
  BY <1>1, <1>2 DEF Issues, DataWaiting, Spreads
<1>4. left \in Nat
  BY AtEdge
<1>5. (rxState = "ACK" \/ (rxState = "FIRST" /\ ~wEmpty)) /\ ~shifted
  <2>1. CASE rxState = "IDLE"
    BY <1>1, <1>2, <1>4, <2>1 DEF Gathers
  <2>2. CASE rxState = "FIRST"
    BY <1>1, <1>2, <1>3, <2>2 DEF Gathers
  <2>3. CASE rxState = "SECOND"
    BY <1>1, <1>2, <1>3, <2>3 DEF Gathers
  <2>4. CASE rxState = "ACK"
    BY <1>1, <1>2, <1>3, <2>4 DEF Gathers
  <2> QED BY <1>1, <2>1, <2>2, <2>3, <2>4 DEF FlowTyped
<1>6. Gathered = wBuf
  BY <1>5 DEF Gathered
<1>7. /\ NextLanes[1] => wBuf[1] = Due(NextByte)
      /\ NextLanes[2] => wBuf[2] = Due(NextByte + IF NextLanes[1] THEN 1 ELSE 0)
  BY <1>1, <1>2, <1>5, <1>6 DEF GatheredOk
<1>8. NextByte \in Int
  BY AtEdge DEF NextByte
<1>9. CASE NextLanes[1]
  BY <1>2, <1>7, <1>9
<1>10. CASE ~NextLanes[1]
  <2>1. NextByte + 0 = NextByte /\ NextByte - 1 + 1 = NextByte
    BY <1>8
  <2> QED BY <1>2, <1>7, <1>10, <2>1
<1> QED BY <1>9, <1>10

\* What has been written is what the host sent, and lies in its place
\* (memory_dma.sv:126-172).
LEMMA WrittenAtEdge ==
  ASSUME PathInv, FlowInv, NEW now \in BOOLEAN, Tick(now)
  PROVE  WrittenOk'
<1>1. WrittenOk /\ BusOk /\ FlowTyped /\ EngineTyped
  BY AtEdge DEF EnginePart
<1>2. UNCHANGED <<job, first, before>>
  BY EdgeLeaves
<1>3. Window' = Window
  BY <1>2 DEF Window
<1>4. /\ ~(Acks' /\ job.write) => mem' = mem
      /\ \A a \in 0 .. Cells - 1 :
           mem'[a] = mem[a] \/ (job.write /\ a \in Window /\ mem'[a] = Due(a))
      /\ Acks' /\ job.write =>
           \A a \in Window : BusFirst <= a /\ a < NextByte => mem'[a] = Due(a)
  BY WordWritten
<1>5. /\ left \in Nat /\ End \in Nat /\ End <= Cells /\ Cells \in Nat
      /\ job.address \in Nat /\ job.length \in Nat /\ Acks \in BOOLEAN
      /\ (job # NoJob => End = job.address + job.length)
      /\ memState \in {"IDLE", "WAIT", "TRANSFER"}
  BY AtEdge DEF EngineTyped
<1>6. job.write => job # NoJob
  BY DEF NoJob
<1>7. job.write => Window \subseteq 0 .. Cells - 1
  BY <1>5, <1>6 DEF Window
<1>8. ASSUME NEW a \in Window, job.write, mem[a] = Due(a) PROVE mem'[a] = Due(a)
  BY <1>4, <1>7, <1>8
<1>9. ASSUME NEW a \in 0 .. Cells - 1
      PROVE  \/ mem'[a] = before[a]
             \/ job.write /\ a \in Window /\ mem'[a] = Due(a)
  <2>1. \/ mem[a] = before[a]
        \/ job.write /\ a \in Window /\ mem[a] = Due(a)
    BY <1>1 DEF WrittenOk
  <2> QED BY <1>4, <1>8, <2>1
<1>10. job.write /\ memState' = "TRANSFER" =>
         /\ bus'.mask[1] => bus'.wdata[1] = Due(bus'.address)
         /\ bus'.mask[2] => bus'.wdata[2] = Due(bus'.address + 1)
  <2> SUFFICES ASSUME job.write, memState' = "TRANSFER"
               PROVE  /\ bus'.mask[1] => bus'.wdata[1] = Due(bus'.address)
                      /\ bus'.mask[2] => bus'.wdata[2] = Due(bus'.address + 1)
    OBVIOUS
  <2>1. CASE Issues(Acks)
    BY <2>1, WordLoaded
  <2>2. CASE Begins
    BY <2>2, BeginEdge
  <2>3. CASE ~Issues(Acks) /\ ~Begins
    <3>1. memState = "TRANSFER" /\ bus'.mask = bus.mask /\ bus'.wdata = bus.wdata
          /\ bus'.address = bus.address
      BY <2>3, RestEdge
    <3> QED BY <1>1, <3>1 DEF WrittenOk
  <2> QED BY <2>1, <2>2, <2>3
<1>11. ASSUME job.write, Moving', NEW a \in Window,
              a < (IF memState' = "TRANSFER" /\ ~Acks' THEN BusFirst' ELSE NextByte')
       PROVE  mem'[a] = Due(a)
  <2>1. a \in Int /\ a >= job.address /\ NextByte \in Int
    BY <1>5 DEF Window, NextByte
  <2>2. Moving /\ a < (IF memState = "TRANSFER" /\ ~Acks THEN BusFirst ELSE NextByte)
          => mem[a] = Due(a)
    BY <1>1, <1>11 DEF WrittenOk
  <2>3. CASE Begins
    <3>1. memState' = "WAIT" /\ NextByte' = job.address
      BY <2>3, BeginEdge
    <3> QED BY <1>5, <1>11, <2>1, <3>1
  <2>4. CASE Issues(Acks)
    <3>1. Moving /\ memState' = "TRANSFER" /\ BusFirst' = NextByte
          /\ (memState = "WAIT" \/ (memState = "TRANSFER" /\ Acks))
      BY <2>4, IssueEdge
    <3>2. ~Acks'
      BY <3>1, MemoryEdge
    <3> QED BY <1>8, <1>11, <2>2, <3>1, <3>2
  <2>5. CASE ~Issues(Acks) /\ ~Begins
    <3>1. /\ Moving /\ NextByte' = NextByte /\ (~Acks => BusFirst' = BusFirst)
          /\ memState' = "TRANSFER" <=> memState = "TRANSFER" /\ ~Acks
      BY <1>11, <2>5, RestEdge DEF Moving
    <3>2. CASE Acks'
      <4>1. memState = "TRANSFER" /\ ~Acks
        BY <3>2, MemoryEdge
      <4>2. BusFirst \in Nat
        BY <4>1, WordOnBus
      <4>3. CASE a < BusFirst
        BY <1>8, <1>11, <2>2, <3>1, <4>1, <4>3
      <4>4. CASE ~(a < BusFirst)
        <5>1. BusFirst <= a /\ a < NextByte
          BY <1>11, <2>1, <3>1, <3>2, <4>2, <4>4
        <5> QED BY <1>4, <1>11, <3>2, <5>1
      <4> QED BY <4>3, <4>4
    <3>3. CASE ~Acks'
      BY <1>8, <1>11, <2>2, <3>1, <3>3
    <3> QED BY <3>2, <3>3
  <2> QED BY <2>3, <2>4, <2>5
<1>12. ASSUME job.write, Finished', NEW a \in Window PROVE mem'[a] = Due(a)
  <2>1. left = 0 /\ job # NoJob /\ (Finished \/ (memState = "TRANSFER" /\ Acks))
    BY <1>12, FinishEdge
  <2>2. CASE Finished
    BY <1>1, <1>8, <1>12, <2>2 DEF WrittenOk
  <2>3. CASE memState = "TRANSFER" /\ Acks
    <3>1. a < NextByte
      BY <1>5, <2>1 DEF Window, NextByte
    <3>2. mem[a] = Due(a)
      BY <1>1, <1>12, <2>3, <3>1 DEF WrittenOk, Moving
    <3> QED BY <1>8, <1>12, <3>2
  <2> QED BY <2>1, <2>2, <2>3
<1>13. \A a \in 0 .. Cells - 1 :
         \/ mem'[a] = before'[a]
         \/ job'.write /\ a \in Window' /\ mem'[a] = Due(a)'
  <2> SUFFICES ASSUME NEW a \in 0 .. Cells - 1
               PROVE  \/ mem'[a] = before'[a]
                      \/ job'.write /\ a \in Window' /\ mem'[a] = Due(a)'
    OBVIOUS
  <2>1. Due(a)' = Due(a)
    BY <1>2 DEF Due
  <2> QED BY <1>2, <1>3, <1>9, <2>1
<1> QED BY <1>2, <1>3, <1>10, <1>11, <1>12, <1>13 DEF WrittenOk, Due

-----------------------------------------------------------------------------
(* The clock edge: from the memory to the FIFO.                             *)

\* No word is read while the machine at the FIFO has one to spread.
LEMMA SpreadRest ==
  ASSUME PathInv, FlowInv, NEW now \in BOOLEAN, Tick(now), TxSpreads
  PROVE  /\ ~job.write /\ job # NoJob /\ ~Issues(Acks) /\ ~Begins
         /\ ~rReady /\ (memState' = "TRANSFER" <=> memState = "TRANSFER" /\ ~Acks)
<1>1. Gathers /\ Spreads /\ Commands /\ FlowTyped
  BY AtEdge DEF EnginePart
<1>2. txState # "IDLE"
  BY DEF TxSpreads
<1>3. ~job.write /\ job # NoJob /\ ~rReady
  BY <1>1, <1>2, JobThere DEF Spreads
<1>4. ~Begins
  BY <1>1, <1>2 DEF Begins, Commands, Quiet
<1>5. ~Issues(Acks)
  BY <1>1, <1>3, IssueEdge DEF Gathers, Issues, DataWaiting
<1>6. memState' = "TRANSFER" <=> memState = "TRANSFER" /\ ~Acks
  BY <1>4, <1>5, RestEdge
<1> QED BY <1>3, <1>4, <1>5, <1>6

\* A word that has been read waits for the machine at the FIFO, and no other is
\* read meanwhile.
LEMMA NoneBehind ==
  ASSUME PathInv, FlowInv, Untaken, txState # "IDLE"
  PROVE  ~Acks /\ (TxSpreads \/ txWaiting => memState # "TRANSFER")
<1>1. Spreads
  BY AtEdge DEF EnginePart
<1>2. rAck => ~Acks
  BY <1>1 DEF Spreads, Acks, A!AckOf
<1>3. txWaiting => memState # "TRANSFER"
  BY <1>1 DEF Spreads
<1>4. Acks => memState = "TRANSFER"
  BY AtEdge
<1>5. TxSpreads /\ rAck => memState # "TRANSFER"
  BY <1>1 DEF Spreads
<1> QED BY <1>2, <1>3, <1>4, <1>5 DEF Untaken

\* The engine asks for a word only when there is room for it (memory_dma.sv:
\* 271-344).
LEMMA SpreadsAtEdge ==
  ASSUME PathInv, FlowInv, NEW now \in BOOLEAN, Tick(now)
  PROVE  Spreads'
<1>1. Gathers /\ Spreads /\ Commands /\ Requests /\ FlowTyped /\ EngineTyped /\ left \in Nat
      /\ Acks \in BOOLEAN
  BY AtEdge DEF EnginePart
<1>2. job' = job
  BY EdgeLeaves
<1>3. /\ txState' = NextTxState(TxFull)
      /\ txWaiting' = (IF TxSpreads THEN txWaiting \/ rAck
                       ELSE txWaiting /\ txState = "WAIT" /\ ~TxTakes)
      /\ txValid' = (IF TxTakes THEN rMask
                     ELSE IF TxShifts(TxFull) THEN <<txValid[2], FALSE>> ELSE txValid)
      /\ rReady' = (CASE txState = "IDLE" -> dmaStart /\ ~scb.write
                     [] txState = "WAIT" -> rReady /\ ~TxTakes
                     [] txState = "FIRST" -> rReady
                     [] txState = "SECOND" -> IF TxWrites(TxFull) \/ ~txValid[1]
                                              THEN ~rEnd ELSE rReady)
      /\ rAck' = Acks
      /\ rEnd' = IF memState = "IDLE" THEN ~dmaStart ELSE IF Acks THEN LastWord ELSE rEnd
  BY FifoRegisters
<1>4. rAck' => ~ack'["sdram"]
  <2>1. Acks => ack["sdram"]
    BY DEF Acks, A!AckOf
  <2> QED BY <1>3, <2>1, MemoryEdge
<1>5. ASSUME job.write PROVE txState' = "IDLE" /\ ~rReady'
  <2>1. txState = "IDLE"
    BY <1>1, <1>5 DEF Spreads
  <2>2. dmaStart => scb.write
    BY <1>5, JobThere
  <2> QED BY <1>3, <2>1, <2>2 DEF NextTxState
<1>6. Moving' => ~rEnd'
  <2> SUFFICES ASSUME Moving' PROVE ~rEnd'
    OBVIOUS
  <2>1. CASE Begins
    BY <2>1, BeginEdge
  <2>2. CASE Issues(Acks)
    <3>1. Moving /\ left > 0
      BY <2>2, IssueEdge
    <3>2. ~LastWord
      BY <1>1, <3>1 DEF LastWord
    <3> QED BY <1>1, <1>3, <3>1, <3>2 DEF Spreads, Moving
  <2>3. CASE ~Begins /\ ~Issues(Acks)
    <3>1. Moving
      BY <2>3, RestEdge DEF Moving
    <3>2. Acks => ~LastWord
      <4>1. Acks => memState' = "WAIT"
        <5>1. Acks => memState' # "TRANSFER"
          BY <2>3, RestEdge
        <5>2. memState' \in {"IDLE", "WAIT", "TRANSFER"}
          BY <1>1, BusMoves, EngineEdge, AtEdge
        <5> QED BY <5>1, <5>2 DEF Moving
      <4>2. Acks => left > 0
        BY <2>3, <4>1, RestEdge
      <4> QED BY <1>1, <4>2 DEF LastWord
    <3> QED BY <1>1, <1>3, <3>1, <3>2 DEF Spreads, Moving
  <2> QED BY <2>1, <2>2, <2>3
<1>7. ASSUME ~dmaStop', Moving', ~job.write PROVE txState' # "IDLE"
  <2>1. ~dmaStop /\ ~scb.start /\ ~scb.stop
    BY <1>7, StopEdge
  <2>2. CASE Begins
    <3>1. dmaStart /\ ~scb.write /\ txState = "IDLE"
      BY <1>7, <2>2, BeginEdge, JobThere DEF Begins, Quiet
    <3> QED BY <1>3, <2>1, <3>1 DEF NextTxState
  <2>3. CASE ~Begins
    <3>1. Moving
      BY <1>7, <2>3, RestEdge, IssueEdge DEF Moving
    <3>2. ~rEnd /\ txState # "IDLE"
      BY <1>1, <1>7, <2>1, <3>1 DEF Spreads
    <3> QED BY <1>1, <1>3, <2>1, <3>2 DEF NextTxState, FlowTyped
  <2> QED BY <2>2, <2>3
<1>8. ASSUME ~dmaStop', ~Moving', txState' # "IDLE" PROVE rEnd' /\ left' = 0
  <2>1. ~dmaStop /\ ~scb.start /\ ~scb.stop
    BY <1>8, StopEdge
  <2>2. ~Begins /\ ~Issues(Acks)
    BY <1>8, BeginEdge, IssueEdge DEF Moving
  <2>3. txState # "IDLE"
    <3> SUFFICES ASSUME txState = "IDLE" PROVE FALSE
      OBVIOUS
    <3>1. dmaStart
      BY <1>3, <1>8, <2>1 DEF NextTxState
    <3> QED BY <1>1, <2>2, <3>1 DEF Begins, Commands, Quiet
  <2>4. CASE ~Moving
    <3>1. rEnd /\ left = 0
      BY <1>1, <2>1, <2>3, <2>4 DEF Spreads
    <3>2. ~dmaStart
      BY <1>1, <2>3 DEF Commands, Quiet
    <3> QED BY <1>3, <2>2, <2>4, <3>1, <3>2, RestEdge DEF Moving
  <2>5. CASE Moving
    <3>1. memState = "TRANSFER" /\ Acks /\ left = 0 /\ left' = left
      BY <1>8, <2>1, <2>2, <2>5, RestEdge DEF Moving
    <3> QED BY <1>3, <3>1 DEF LastWord
  <2> QED BY <2>4, <2>5
<1>9. ASSUME txState' \in {"FIRST", "SECOND"}
      PROVE  ~rReady' /\ (rAck' => memState' # "TRANSFER")
  <2>1. ~dmaStop
    BY <1>9, FifoRegisters DEF NextTxState
  <2>2. CASE txState = "IDLE"
    BY <1>3, <1>9, <2>1, <2>2 DEF NextTxState
  <2>3. CASE txState = "WAIT"
    <3>1. TxTakes
      BY <1>3, <1>9, <2>1, <2>3 DEF NextTxState
    <3>2. ~Acks
      BY <2>3, <3>1, NoneBehind DEF TxTakes, Untaken
    <3> QED BY <1>3, <2>3, <3>1, <3>2
  <2>4. CASE TxSpreads
    <3>1. ~rReady /\ (memState' = "TRANSFER" <=> memState = "TRANSFER" /\ ~Acks)
      BY <2>4, SpreadRest
    <3>2. ~rReady'
      <4>1. CASE txState = "FIRST"
        BY <1>3, <3>1, <4>1
      <4>2. CASE txState = "SECOND"
        <5>1. ~TxShifts(TxFull)
          BY <1>3, <1>9, <2>1, <4>2 DEF NextTxState
        <5>2. ~(TxWrites(TxFull) \/ ~txValid[1])
          BY <4>2, <5>1 DEF TxShifts, TxWrites, TxSpreads
        <5> QED BY <1>3, <3>1, <4>2, <5>2
      <4> QED BY <2>4, <4>1, <4>2 DEF TxSpreads
    <3> QED BY <1>3, <3>1, <3>2
  <2> QED BY <1>1, <2>2, <2>3, <2>4 DEF TxSpreads, FlowTyped
<1>10. ASSUME txState' = "SECOND" PROVE ~txValid'[2]
  <2>1. ~dmaStop
    BY <1>10, FifoRegisters DEF NextTxState
  <2>2. TxSpreads /\ ~TxTakes
    BY <1>1, <1>3, <1>10, <2>1 DEF NextTxState, TxSpreads, TxTakes, FlowTyped
  <2>3. CASE txState = "FIRST"
    <3>1. TxShifts(TxFull)
      BY <1>3, <1>10, <2>1, <2>3 DEF NextTxState
    <3> QED BY <1>3, <2>2, <3>1
  <2>4. CASE txState = "SECOND"
    <3>1. ~TxShifts(TxFull)
      <4> SUFFICES ASSUME TxShifts(TxFull) PROVE FALSE
        OBVIOUS
      <4>1. txState' \in {"IDLE", "WAIT"}
        BY <1>3, <2>1, <2>4 DEF NextTxState
      <4> QED BY <1>10, <4>1
    <3> QED BY <1>1, <1>3, <2>2, <2>4, <3>1 DEF Spreads
  <2> QED BY <2>2, <2>3, <2>4 DEF TxSpreads
<1>11. ASSUME txWaiting', txState' # "IDLE" PROVE memState' # "TRANSFER"
  <2>1. TxSpreads
    <3> SUFFICES ASSUME ~TxSpreads PROVE FALSE
      OBVIOUS
    <3>1. txWaiting /\ txState = "WAIT" /\ ~TxTakes
      BY <1>3, <1>11
    <3> QED BY <3>1 DEF TxTakes
  <2>2. Untaken /\ txState # "IDLE"
    BY <1>3, <1>11, <2>1 DEF Untaken, TxSpreads
  <2>3. memState # "TRANSFER"
    BY <2>1, <2>2, NoneBehind
  <2> QED BY <2>1, <2>3, SpreadRest
<1> QED BY <1>2, <1>4, <1>5, <1>6, <1>7, <1>8, <1>9, <1>10, <1>11 DEF Spreads, TxSpreads

-----------------------------------------------------------------------------
\* What is between the memory and the FIFO, and the first byte of the buffer
\* of a word that has been read.
ToCome == InTx + InBuffer + OnBus + left
Read   == NextByte - OnBus - InBuffer

BytesHeld ==
  /\ TxSpreads => Holds(txBuf, txValid, Read - InTx)
  /\ Untaken => Holds(rBuf, rMask, Read)

\* The numbers of bytes are numbers.
LEMMA SpreadNumbers ==
  ASSUME PathInv, FlowInv
  PROVE  /\ InTx \in {0, 1, 2} /\ InBuffer \in {0, 1, 2} /\ OnBus \in {0, 1, 2}
         /\ left \in Nat /\ End \in Nat /\ NextByte \in Int /\ Read \in Int /\ ToCome \in Nat
         /\ NextByte = End - left /\ Read - InTx = End - ToCome
         /\ ~TxSpreads => InTx = 0
<1>1. FlowTyped /\ left \in Nat /\ End \in Nat /\ LaneCount(bus.mask) \in {1, 2}
      /\ rMask \in {Both, High, Low}
  BY AtEdge DEF FlowTyped
<1>2. LaneCount(rMask) \in {0, 1, 2} /\ LaneCount(txValid) \in {0, 1, 2}
  BY DEF LaneCount
<1>3. InTx \in {0, 1, 2} /\ InBuffer \in {0, 1, 2} /\ OnBus \in {0, 1, 2}
  BY <1>1, <1>2 DEF InTx, InBuffer, OnBus
<1>4. ~TxSpreads => InTx = 0
  BY DEF InTx
<1>5. NextByte = End - left
  BY DEF NextByte
<1> DEFINE x == InTx
           b == InBuffer
           o == OnBus
           n == NextByte
<1>6. ToCome = x + b + o + left /\ Read = n - o - b
  BY DEF ToCome, Read
<1> HIDE DEF x, b, o, n
<1>7. n \in Int /\ x \in {0, 1, 2} /\ b \in {0, 1, 2} /\ o \in {0, 1, 2} /\ n = End - left
  BY <1>1, <1>3, <1>5 DEF x, b, o, n
<1>8. Read \in Int /\ ToCome \in Nat /\ Read - x = End - ToCome
  BY <1>1, <1>6, <1>7
<1> QED BY <1>1, <1>3, <1>4, <1>5, <1>7, <1>8 DEF x, n

\* The numbers after an edge.
LEMMA NumbersAfter ==
  ASSUME PathInv, FlowInv, NEW now \in BOOLEAN, Tick(now)
  PROVE  /\ InTx' \in {0, 1, 2} /\ InBuffer' \in {0, 1, 2} /\ OnBus' \in {0, 1, 2}
         /\ left' \in Nat /\ Read' \in Int /\ ToCome' \in Nat
         /\ Read' - InTx' = End - ToCome'
<1>1. left' \in Nat /\ End' = End /\ End \in Nat
  BY AtEdge, TypedAtEdge, EndStays DEF EngineTyped
<1>2. InTx' \in {0, 1, 2} /\ InBuffer' \in {0, 1, 2} /\ OnBus' \in {0, 1, 2}
  BY DEF InTx, InBuffer, OnBus, LaneCount
<1> DEFINE x == InTx'
           b == InBuffer'
           o == OnBus'
           l == left'
<1>3. ToCome' = x + b + o + l /\ Read' = End - l - o - b
  BY <1>1 DEF ToCome, Read, NextByte
<1> HIDE DEF x, b, o, l
<1>4. l \in Nat /\ x \in {0, 1, 2} /\ b \in {0, 1, 2} /\ o \in {0, 1, 2}
  BY <1>1, <1>2 DEF x, b, o, l
<1>5. Read' \in Int /\ ToCome' \in Nat /\ Read' - x = End - ToCome'
  BY <1>1, <1>3, <1>4
<1> QED BY <1>2, <1>1, <1>5 DEF x

\* What has been read grows by the word that is acknowledged.
LEMMA FetchEdge ==
  ASSUME PathInv, FlowInv, NEW now \in BOOLEAN, Tick(now), ~Begins
  PROVE  (NextByte - OnBus)' = NextByte - OnBus + IF Acks THEN LaneCount(bus.mask) ELSE 0
<1>1. /\ NextByte \in Int /\ LaneCount(bus.mask) \in {1, 2} /\ LaneCount(NextLanes) \in {1, 2}
      /\ Acks \in BOOLEAN /\ (Acks => memState = "TRANSFER")
  BY AtEdge, SpreadNumbers
<1>2. OnBus = IF memState = "TRANSFER" THEN LaneCount(bus.mask) ELSE 0
  BY DEF OnBus
<1>3. OnBus' = IF memState' = "TRANSFER" THEN LaneCount(bus.mask)' ELSE 0
  BY DEF OnBus
<1>4. CASE Issues(Acks)
  <2>1. /\ memState' = "TRANSFER" /\ bus'.mask = NextLanes
        /\ NextByte' = NextByte + LaneCount(NextLanes)
        /\ (memState = "WAIT" \/ (memState = "TRANSFER" /\ Acks))
    BY <1>4, IssueEdge
  <2>2. LaneCount(bus.mask)' = LaneCount(NextLanes)
    BY <2>1 DEF LaneCount
  <2> DEFINE n == NextByte
             c == LaneCount(NextLanes)
             k == LaneCount(bus.mask)
             n1 == NextByte'
             o1 == OnBus'
             o == OnBus
  <2>3. n1 = n + c /\ o1 = c
    BY <1>3, <2>1, <2>2
  <2>4. o = IF Acks THEN k ELSE 0
    BY <1>1, <1>2, <2>1
  <2>5. n1 - o1 = n - o + IF Acks THEN k ELSE 0
    <3>1. n \in Int /\ c \in {1, 2} /\ k \in {1, 2}
      BY <1>1
    <3> HIDE DEF n, c, k, n1, o1, o
    <3> QED BY <2>3, <2>4, <3>1
  <2> QED BY <2>5
<1>5. CASE ~Issues(Acks)
  <2>1. /\ memState' = "TRANSFER" <=> memState = "TRANSFER" /\ ~Acks
        /\ bus'.mask = bus.mask /\ NextByte' = NextByte
    BY <1>5, RestEdge
  <2>2. LaneCount(bus.mask)' = LaneCount(bus.mask)
    BY <2>1 DEF LaneCount
  <2> DEFINE n == NextByte
             k == LaneCount(bus.mask)
             n1 == NextByte'
             o1 == OnBus'
             o == OnBus
  <2>3. n1 = n
    BY <2>1
  <2>4. CASE Acks
    <3>1. o = k /\ o1 = 0
      BY <1>1, <1>2, <1>3, <2>1, <2>4
    <3>2. n \in Int /\ k \in {1, 2}
      BY <1>1
    <3>3. n1 - o1 = n - o + k
      <4> HIDE DEF n, k, n1, o1, o
      <4> QED BY <2>3, <3>1, <3>2
    <3> QED BY <2>4, <3>3
  <2>5. CASE ~Acks
    <3>1. o1 = o /\ o \in {0, 1, 2}
      BY <1>1, <1>2, <1>3, <2>1, <2>2, <2>5
    <3>2. n \in Int
      BY <1>1
    <3>3. n1 - o1 = n - o + 0
      <4> HIDE DEF n, n1, o1, o
      <4> QED BY <2>3, <3>1, <3>2
    <3> QED BY <2>5, <3>3
  <2> QED BY <1>1, <2>4, <2>5
<1> QED BY <1>4, <1>5

\* The word that is acknowledged is the next one of the job.
LEMMA WordRead ==
  ASSUME PathInv, FlowInv, NEW now \in BOOLEAN, Tick(now), Acks, ~job.write, ~Untaken, ~Begins
  PROVE  Read' = Read /\ Untaken' /\ Holds(rBuf, rMask, Read)'
<1>1. memState = "TRANSFER" /\ LaneCount(bus.mask) \in {1, 2}
  BY AtEdge
<1>2. /\ bus.address \in Nat /\ NextByte = BusFirst + LaneCount(bus.mask)
      /\ BusFirst \in Nat /\ NextByte \in Nat
      /\ \/ bus.mask[1] /\ bus.mask[2] /\ BusFirst = bus.address
         \/ bus.mask[1] /\ ~bus.mask[2] /\ BusFirst = bus.address
         \/ ~bus.mask[1] /\ bus.mask[2] /\ BusFirst = bus.address + 1
  BY <1>1, WordOnBus
<1>3. rBuf' = Word(bus.address) /\ rMask' = bus.mask /\ rAck' = TRUE
  BY FifoRegisters, AtEdge
<1>4. mem' = mem
  BY WordWritten
<1>5. Untaken'
  BY <1>3 DEF Untaken
<1> DEFINE n == NextByte
           k == LaneCount(bus.mask)
           f1 == (NextByte - OnBus)'
<1>6. f1 = n - OnBus + k
  BY FetchEdge
<1>7. OnBus = k /\ InBuffer = 0
  BY <1>1 DEF OnBus, InBuffer
<1>8. InBuffer' = k
  BY <1>3, <1>5 DEF InBuffer, LaneCount
<1>9. Read = n - OnBus - 0 /\ Read' = f1 - k
  BY <1>7, <1>8 DEF Read
<1>10. Read = BusFirst /\ Read' = BusFirst
  <2>1. n = BusFirst + k /\ k \in {1, 2} /\ BusFirst \in Nat
    BY <1>1, <1>2
  <2>2. f1 = n - k + k
    BY <1>6, <1>7
  <2>3. Read = n - k - 0
    BY <1>7, <1>9
  <2> HIDE DEF n, k, f1
  <2> QED BY <1>9, <2>1, <2>2, <2>3
<1>11. Holds(rBuf, rMask, Read)'
  <2>1. rBuf'[1] = mem[bus.address] /\ rBuf'[2] = mem[bus.address + 1]
    BY <1>3 DEF Word
  <2>2. rMask'[1] => rBuf'[1] = mem'[Read']
    BY <1>2, <1>3, <1>4, <1>10, <2>1
  <2>3. rMask'[2] => rBuf'[2] = mem'[Read' + IF rMask'[1] THEN 1 ELSE 0]
    <3>1. CASE bus.mask[1]
      BY <1>2, <1>3, <1>4, <1>10, <2>1, <3>1
    <3>2. CASE ~bus.mask[1]
      <4>1. BusFirst = bus.address + 1 /\ bus.address + 1 + 0 = bus.address + 1
        BY <1>2, <3>2
      <4>2. Read' + (IF rMask'[1] THEN 1 ELSE 0) = bus.address + 1
        BY <1>3, <1>10, <3>2, <4>1
      <4> QED BY <1>4, <2>1, <4>2
    <3> QED BY <3>1, <3>2
  <2> QED BY <2>2, <2>3 DEF Holds
<1> QED BY <1>5, <1>10, <1>11

\* An edge hands each byte on, and takes one more when the FIFO gets one.
LEMMA SpreadEdge ==
  ASSUME PathInv, FlowInv, NEW now \in BOOLEAN, Tick(now), ~dmaStop, txState # "IDLE"
  PROVE  /\ ~job.write /\ job # NoJob /\ mem' = mem /\ ~dmaStart /\ ~scb.start /\ ~Begins
         /\ txState' # "IDLE" =>
              BytesHeld' /\ ToCome' = ToCome - (IF Writes THEN 1 ELSE 0)
         /\ txState' = "IDLE" => ToCome = IF Writes THEN 1 ELSE 0
<1>1. Spreads /\ Commands /\ FlowTyped /\ SpreadOk
  BY AtEdge DEF EnginePart
<1>2. ~job.write /\ job # NoJob /\ ~scb.start
  BY <1>1, JobThere DEF Spreads
<1>3. ~dmaStart /\ ~Begins
  BY <1>1 DEF Begins, Commands, Quiet
<1>4. mem' = mem
  BY <1>2, WordWritten
<1>5. BytesHeld
  BY <1>1, <1>2 DEF SpreadOk, BytesHeld, Read
<1>6. /\ txState' = NextTxState(TxFull)
      /\ txWaiting' = (IF TxSpreads THEN txWaiting \/ rAck
                       ELSE txWaiting /\ txState = "WAIT" /\ ~TxTakes)
      /\ txValid' = (IF TxTakes THEN rMask
                     ELSE IF TxShifts(TxFull) THEN <<txValid[2], FALSE>> ELSE txValid)
      /\ txBuf' = (IF TxTakes THEN rBuf
                   ELSE IF TxShifts(TxFull) THEN <<txBuf[2], None>> ELSE txBuf)
      /\ rAck' = Acks
      /\ rMask' = (IF Acks THEN bus.mask ELSE rMask)
      /\ rBuf' = (IF Acks THEN Word(bus.address) ELSE rBuf)
  BY FifoRegisters
<1>7. /\ InTx \in {0, 1, 2} /\ InBuffer \in {0, 1, 2} /\ OnBus \in {0, 1, 2}
      /\ NextByte \in Int /\ Read \in Int /\ ToCome \in Nat
      /\ Read - InTx = End - ToCome /\ End \in Nat /\ left \in Nat
  BY SpreadNumbers
<1>8. InTx' \in {0, 1, 2} /\ Read' \in Int /\ ToCome' \in Nat /\ Read' - InTx' = End - ToCome'
  BY NumbersAfter
<1>9. ASSUME ~Acks
      PROVE  /\ rBuf' = rBuf /\ rMask' = rMask /\ ~rAck'
             /\ Read' = Read + InBuffer - InBuffer'
  <2> DEFINE f1 == (NextByte - OnBus)'
             f  == NextByte - OnBus
             b1 == InBuffer'
             b  == InBuffer
  <2>1. f1 = f + 0
    BY <1>3, <1>9, FetchEdge
  <2>2. Read' = f1 - b1 /\ Read = f - b
    BY DEF Read
  <2>3. f \in Int /\ b \in {0, 1, 2} /\ b1 \in {0, 1, 2}
    BY <1>7, NumbersAfter
  <2>4. Read' = Read + b - b1
    <3> HIDE DEF f1, f, b1, b
    <3> QED BY <2>1, <2>2, <2>3
  <2> QED BY <1>6, <1>9, <2>4
\* The machine takes the word.
<1>10. ASSUME txState = "WAIT", Untaken
       PROVE  /\ txState' = "FIRST" /\ ~Untaken' /\ ~Writes /\ BytesHeld'
              /\ Read' - InTx' = Read - InTx
  <2>1. TxTakes /\ ~TxSpreads
    BY <1>10 DEF TxTakes, Untaken, TxSpreads
  <2>2. ~Acks
    BY <1>10, NoneBehind
  <2>3. txState' = "FIRST"
    BY <1>6, <1>10, <2>1 DEF NextTxState
  <2>4. ~Untaken' /\ txValid' = rMask /\ txBuf' = rBuf
    BY <1>6, <2>1, <2>2 DEF Untaken
  <2>5. ~Writes
    BY <2>1 DEF Writes, TxWrites
  <2>6. InBuffer' = 0 /\ InTx = 0 /\ InBuffer = LaneCount(rMask) /\ InTx' = LaneCount(rMask)
    BY <1>10, <2>1, <2>3, <2>4 DEF InBuffer, InTx, TxSpreads, LaneCount
  <2>7. Read' = Read + InBuffer - 0 /\ InTx' = InBuffer
    BY <1>9, <2>2, <2>6
  <2>8. Read' - InTx' = Read - InTx /\ Read' - InTx' = Read
    <3> DEFINE r1 == Read'
               x1 == InTx'
               b == InBuffer
    <3>1. r1 = Read + b - 0 /\ x1 = b /\ b \in {0, 1, 2} /\ Read \in Int /\ InTx = 0
      BY <1>7, <2>6, <2>7
    <3>2. r1 - x1 = Read - InTx /\ r1 - x1 = Read
      <4> HIDE DEF r1, x1, b
      <4> QED BY <3>1
    <3> QED BY <3>2
  <2>9. Holds(rBuf, rMask, Read)
    BY <1>5, <1>10 DEF BytesHeld
  <2>10. Holds(txBuf, txValid, Read - InTx)'
    BY <1>4, <2>4, <2>8, <2>9 DEF Holds
  <2> QED BY <2>3, <2>4, <2>5, <2>8, <2>10 DEF BytesHeld
\* Else what is in the buffer stays, or is the word just read.
<1>11. ASSUME txState # "WAIT" \/ ~Untaken
       PROVE  Read' = Read /\ (Untaken' => Holds(rBuf, rMask, Read)')
  <2>1. CASE Untaken
    <3>1. TxSpreads
      BY <1>1, <1>11, <2>1 DEF TxSpreads, FlowTyped
    <3>2. ~Acks
      BY <2>1, NoneBehind
    <3>3. Untaken' /\ rMask' = rMask /\ rBuf' = rBuf
      BY <1>6, <2>1, <3>1, <3>2 DEF Untaken
    <3>4. InBuffer' = InBuffer
      BY <2>1, <3>3 DEF InBuffer, LaneCount
    <3>5. Read' = Read
      <4>1. Read' = Read + InBuffer - InBuffer
        BY <1>9, <3>2, <3>4
      <4> QED BY <1>7, <4>1
    <3>6. Holds(rBuf, rMask, Read)
      BY <1>5, <2>1 DEF BytesHeld
    <3> QED BY <1>4, <3>3, <3>5, <3>6 DEF Holds
  <2>2. CASE ~Untaken /\ Acks
    BY <1>2, <1>3, <2>2, WordRead
  <2>3. CASE ~Untaken /\ ~Acks
    <3>1. ~rAck' /\ ~txWaiting'
      BY <1>6, <2>3 DEF Untaken
    <3>2. ~Untaken'
      BY <3>1 DEF Untaken
    <3>3. InBuffer' = 0 /\ InBuffer = 0
      BY <2>3, <3>2 DEF InBuffer
    <3>4. Read' = Read
      <4>1. Read' = Read + 0 - 0
        BY <1>9, <2>3, <3>3
      <4> QED BY <1>7, <4>1
    <3> QED BY <3>2, <3>4
  <2> QED BY <2>1, <2>2, <2>3, AtEdge
\* A byte goes on, or none.
<1>12. ASSUME Read' = Read, InTx' = InTx - (IF Writes THEN 1 ELSE 0)
       PROVE  ToCome' = ToCome - (IF Writes THEN 1 ELSE 0)
  <2> DEFINE w  == IF Writes THEN 1 ELSE 0
             x1 == InTx'
             t1 == ToCome'
  <2>1. w \in {0, 1}
    OBVIOUS
  <2>2. x1 = InTx - w /\ Read - x1 = End - t1 /\ t1 \in Nat
    BY <1>8, <1>12
  <2>3. t1 = ToCome - w
    <3> HIDE DEF w, x1, t1
    <3> QED BY <1>7, <2>1, <2>2
  <2> QED BY <2>3
<1>13. Writes => TxSpreads /\ TxShifts(TxFull) /\ txValid[1]
  BY DEF Writes, TxWrites, TxShifts
<1>14. TxSpreads /\ TxShifts(TxFull) => (Writes <=> txValid[1])
  BY DEF Writes, TxWrites, TxShifts
<1>15. /\ txValid[1] \in BOOLEAN /\ txValid[2] \in BOOLEAN
       /\ TxSpreads => InTx = (IF txValid[1] THEN 1 ELSE 0) + (IF txValid[2] THEN 1 ELSE 0)
  BY <1>1 DEF InTx, LaneCount, FlowTyped
<1>16. rEnd => memState = "IDLE"
  BY <1>1 DEF Spreads, Moving
<1>17. ASSUME memState = "IDLE" PROVE left = 0 /\ OnBus = 0
  BY <1>1, <1>17 DEF Spreads, Moving, OnBus
<1>18. CASE txState = "WAIT" /\ Untaken
  <2>1. Read' - InTx' = Read - InTx /\ ~Writes /\ txState' # "IDLE" /\ BytesHeld'
    BY <1>10, <1>18
  <2>2. ToCome' = ToCome - 0
    <3> DEFINE t1 == ToCome'
               d1 == Read' - InTx'
               d  == Read - InTx
    <3>1. d1 = d /\ d1 = End - t1 /\ d = End - ToCome /\ t1 \in Nat
      BY <1>7, <1>8, <2>1
    <3>2. End - t1 = End - ToCome
      <4> HIDE DEF t1, d1, d
      <4> QED BY <3>1
    <3>3. End \in Nat /\ ToCome \in Nat /\ t1 \in Nat
      BY <1>7, <1>8
    <3> HIDE DEF t1, d1, d
    <3>4. t1 = ToCome - 0
      BY <3>2, <3>3
    <3> QED BY <3>4 DEF t1
  <2> QED BY <1>2, <1>3, <1>4, <2>1, <2>2
<1>19. CASE txState = "WAIT" /\ ~Untaken
  <2>1. ~TxTakes /\ ~TxSpreads /\ ~Writes
    BY <1>13, <1>19 DEF TxTakes, TxSpreads, Untaken
  <2>2. txState' = IF rEnd THEN "IDLE" ELSE "WAIT"
    BY <1>6, <1>19, <2>1 DEF NextTxState
  <2>3. InTx = 0 /\ InTx' = 0
    BY <2>1, <2>2 DEF InTx, TxSpreads
  <2>4. Read' = Read /\ (Untaken' => Holds(rBuf, rMask, Read)')
    BY <1>11, <1>19
  <2>5. InTx' = InTx - (IF Writes THEN 1 ELSE 0)
    <3>1. 0 - 0 = 0
      OBVIOUS
    <3>2. (IF Writes THEN 1 ELSE 0) = 0
      BY <2>1
    <3> QED BY <2>3, <3>1, <3>2, Zenon
  <2>6. txState' # "IDLE" => BytesHeld' /\ ToCome' = ToCome - (IF Writes THEN 1 ELSE 0)
    BY <1>12, <2>2, <2>4, <2>5 DEF BytesHeld, TxSpreads
  <2>7. txState' = "IDLE" => ToCome = 0
    <3>1. InBuffer = 0
      BY <1>19 DEF InBuffer
    <3>2. txState' = "IDLE" => left = 0 /\ OnBus = 0
      BY <1>16, <1>17, <2>2
    <3> QED BY <2>3, <3>1, <3>2 DEF ToCome
  <2> QED BY <1>2, <1>3, <1>4, <2>1, <2>6, <2>7
<1>20. CASE TxSpreads
  <2>1. Read' = Read /\ (Untaken' => Holds(rBuf, rMask, Read)') /\ ~TxTakes
    BY <1>11, <1>20 DEF TxSpreads, TxTakes
  <2>2. Holds(txBuf, txValid, Read - InTx)
    BY <1>5, <1>20 DEF BytesHeld
  <2>3. CASE ~TxShifts(TxFull)
    <3>1. txState' = txState /\ ~Writes /\ txValid' = txValid /\ txBuf' = txBuf
      BY <1>6, <1>13, <1>20, <2>1, <2>3 DEF NextTxState, TxSpreads
    <3>2. InTx' = InTx /\ TxSpreads'
      BY <1>20, <3>1 DEF InTx, TxSpreads, LaneCount
    <3>3. InTx' = InTx - (IF Writes THEN 1 ELSE 0)
      <4>1. InTx - 0 = InTx /\ (IF Writes THEN 1 ELSE 0) = 0
        BY <1>7, <3>1
      <4> QED BY <3>2, <4>1
    <3>4. Holds(txBuf, txValid, Read - InTx)'
      BY <1>4, <2>1, <2>2, <3>1, <3>2 DEF Holds
    <3> QED BY <1>2, <1>3, <1>4, <1>12, <1>20, <2>1, <3>1, <3>3, <3>4 DEF BytesHeld, TxSpreads
  <2>4. CASE TxShifts(TxFull) /\ txState = "FIRST"
    <3>1. txState' = "SECOND" /\ txValid' = <<txValid[2], FALSE>> /\ txBuf' = <<txBuf[2], None>>
      BY <1>6, <2>1, <2>4 DEF NextTxState
    <3>2. txValid'[1] = txValid[2] /\ txValid'[2] = FALSE /\ txBuf'[1] = txBuf[2]
      BY <3>1
    <3>3. InTx' = (IF txValid[2] THEN 1 ELSE 0) + 0
      BY <3>1, <3>2 DEF InTx, LaneCount, TxSpreads
    <3>4. InTx' = InTx - (IF Writes THEN 1 ELSE 0)
      BY <1>14, <1>15, <1>20, <2>4, <3>3
    <3>5. Holds(txBuf, txValid, Read - InTx)'
      <4> SUFFICES ASSUME txValid[2] PROVE txBuf[2] = mem[Read' - InTx']
        BY <1>4, <3>2 DEF Holds
      <4>1. txBuf[2] = mem[Read - InTx + IF txValid[1] THEN 1 ELSE 0]
        BY <2>2 DEF Holds
      <4>2. Read - InTx + (IF txValid[1] THEN 1 ELSE 0) = Read - 1
        BY <1>7, <1>15, <1>20
      <4>3. InTx' = 1
        BY <3>3
      <4> QED BY <2>1, <4>1, <4>2, <4>3
    <3> QED BY <1>2, <1>3, <1>4, <1>12, <2>1, <3>1, <3>4, <3>5 DEF BytesHeld
  <2>5. CASE TxShifts(TxFull) /\ txState = "SECOND"
    <3>1. txState' = IF ~rAck /\ ~txWaiting /\ rEnd THEN "IDLE" ELSE "WAIT"
      BY <1>6, <2>5 DEF NextTxState
    <3>2. ~txValid[2]
      BY <1>1, <2>5 DEF Spreads
    <3>3. InTx = IF Writes THEN 1 ELSE 0
      BY <1>14, <1>15, <1>20, <2>5, <3>2
    <3>4. InTx' = 0
      BY <3>1 DEF InTx, TxSpreads
    <3>5. InTx' = InTx - (IF Writes THEN 1 ELSE 0)
      <4>1. InTx - InTx = 0
        BY <1>7
      <4> QED BY <3>3, <3>4, <4>1
    <3>6. txState' # "IDLE" => BytesHeld' /\ ToCome' = ToCome - (IF Writes THEN 1 ELSE 0)
      BY <1>12, <2>1, <3>1, <3>5 DEF BytesHeld, TxSpreads
    <3>7. txState' = "IDLE" => ToCome = IF Writes THEN 1 ELSE 0
      <4> SUFFICES ASSUME txState' = "IDLE" PROVE ToCome = IF Writes THEN 1 ELSE 0
        OBVIOUS
      <4>1. ~Untaken /\ left = 0 /\ OnBus = 0
        BY <1>16, <1>17, <3>1 DEF Untaken
      <4>2. InBuffer = 0
        BY <4>1 DEF InBuffer
      <4>3. ToCome = InTx + 0 + 0 + 0
        BY <4>1, <4>2 DEF ToCome
      <4>4. ToCome = InTx
        BY <1>7, <4>3
      <4> QED BY <3>3, <4>4
    <3> QED BY <1>2, <1>3, <1>4, <3>6, <3>7
  <2> QED BY <1>20, <2>3, <2>4, <2>5 DEF TxSpreads
<1> QED BY <1>1, <1>18, <1>19, <1>20 DEF TxSpreads, FlowTyped

\* The bytes between the memory and the FIFO are those of the job.
LEMMA SpreadAtEdge ==
  ASSUME PathInv, FlowInv, NEW now \in BOOLEAN, Tick(now)
  PROVE  SpreadOk'
<1>1. job' = job
  BY EdgeLeaves
<1> SUFFICES ASSUME ~job.write, ~dmaStop', txState' # "IDLE" PROVE BytesHeld'
  BY <1>1 DEF SpreadOk, BytesHeld, Read
<1>2. ~dmaStop
  BY StopEdge
<1>3. CASE txState # "IDLE"
  BY <1>2, <1>3, SpreadEdge
<1>4. CASE txState = "IDLE"
  <2>1. dmaStart /\ txState' = "WAIT" /\ ~txWaiting' /\ rAck' = Acks
    BY <1>2, <1>4, FifoRegisters DEF NextTxState, TxSpreads
  <2>2. ~Acks
    BY <2>1, AtEdge DEF Commands, Quiet
  <2> QED BY <2>1, <2>2 DEF BytesHeld, TxSpreads, Untaken
<1> QED BY <1>3, <1>4

\* Each byte given to the FIFO is one less it has to get.
LEMMA SpreadCounts ==
  ASSUME PathInv, FlowInv, NEW now \in BOOLEAN, Tick(now),
         ctl = "run" \/ (ctl = "flushing" /\ ~flushBusy)
  PROVE  /\ ToSpread' = ToSpread - (IF Writes THEN 1 ELSE 0) /\ ToSpread \in Nat
         /\ ToSpread > 0 => mem' = mem
<1>1. Spreads /\ Commands /\ Requests /\ FlowTyped /\ EngineTyped /\ Handshake
  BY AtEdge DEF EnginePart, FlowInv
<1>2. job' = job /\ NoJob' = NoJob
  BY EdgeLeaves DEF NoJob
<1>3. job.length \in Nat /\ ToCome \in Nat
  BY AtEdge, SpreadNumbers
<1>4. ToSpread \in Nat
  <2>1. ToSpread \in {0, job.length, ToCome}
    BY DEF ToSpread, ToCome
  <2> QED BY <1>3, <2>1
<1>5. ~scb'.start /\ dmaStart' = (scb.start /\ ~scb.stop)
  BY CommandsEnd, EngineEdge
<1>6. ASSUME ToSpread = 0, ToSpread' = 0, ~Writes
      PROVE  ToSpread' = ToSpread - (IF Writes THEN 1 ELSE 0)
  <2>1. 0 = 0 - 0 /\ (IF Writes THEN 1 ELSE 0) = 0
    BY <1>6
  <2> QED BY <1>6, <2>1, Zenon
<1>7. CASE job.write \/ job = NoJob
  <2>1. txState = "IDLE"
    BY <1>1, <1>7 DEF Spreads, Commands, Quiet
  <2>2. ~Writes
    BY <2>1 DEF Writes, TxWrites, TxSpreads
  <2>3. ToSpread = 0 /\ ToSpread' = 0
    BY <1>2, <1>7 DEF ToSpread
  <2> QED BY <1>4, <1>6, <2>2, <2>3
<1>8. CASE ~job.write /\ job # NoJob
  <2>1. ctl = "run" /\ ~scb.stop /\ (dmaStop => scb.start)
    <3>1. ctl = "run"
      BY <1>1, <1>8 DEF Handshake
    <3>2. ~scb.stop /\ (dmaStop => scb.start)
      BY <1>1, <1>8, <3>1 DEF Commands
    <3> QED BY <3>1, <3>2
  <2>2. mem' = mem
    BY <1>8, WordWritten
  <2>3. CASE scb.start
    <3>1. Quiet /\ dmaStart'
      BY <1>1, <1>5, <2>3 DEF Commands
    <3>2. ~Writes
      BY <3>1 DEF Quiet, Writes, TxWrites, TxSpreads
    <3>3. ToSpread = job.length /\ ToSpread' = job.length
      BY <1>2, <1>8, <2>3, <3>1 DEF ToSpread
    <3> QED BY <1>3, <2>2, <3>2, <3>3
  <2>4. CASE dmaStart /\ ~scb.start
    <3>1. Begins /\ Quiet /\ ~dmaStop /\ ~scb.write /\ ~Acks
      BY <1>1, <1>8, <2>4, AtEdge DEF Commands, Quiet, Begins
    <3>2. left' = job.length /\ memState' = "WAIT"
      BY <3>1, BeginEdge
    <3>3. txState' = "WAIT" /\ ~rAck' /\ ~txWaiting'
      BY <2>4, <3>1, FifoRegisters DEF NextTxState, Quiet, TxSpreads
    <3>4. ~Writes
      BY <3>1 DEF Quiet, Writes, TxWrites, TxSpreads
    <3>5. ToSpread = job.length
      BY <1>8, <2>4 DEF ToSpread
    <3>6. InTx' = 0 /\ InBuffer' = 0 /\ OnBus' = 0
      BY <3>2, <3>3 DEF InTx, InBuffer, OnBus, TxSpreads, Untaken
    <3>7. ~dmaStart'
      BY <1>5, <2>4
    <3>8. ToSpread' = InTx' + InBuffer' + OnBus' + left'
      BY <1>2, <1>5, <1>8, <3>3, <3>7 DEF ToSpread
    <3>9. ToSpread' = 0 + 0 + 0 + job.length
      BY <3>2, <3>6, <3>8
    <3> QED BY <1>3, <2>2, <3>4, <3>5, <3>9
  <2>5. CASE ~dmaStart /\ ~scb.start
    <3>1. ~dmaStop /\ ~dmaStart' /\ ~scb'.start
      BY <1>5, <2>1, <2>5
    <3>2. CASE txState = "IDLE"
      <4>1. txState' = "IDLE" /\ ~Writes
        BY <2>5, <3>2, FifoRegisters DEF NextTxState, Writes, TxWrites, TxSpreads
      <4>2. ToSpread = 0
        BY <1>8, <2>5, <3>2 DEF ToSpread
      <4>3. ToSpread' = 0
        BY <1>2, <1>8, <3>1, <4>1 DEF ToSpread
      <4> QED BY <1>6, <2>2, <4>1, <4>2, <4>3
    <3>3. CASE txState # "IDLE"
      <4>1. ToSpread = ToCome
        BY <1>8, <2>5, <3>3 DEF ToSpread, ToCome
      <4>2. CASE txState' # "IDLE"
        <5>1. ToCome' = ToCome - (IF Writes THEN 1 ELSE 0)
          BY <3>1, <3>3, <4>2, SpreadEdge
        <5>2. ToSpread' = ToCome'
          BY <1>2, <1>8, <3>1, <4>2 DEF ToSpread, ToCome
        <5> QED BY <1>4, <2>2, <4>1, <5>1, <5>2
      <4>3. CASE txState' = "IDLE"
        <5>1. ToCome = (IF Writes THEN 1 ELSE 0)
          BY <3>1, <3>3, <4>3, SpreadEdge
        <5>2. ToSpread' = 0
          BY <1>2, <1>8, <3>1, <4>3 DEF ToSpread
        <5>3. ToCome - ToCome = 0
          BY <1>3
        <5> QED BY <1>4, <2>2, <4>1, <5>1, <5>2, <5>3
      <4> QED BY <4>2, <4>3
    <3> QED BY <3>2, <3>3
  <2> QED BY <2>3, <2>4, <2>5
<1> QED BY <1>4, <1>7, <1>8

\* What the engine gives to the FIFO is what the controller had sent, byte by
\* byte; a byte given in the clock of a stop is still the right one
\* (memory_dma.sv:271-344).
LEMMA DownstreamAtEdge ==
  ASSUME PathInv, FlowInv, NEW now \in BOOLEAN, Tick(now)
  PROVE  DownstreamOk'
<1>1. DownstreamOk /\ FlowTyped /\ BytesTyped /\ Commands /\ Spreads
  BY AtEdge DEF FlowInv, EnginePart
<1>2. UNCHANGED <<txFailed, ftState, ftCmd, txOut, toHost, due, ctl, flushBusy>>
  BY EdgeLeaves
<1> DEFINE d  == Downstream
           d1 == Downstream'
           n  == Len(Downstream)
           n1 == Len(Downstream')
           w  == IF Writes THEN 1 ELSE 0
<1>3. d \in Seq(Bytes) /\ n \in Nat /\ due \in Seq(Bytes) /\ Len(due) \in Nat
  BY <1>1, WaysTyped DEF FlowTyped
<1>4. w \in {0, 1}
  OBVIOUS
<1>5. /\ d1 \in Seq(Bytes) /\ n1 = n + w /\ n1 \in Nat
      /\ IsPrefixOf(d1, due)
  <2>1. CASE ~Writes
    <3>1. txFifo' = txFifo
      BY <2>1, FifoRegisters
    <3>2. d1 = d
      BY <1>2, <3>1 DEF Downstream, TxHeld
    <3>3. n1 = n /\ w = 0 /\ n + 0 = n
      BY <1>3, <2>1, <3>2
    <3> QED BY <1>1, <1>3, <3>2, <3>3 DEF DownstreamOk
  <2>2. CASE Writes
    <3>1. TxSpreads /\ txValid[1]
      BY <2>2 DEF Writes, TxWrites
    <3> DEFINE e == txBuf[1]
    <3>2. n < Len(due) /\ e = due[n + 1]
      BY <1>1, <3>1 DEF DownstreamOk
    <3>3. e \in Bytes
      BY <1>1 DEF FlowTyped
    <3>4. txFifo' = Append(txFifo, e)
      BY <2>2, FifoRegisters
    <3>5. d1 = toHost \o TxHeld \o Append(txFifo, e)
      BY <1>2, <3>4 DEF Downstream, TxHeld
    <3> HIDE DEF e
    <3>6. d1 = Append(d, e)
      BY <1>1, <3>3, <3>5, NewestGiven
    <3> HIDE DEF d
    <3>7. d1 \in Seq(Bytes) /\ Len(d1) = Len(d) + 1
          /\ \A i \in 1 .. Len(d) + 1 : d1[i] = IF i = Len(d) + 1 THEN e ELSE d[i]
      <4> HIDE DEF d1
      <4> QED BY <1>3, <3>3, <3>6
    <3>8. Len(d) <= Len(due) /\ \A i \in 1 .. Len(d) : d[i] = due[i]
      <4>1. IsPrefixOf(d, due)
        BY <1>1 DEF DownstreamOk, d
      <4> QED BY <1>3, <4>1, PrefixMembers
    <3>9. Len(d) = n
      BY DEF d
    <3>10. Len(d1) <= Len(due) /\ \A i \in 1 .. Len(d1) : d1[i] = due[i]
      <4> HIDE DEF d1, n
      <4> QED BY <1>3, <3>2, <3>7, <3>8, <3>9
    <3>11. IsPrefixOf(d1, due)
      <4> HIDE DEF d1
      <4> QED BY <1>3, <3>7, <3>10, PrefixMembers
    <3>12. n1 = n + 1
      BY <3>7, <3>9
    <3> QED BY <1>3, <2>2, <3>7, <3>11, <3>12
  <2> QED BY <2>1, <2>2
<1> DEFINE base == ctl = "run" \/ (ctl = "flushing" /\ ~flushBusy)
<1>6. Streams' => base
  BY <1>2, CommandsEnd DEF Streams
<1>7. ASSUME Streams'
      PROVE  /\ Len(due) = n1 + ToSpread'
             /\ \A i \in 1 .. ToSpread' : due[n1 + i] = mem'[End - ToSpread' + i - 1]
  <2>1. /\ ToSpread' = ToSpread - w /\ ToSpread \in Nat
        /\ ToSpread > 0 => mem' = mem
    BY <1>6, <1>7, SpreadCounts
  <2>2. Streams
    BY <1>6, <1>7 DEF Streams
  <2>3. /\ Len(due) = n + ToSpread
        /\ \A i \in 1 .. ToSpread : due[n + i] = mem[End - ToSpread + i - 1]
    BY <1>1, <2>2 DEF DownstreamOk
  <2> DEFINE g == ToSpread
             g1 == ToSpread'
  <2>4. g \in Nat /\ g1 = g - w /\ End \in Nat
    BY <2>1, AtEdge
  <2> HIDE DEF n, n1, w, g, g1
  <2>5. Len(due) = n1 + g1
    <3>1. Len(due) = n + g
      BY <2>3 DEF n, g
    <3> QED BY <1>3, <1>4, <1>5, <2>4, <3>1
  <2>6. ASSUME NEW i \in 1 .. g1 PROVE due[n1 + i] = mem'[End - g1 + i - 1]
    <3>1. i \in Nat /\ i + w \in 1 .. g /\ g > 0
      BY <1>4, <2>4
    <3>2. due[n + (i + w)] = mem[End - g + (i + w) - 1]
      BY <2>3, <3>1 DEF n, g
    <3>3. n + (i + w) = n1 + i /\ End - g + (i + w) - 1 = End - g1 + i - 1
      BY <1>3, <1>4, <1>5, <2>4, <3>1
    <3>4. mem' = mem
      BY <2>1, <3>1 DEF g
    <3> QED BY <3>2, <3>3, <3>4
  <2> QED BY <2>5, <2>6 DEF g1
<1>8. ASSUME txState' \in {"FIRST", "SECOND"}, txValid'[1]
      PROVE  n1 < Len(due) /\ txBuf'[1] = due[n1 + 1]
  <2>1. ~dmaStop
    BY <1>8, FifoRegisters DEF NextTxState
  <2>2. txState # "IDLE"
    <3> SUFFICES ASSUME txState = "IDLE" PROVE FALSE
      OBVIOUS
    <3>1. txState' \in {"WAIT", "IDLE"}
      BY <2>1, FifoRegisters DEF NextTxState
    <3> QED BY <1>8, <3>1
  <2>3. /\ ~job.write /\ job # NoJob /\ mem' = mem /\ ~dmaStart /\ ~scb.start
        /\ BytesHeld' /\ ToCome' = ToCome - w
    BY <1>8, <2>1, <2>2, SpreadEdge
  <2>4. ToSpread = ToCome
    BY <2>2, <2>3 DEF ToSpread, ToCome
  <2>5. Streams
    <3>1. busy
      BY <2>2, JobThere
    <3> QED BY <1>1, <2>1, <3>1 DEF Streams, Commands, FlowTyped
  <2>6. /\ Len(due) = n + ToCome
        /\ \A i \in 1 .. ToCome : due[n + i] = mem[End - ToCome + i - 1]
    BY <1>1, <2>4, <2>5 DEF DownstreamOk
  <2>7. InTx' \in {1, 2}
    BY <1>8 DEF InTx, TxSpreads, LaneCount
  <2>8. ToCome' > 0
    <3> DEFINE x == InTx'
               b == InBuffer'
               o == OnBus'
               l == left'
    <3>1. ToCome' = x + b + o + l
      BY DEF ToCome
    <3>2. x \in {1, 2} /\ b \in {0, 1, 2} /\ o \in {0, 1, 2} /\ l \in Nat
      BY <2>7, NumbersAfter
    <3> HIDE DEF x, b, o, l
    <3> QED BY <3>1, <3>2
  <2>9. ToCome \in Nat /\ ToCome' \in Nat /\ End \in Nat /\ Read' - InTx' = End - ToCome'
    BY SpreadNumbers, NumbersAfter
  <2>10. txBuf'[1] = mem[Read' - InTx']
    BY <1>8, <2>3 DEF BytesHeld, TxSpreads, Holds
  <2> DEFINE g == ToCome
             g1 == ToCome'
  <2>11. Len(due) = n + g /\ g1 = g - w /\ g1 > 0 /\ g \in Nat /\ g1 \in Nat
    BY <2>3, <2>6, <2>8, <2>9
  <2>12. txBuf'[1] = mem[End - g1]
    BY <2>9, <2>10
  <2>13. \A i \in 1 .. g : due[n + i] = mem[End - g + i - 1]
    BY <2>6
  <2>14. End \in Nat /\ n1 = n + w /\ n \in Nat /\ w \in {0, 1}
    BY <1>3, <1>4, <1>5, <2>9
  <2> HIDE DEF g, g1, n, n1, w
  <2>15. n1 < Len(due)
    BY <2>11, <2>14
  <2>16. w + 1 \in 1 .. g
    BY <2>11, <2>14
  <2>17. due[n + (w + 1)] = mem[End - g + (w + 1) - 1]
    BY <2>13, <2>16
  <2>18. n + (w + 1) = n1 + 1 /\ End - g + (w + 1) - 1 = End - g1
    BY <2>11, <2>14
  <2> QED BY <2>12, <2>15, <2>17, <2>18
<1>9. due' = due /\ End' = End
  BY <1>2, EndStays
<1> QED BY <1>5, <1>7, <1>8, <1>9 DEF DownstreamOk, TxSpreads

-----------------------------------------------------------------------------
(* The invariant.                                                           *)

\* The types stay.
LEMMA FlowTypedAtEdge ==
  ASSUME PathInv, FlowInv, NEW now \in BOOLEAN, Tick(now)
  PROVE  FlowTyped'
<1>1. FlowTyped /\ EngineTyped /\ BytesTyped
  BY AtEdge
<1>2. UNCHANGED <<ftState, ftCmd, polls, rxByte, rxFailed, txOut, txFailed, resetState,
                  resetReply, replyPending, flushBusy, toDev, toHost, dtr, dsr,
                  job, turn, ctl, lastReset, host, sent, taken, first, due, before>>
  BY EdgeLeaves
<1>3. mem' \in [0 .. Cells - 1 -> Bytes]
  BY WordWritten
<1>4. txBuf[1] \in Bytes /\ txBuf[2] \in Bytes /\ None \in Bytes
      /\ txValid[1] \in BOOLEAN /\ txValid[2] \in BOOLEAN
  BY <1>1 DEF FlowTyped, Bytes
<1>5. txFifo' \in Seq(Bytes)
  <2>1. Append(txFifo, txBuf[1]) \in Seq(Bytes)
    BY <1>1, <1>4 DEF FlowTyped
  <2> QED BY <1>1, <2>1, FifoRegisters DEF FlowTyped
<1>6. rBuf' \in Bytes \X Bytes
  <2>1. Acks => Word(bus.address) \in Bytes \X Bytes
    <3> SUFFICES ASSUME Acks PROVE Word(bus.address) \in Bytes \X Bytes
      OBVIOUS
    <3>1. bus.address \in Nat /\ bus.address + 1 < Cells /\ Cells \in Nat
      BY AtEdge, WordOnBus
    <3>2. bus.address \in 0 .. Cells - 1 /\ bus.address + 1 \in 0 .. Cells - 1
      BY <3>1
    <3>3. mem[bus.address] \in Bytes /\ mem[bus.address + 1] \in Bytes
      BY <1>1, <3>2 DEF FlowTyped
    <3> QED BY <3>3 DEF Word
  <2> QED BY <1>1, <2>1, FifoRegisters DEF FlowTyped
<1>7. txBuf' \in Bytes \X Bytes
  <2>1. txBuf' \in {rBuf, <<txBuf[2], None>>, txBuf}
    BY FifoRegisters
  <2>2. <<txBuf[2], None>> \in Bytes \X Bytes
    BY <1>4
  <2> QED BY <1>1, <2>1, <2>2 DEF FlowTyped
<1>8. txValid' \in BOOLEAN \X BOOLEAN
  <2>1. txValid' \in {rMask, <<txValid[2], FALSE>>, txValid}
    BY FifoRegisters
  <2>2. <<txValid[2], FALSE>> \in BOOLEAN \X BOOLEAN
    BY <1>4
  <2> QED BY <1>1, <2>1, <2>2, AtEdge DEF FlowTyped
<1>9. rMask' \in {Both, High, Low}
  <2>1. bus.mask \in {Both, High, Low}
    BY AtEdge
  <2> QED BY <1>1, <2>1, FifoRegisters DEF FlowTyped
<1>10. rxState' \in {"IDLE", "FIRST", "SECOND", "ACK"}
  BY <1>1, FifoRegisters DEF FlowTyped, NextRxState
<1>11. txState' \in {"IDLE", "WAIT", "FIRST", "SECOND"}
  BY <1>1, FifoRegisters DEF FlowTyped, NextTxState
<1>12. {dmaStop, wEmpty, wReady, rReady, rAck, rEnd, shifted, txWaiting, lastReset, resetState,
        resetReply, replyPending, dtr, dsr, flushBusy, rxFailed, txFailed} \subseteq BOOLEAN
  BY <1>1 DEF FlowTyped
<1>13. dmaStop' \in BOOLEAN /\ wReady' \in BOOLEAN /\ rAck' \in BOOLEAN /\ shifted' \in BOOLEAN
  BY FifoRegisters, AtEdge DEF RxShifts
<1>14. rEnd' \in BOOLEAN /\ txWaiting' \in BOOLEAN
  BY <1>12, FifoRegisters DEF LastWord
<1>15. rReady' \in BOOLEAN
  <2>1. CASE txState = "IDLE"
    BY <2>1, FifoRegisters
  <2>2. CASE txState = "WAIT"
    BY <2>2, FifoRegisters
  <2>3. CASE txState = "FIRST"
    BY <1>12, <2>3, FifoRegisters
  <2>4. CASE txState = "SECOND"
    BY <1>12, <2>4, FifoRegisters
  <2> QED BY <1>1, <2>1, <2>2, <2>3, <2>4 DEF FlowTyped
<1>16. wEmpty' \in BOOLEAN
  BY DEF Tick, DmaTick, MemoryBus
<1>17. {dmaStop, wEmpty, wReady, rReady, rAck, rEnd, shifted, txWaiting, lastReset, resetState,
        resetReply, replyPending, dtr, dsr, flushBusy, rxFailed, txFailed}' \subseteq BOOLEAN
  BY <1>2, <1>12, <1>13, <1>14, <1>15, <1>16
<1>18. NoJob' = NoJob
  BY DEF NoJob
<1> QED BY <1>1, <1>2, <1>3, <1>5, <1>6, <1>7, <1>8, <1>9, <1>10, <1>11, <1>17, <1>18
       DEF FlowTyped, Bytes

\* An edge of the clock.
LEMMA TickKeeps ==
  ASSUME PathInv, FlowInv, NEW now \in BOOLEAN, Tick(now)
  PROVE  FlowInv'
<1>1. EnginePart'
  BY BusAtEdge, GathersAtEdge, GatheredAtEdge, WrittenAtEdge, SpreadsAtEdge, SpreadAtEdge
     DEF EnginePart
<1> QED BY <1>1, FlowTypedAtEdge, HandshakeAtEdge, CommandsAtEdge, UpstreamAtEdge,
          DownstreamAtEdge DEF FlowInv

\* Nothing has moved yet.
LEMMA FlowInit == Init => FlowInv
<1> SUFFICES ASSUME Init PROVE FlowInv
  OBVIOUS
<1> USE DEF Init, FtInit, DmaInit
<1>1. 0 \in Bytes /\ None \in Bytes /\ <<>> \in Seq(Bytes)
  BY MemoryAssumption DEF Bytes
<1>2. FlowTyped
  <2>1. mem \in [0 .. Cells - 1 -> Bytes] /\ before \in [0 .. Cells - 1 -> Bytes]
    <3>1. \A a \in 0 .. Cells - 1 : -(a + 1) \in Bytes
      BY MemoryAssumption DEF Bytes
    <3> QED BY <3>1
  <2>2. Both \in BOOLEAN \X BOOLEAN
    BY DEF Both
  <2>3. {dmaStop, wEmpty, wReady, rReady, rAck, rEnd, shifted, txWaiting, lastReset, resetState,
         resetReply, replyPending, dtr, dsr, flushBusy, rxFailed, txFailed} \subseteq BOOLEAN
    OBVIOUS
  <2> QED BY <1>1, <2>1, <2>2, <2>3 DEF FlowTyped
<1>3. Upstream = <<>> /\ Downstream = <<>> /\ due = <<>>
  BY DEF Upstream, Downstream, RxHeld, TxHeld
<1>4. Handshake
  BY DEF Handshake, Cleared
<1>5. ~job.write /\ job = NoJob
  BY DEF NoJob
<1>6. Commands
  BY <1>5 DEF Commands, Quiet
<1>7. BusOk
  BY DEF BusOk, Moving, Finished
<1>8. Gathers /\ GatheredOk
  BY <1>5 DEF Gathers, GatheredOk, Moving
<1>9. WrittenOk
  BY <1>5 DEF WrittenOk
<1>10. Spreads /\ SpreadOk /\ ~TxSpreads
  BY <1>5 DEF Spreads, SpreadOk, Moving, TxSpreads
<1>11. ToGather = 0 /\ ToSpread = 0
  BY <1>5 DEF ToGather, ToSpread
<1>12. UpstreamOk
  <2>1. Len(Upstream) = 0 /\ 1 .. 0 = {}
    BY <1>3
  <2>2. sent - taken + ToGather = 0
    BY <1>11
  <2> QED BY <2>1, <2>2 DEF UpstreamOk
<1>13. DownstreamOk
  <2>1. IsPrefixOf(Downstream, due)
    <3> DEFINE e == <<>>
    <3>1. e \in Seq(Bytes) /\ Len(e) = 0
      BY <1>1
    <3>2. IsPrefixOf(e, e)
      <4> HIDE DEF e
      <4>1. IsPrefixOf(e, e) <=> Len(e) <= Len(e) /\ \A i \in 1 .. Len(e) : e[i] = e[i]
        BY <3>1, PrefixMembers
      <4> QED BY <3>1, <4>1
    <3> QED BY <1>3, <3>2
  <2>2. Len(Downstream) = 0 /\ Len(due) = 0 /\ 1 .. 0 = {} /\ 0 + 0 = 0
    BY <1>3
  <2> QED BY <1>10, <1>11, <2>1, <2>2 DEF DownstreamOk
<1>14. Transactions
  BY DEF Transactions
<1> QED BY <1>2, <1>4, <1>6, <1>7, <1>8, <1>9, <1>10, <1>12, <1>13, <1>14 DEF FlowInv, EnginePart

\* No step of the clock, the controller, the USB interface or the host breaks it.
LEMMA FlowNext ==
  ASSUME PathInv, FlowInv, [Next]_vars
  PROVE  FlowInv'
<1>1. ASSUME Clock PROVE FlowInv'
  BY <1>1, TickKeeps DEF Clock
<1>2. ASSUME Transfers PROVE FlowInv'
  BY <1>2, PopKeeps, PushKeeps, StartKeeps DEF Transfers
<1>3. ASSUME Resets PROVE FlowInv'
  BY <1>3, ResetDmaKeeps, ResetFifosKeeps, ResetAckKeeps DEF Resets
<1>4. ASSUME FtStep PROVE FlowInv'
  BY <1>4, FtKeeps
<1>5. ASSUME HostSend \/ HostReceive \/ HostResets PROVE FlowInv'
  BY <1>5, HostKeeps
<1>6. ASSUME UNCHANGED vars PROVE FlowInv'
  <2> USE <1>6 DEF vars, ftVars, dmaVars, clockVars, ctlVars, ghosts, busVars, rxSide, txSide,
                   rxVars, txVars, modemVars, chipVars
  <2>1. EnginePart' /\ ToGather' = ToGather /\ ToSpread' = ToSpread /\ End' = End
    BY EngineKept DEF FlowInv, engine
  <2>2. Upstream' = Upstream /\ Downstream' = Downstream /\ Cleared' = Cleared /\ NoJob' = NoJob
    BY DEF Upstream, Downstream, RxHeld, TxHeld, Cleared, NoJob
  <2>3. Handshake' /\ Transactions'
    BY <2>2 DEF FlowInv, Handshake, Transactions
  <2>4. Commands'
    BY <2>2 DEF FlowInv, Commands, Quiet, DmaReady
  <2>5. UpstreamOk'
    BY <2>1, <2>2 DEF FlowInv, UpstreamOk
  <2>6. DownstreamOk'
    BY <2>1, <2>2 DEF FlowInv, DownstreamOk, Streams, TxSpreads
  <2>7. FlowTyped'
    BY <2>2 DEF FlowInv, FlowTyped
  <2> QED BY <2>1, <2>3, <2>4, <2>5, <2>6, <2>7 DEF FlowInv
<1> QED BY <1>1, <1>2, <1>3, <1>4, <1>5, <1>6 DEF Next

\* Every byte on its way is where it should be between any two steps of the
\* clock, the controller, the USB interface and the host (memory_dma.sv,
\* usb_ft1248.sv:153-190, usb.c:87-172).
THEOREM BytesAccounted == Spec => []FlowInv
<1>1. PathInv /\ FlowInv /\ [Next]_vars => FlowInv'
  BY FlowNext
<1> QED BY <1>1, FlowInit, PathFollowed, PTL DEF Spec

\* The engine has no more bytes to take than the job has.
LEMMA GatherBounded ==
  ASSUME PathInv, FlowInv, ctl = "run", job.write
  PROVE  ToGather \in 0 .. job.length
<1>1. Commands /\ BusOk /\ Gathers /\ FlowTyped /\ left \in Nat /\ job.length \in Nat
  BY AtEdge DEF EnginePart
<1>2. job # NoJob
  BY DEF NoJob
<1>3. CASE scb.start \/ dmaStart
  BY <1>1, <1>3 DEF ToGather
<1>4. CASE ~scb.start /\ ~dmaStart
  <2>1. ~dmaStop /\ ~scb.stop
    BY <1>1, <1>2, <1>4 DEF Commands
  <2>2. left <= job.length
    <3>1. CASE Moving
      BY <1>1, <3>1 DEF BusOk
    <3>2. CASE ~Moving
      BY <1>1, <1>2, <1>4, <2>1, <3>2 DEF BusOk, Finished, Moving
    <3> QED BY <3>1, <3>2
  <2>3. CASE rxState = "IDLE" \/ (rxState = "FIRST" /\ wEmpty)
    BY <1>1, <1>4, <2>2, <2>3 DEF ToGather
  <2>4. CASE rxState = "SECOND"
    <3>1. left > 0
      BY <1>1, <2>1, <2>4 DEF Gathers
    <3>2. ToGather = left - IF WordLanes[1] THEN 1 ELSE 0
      BY <1>4, <2>4 DEF ToGather
    <3> QED BY <1>1, <2>2, <3>1, <3>2
  <2>5. CASE rxState = "ACK" \/ (rxState = "FIRST" /\ ~wEmpty)
    <3>1. Moving /\ left > 0
      BY <1>1, <2>1, <2>5 DEF Gathers, Moving
    <3>2. LaneCount(NextLanes) \in {1, 2} /\ LaneCount(NextLanes) <= left
      BY <3>1, LanesLeft
    <3>3. ToGather = left - LaneCount(NextLanes)
      BY <1>4, <2>5 DEF ToGather
    <3> DEFINE c == LaneCount(NextLanes)
    <3>4. c \in {1, 2} /\ c <= left /\ ToGather = left - c
      BY <3>2, <3>3
    <3> HIDE DEF c
    <3> QED BY <1>1, <2>2, <3>4
  <2> QED BY <1>1, <2>3, <2>4, <2>5 DEF FlowTyped
<1> QED BY <1>3, <1>4

\* A transfer to the memory puts the host's bytes in their places and changes
\* nothing else, one from the memory changes nothing, and when the engine is
\* ready again no byte is missing; after a reset has gone on to flush the FIFOs
\* nothing more is written (memory_dma.sv:126-172, usb.c:134-172).
THEOREM PayloadArrives == Spec => []PayloadInPlace
<1>1. ASSUME PathInv, FlowInv PROVE PayloadInPlace
  <2>1. WrittenOk /\ Commands /\ Requests
    BY <1>1, AtEdge DEF EnginePart
  <2>2. ASSUME NEW a \in 0 .. Cells - 1
        PROVE  \/ mem[a] = before[a]
               \/ job.write /\ a \in Window /\ mem[a] = first + a - job.address
    BY <2>1 DEF WrittenOk, Due
  <2>3. ASSUME job.write, DmaReady, ~Stopped, NEW a \in Window
        PROVE  mem[a] = first + a - job.address
    <3>1. job # NoJob /\ ctl = "run"
      BY <2>3 DEF NoJob, Stopped
    <3>2. Quiet /\ ~dmaStart /\ ~scb.start /\ ~scb.stop
      BY <2>1, <2>3, Ready
    <3>3. ~dmaStop
      BY <2>1, <3>1, <3>2 DEF Commands
    <3>4. Finished
      BY <3>1, <3>2, <3>3 DEF Finished, Quiet
    <3> QED BY <2>1, <2>3, <3>4 DEF WrittenOk, Due
  <2> QED BY <2>2, <2>3 DEF PayloadInPlace
<1> QED BY <1>1, BytesAccounted, PathFollowed, PTL

\* No byte is lost, doubled or moved before another, either way: the bytes on
\* their way to the controller are those nobody has taken, whatever the address
\* and the length of a transfer and whatever the full FIFO refused, and what the
\* host receives is what the controller had sent; after a reset nothing of the
\* time before is left (memory_dma.sv, usb_ft1248.sv:153-190, usb.c:87-172).
THEOREM BytesKeepOrder == Spec => []BytesInOrder
<1>1. ASSUME PathInv, FlowInv PROVE UpstreamInOrder
  <2> SUFFICES ASSUME host = "up", ~Stopped
               PROVE  IF job.write /\ ~DmaReady
                        THEN \E n \in 0 .. job.length :
                               Upstream = [i \in 1 .. sent - taken + n |-> taken - n + i]
                        ELSE Upstream = [i \in 1 .. sent - taken |-> taken + i]
    BY DEF UpstreamInOrder
  <2>1. UpstreamOk /\ Commands /\ Requests /\ FlowTyped /\ BytesTyped /\ sent \in Nat /\ taken \in Nat
    BY <1>1, AtEdge DEF FlowInv
  <2>2. ctl = "run"
    BY DEF Stopped
  <2> DEFINE g == ToGather
             u == Upstream
  <2>3. Len(u) = sent - taken + g /\ \A i \in 1 .. Len(u) : u[i] = taken - g + i
    BY <2>1, <2>2 DEF UpstreamOk
  <2>4. u \in Seq(Bytes)
    BY <2>1, WaysTyped
  <2>5. u = [i \in 1 .. sent - taken + g |-> taken - g + i]
    <3>1. u = [i \in 1 .. Len(u) |-> u[i]]
      <4> HIDE DEF u
      <4> QED BY <2>4
    <3> HIDE DEF u, g
    <3> QED BY <2>3, <3>1
  <2>6. CASE job.write /\ ~DmaReady
    <3>1. g \in 0 .. job.length
      BY <1>1, <2>2, <2>6, GatherBounded
    <3> HIDE DEF g, u
    <3>2. \E n \in 0 .. job.length : u = [i \in 1 .. sent - taken + n |-> taken - n + i]
      BY <2>5, <3>1
    <3> QED BY <2>6, <3>2 DEF u
  <2>7. CASE ~(job.write /\ ~DmaReady)
    <3>1. g = 0
      <4>1. CASE ~job.write
        BY <4>1 DEF ToGather
      <4>2. CASE DmaReady
        BY <2>1, <4>2, Ready
      <4> QED BY <2>7, <4>1, <4>2
    <3>2. sent - taken + g = sent - taken /\ \A i \in 1 .. sent - taken : taken - g + i = taken + i
      <4> HIDE DEF g
      <4> QED BY <2>1, <3>1
    <3>3. u = [i \in 1 .. sent - taken |-> taken + i]
      <4> HIDE DEF g, u
      <4> QED BY <2>5, <3>2
    <3> QED BY <2>7, <3>3
  <2> QED BY <2>6, <2>7
<1>2. ASSUME PathInv, FlowInv PROVE DownstreamInOrder
  <2>1. DownstreamOk /\ Commands /\ Requests /\ FlowTyped /\ BytesTyped
    BY <1>2, AtEdge DEF FlowInv
  <2>2. DmaReady => Len(Downstream) = Len(due) \/ Stopped
    <3> SUFFICES ASSUME DmaReady, ~Stopped PROVE Len(Downstream) = Len(due)
      OBVIOUS
    <3>1. ToSpread = 0
      BY <2>1, Ready
    <3>2. Len(due) = Len(Downstream) + ToSpread
      BY <2>1 DEF DownstreamOk, Streams, Stopped
    <3>3. Len(Downstream) \in Nat /\ Len(due) \in Nat
      BY <2>1, WaysTyped
    <3> QED BY <3>1, <3>2, <3>3
  <2> QED BY <2>1, <2>2 DEF DownstreamOk, DownstreamInOrder
<1>3. PathInv /\ FlowInv => BytesInOrder
  BY <1>1, <1>2 DEF BytesInOrder
<1> QED BY <1>3, BytesAccounted, PathFollowed, PTL
=============================================================================
