----------------------------- MODULE UsbProofs -----------------------------
(***************************************************************************)
(* Proofs about UsbController.tla, for every set of commands, producers    *)
(* and lengths, and every size of the FIFOs.                               *)
(*                                                                         *)
(* CallbackOwed, DmaOwned and ReadHandshake are proved together: which     *)
(* machine owns the DMA engine decides whether the N64 may replace its     *)
(* read window, and Shape says which fields of an idle machine are clear.  *)
(* The framing of the two streams and the order of the responses are       *)
(* proved on top of them.                                                  *)
(***************************************************************************)
EXTENDS UsbController, TLAPS, WellFoundedInduction

Shape ==
  /\ pkt.cb => pktPending /\ pkt.id \in CallbackSources
  /\ tx.cb => txState # "IDLE" /\ tx.id \in CallbackSources
  /\ ~resp.cb
  /\ rxDma => rxState \in {"DATA", "FLUSH"}
  /\ rxDma /\ rxState = "DATA" => rxCmd.op \in {"M", "U"}
  /\ rxDma /\ rxState = "DATA" /\ rxCmd.op = "U" => rxLeft > 0 /\ readLen > 0

Inv == TypeOK /\ Shape /\ CallbackOwed /\ DmaOwned /\ ReadHandshake

\* The smaller of two lengths (usb.c:362, 595).
LEMMA MinBounds ==
  ASSUME NEW a \in Nat, NEW b \in Nat
  PROVE  Min2(a, b) \in Nat /\ Min2(a, b) <= a /\ Min2(a, b) <= b
BY DEF Min2

\* The callbacks of a producer's packets are counted (usb.c:174-183).
LEMMA CallbacksCounted == \A s : HandBack(s) \in Nat
BY DEF HandBack

\* The link: resets, suspensions and the turns that find it up (usb.c:152-199,
\* 751-759).
LEMMA LinkSteps ==
  ASSUME Inv, PollResetOn \/ PollInactive \/ PollActive
  PROVE  Inv'
<1> USE DEF hostVars, rxVars, respVars, pktVars, txVars, readVars, dmaVars, ctrlVars, vars
<1>1. ASSUME PollResetOn PROVE Inv'
  <2>1. LinkType'
    BY <1>1 DEF PollResetOn, ResetState, HandBack, InSlot, InFlight, ResetRequested, NoCmd, NoMsg, Inv, TypeOK, LinkType
  <2>2. RxType'
    BY <1>1, CommandsAssumption DEF PollResetOn, ResetState, HandBack, InSlot, InFlight, ResetRequested, NoCmd, NoMsg, Inv, TypeOK, RxType, CommandType, Ops
  <2>3. TxType'
    <3>1. NoMsg \in MessageType
      BY DEF NoMsg, MessageType, Ops
    <3>2. calls' \in [CallbackSources -> Int]
      BY <1>1, CallbacksCounted DEF PollResetOn, Inv, TypeOK, TxType
    <3>3. QED BY <1>1, <3>1, <3>2 DEF PollResetOn, ResetState, Inv, TypeOK, TxType
  <2>4. Shape'
    BY <1>1 DEF PollResetOn, ResetState, HandBack, InSlot, InFlight, ResetRequested, NoCmd, NoMsg, Inv, TypeOK, LinkType, RxType, TxType, Shape, DmaOwned, ReadHandshake, DmaReady, ReadWindow, Min2
  <2>5. CallbackOwed'
    BY <1>1, SourcesAssumption DEF PollResetOn, ResetState, HandBack, InSlot, InFlight, ResetRequested, NoCmd, NoMsg, Inv, TypeOK, TxType, Shape, CallbackOwed, HandBack, InSlot, InFlight, Sources, Ops
  <2>6. DmaOwned'
    BY <1>1 DEF PollResetOn, ResetState, HandBack, InSlot, InFlight, ResetRequested, NoCmd, NoMsg, Inv, TypeOK, LinkType, RxType, TxType, Shape, DmaOwned, DmaReady, ReadWindow, Min2
  <2>7. ReadHandshake'
    BY <1>1 DEF PollResetOn, ResetState, HandBack, InSlot, InFlight, ResetRequested, NoCmd, NoMsg, Inv, TypeOK, LinkType, RxType, TxType, Shape, DmaOwned, ReadHandshake, DmaReady, ReadWindow, Min2
  <2>8. QED BY <2>1, <2>2, <2>3, <2>4, <2>5, <2>6, <2>7 DEF Inv, TypeOK
<1>2. ASSUME PollInactive PROVE Inv'
  <2>1. LinkType'
    BY <1>2 DEF PollInactive, FlushPacket, HandBack, InSlot, InFlight, ResetRequested, NoMsg, Inv, TypeOK, LinkType
  <2>2. RxType'
    BY <1>2, CommandsAssumption DEF PollInactive, FlushPacket, HandBack, InSlot, InFlight, ResetRequested, NoMsg, Inv, TypeOK, RxType, CommandType, Ops
  <2>3. TxType'
    <3>1. NoMsg \in MessageType /\ tx' \in MessageType
      BY <1>2 DEF PollInactive, NoMsg, MessageType, Ops, Inv, TypeOK, TxType
    <3>2. calls' \in [CallbackSources -> Int]
      BY <1>2, CallbacksCounted DEF PollInactive, FlushPacket, Inv, TypeOK, TxType
    <3>3. QED BY <1>2, <3>1, <3>2 DEF PollInactive, FlushPacket, Inv, TypeOK, TxType
  <2>4. Shape'
    BY <1>2 DEF PollInactive, FlushPacket, HandBack, InSlot, InFlight, ResetRequested, NoMsg, Inv, TypeOK, LinkType, RxType, TxType, Shape, DmaOwned, ReadHandshake, DmaReady, ReadWindow, Min2
  <2>5. CallbackOwed'
    <3>1. \A s \in CallbackSources : HandBack(s)' = 0
      BY <1>2 DEF PollInactive, FlushPacket, HandBack, InSlot, InFlight, NoMsg, Inv, TypeOK, TxType, MessageType, Shape
    <3>2. \A s \in CallbackSources : calls'[s] = 0
      BY <1>2, CallbacksCounted DEF PollInactive, FlushPacket, Inv, CallbackOwed
    <3>3. QED BY <3>1, <3>2 DEF CallbackOwed, HandBack, InSlot, InFlight
  <2>6. DmaOwned'
    BY <1>2 DEF PollInactive, FlushPacket, HandBack, InSlot, InFlight, ResetRequested, NoMsg, Inv, TypeOK, LinkType, RxType, TxType, Shape, DmaOwned, DmaReady, ReadWindow, Min2
  <2>7. ReadHandshake'
    BY <1>2 DEF PollInactive, FlushPacket, HandBack, InSlot, InFlight, ResetRequested, NoMsg, Inv, TypeOK, LinkType, RxType, TxType, Shape, DmaOwned, ReadHandshake, DmaReady, ReadWindow, Min2
  <2>8. QED BY <2>1, <2>2, <2>3, <2>4, <2>5, <2>6, <2>7 DEF Inv, TypeOK
<1>3. ASSUME PollActive PROVE Inv'
  <2>1. LinkType'
    BY <1>3 DEF PollActive, Inv, TypeOK, LinkType
  <2>2. RxType'
    BY <1>3, CommandsAssumption DEF PollActive, Inv, TypeOK, RxType, CommandType, Ops
  <2>3. TxType'
    BY <1>3 DEF PollActive, Inv, TypeOK, TxType, RxType, MessageType, CommandType, Ops, Sources
  <2>4. Shape'
    BY <1>3 DEF PollActive, Inv, TypeOK, LinkType, RxType, TxType, Shape, DmaOwned, ReadHandshake, DmaReady, ReadWindow, Min2
  <2>5. CallbackOwed'
    BY <1>3, SourcesAssumption DEF PollActive, Inv, TypeOK, TxType, Shape, CallbackOwed, HandBack, InSlot, InFlight, Sources, Ops
  <2>6. DmaOwned'
    BY <1>3 DEF PollActive, Inv, TypeOK, LinkType, RxType, TxType, Shape, DmaOwned, DmaReady, ReadWindow, Min2
  <2>7. ReadHandshake'
    BY <1>3 DEF PollActive, Inv, TypeOK, LinkType, RxType, TxType, Shape, DmaOwned, ReadHandshake, DmaReady, ReadWindow, Min2
  <2>8. QED BY <2>1, <2>2, <2>3, <2>4, <2>5, <2>6, <2>7 DEF Inv, TypeOK
<1>4. QED BY <1>1, <1>2, <1>3

\* usb_rx_process (usb.c:223-624).
LEMMA RxSteps ==
  ASSUME Inv, RxProcess
  PROVE  Inv'
<1> USE DEF hostVars, rxVars, respVars, pktVars, txVars, readVars, dmaVars, ctrlVars, vars
<1>1. ASSUME RxNothing PROVE Inv'
  <2>1. LinkType'
    BY <1>1 DEF RxNothing, RxWait, InRx, Inv, TypeOK, LinkType
  <2>2. RxType'
    BY <1>1, CommandsAssumption DEF RxNothing, RxWait, InRx, Inv, TypeOK, RxType, CommandType, Ops
  <2>3. TxType'
    BY <1>1 DEF RxNothing, RxWait, InRx, Inv, TypeOK, TxType, RxType, MessageType, CommandType, Ops, Sources
  <2>4. Shape'
    BY <1>1 DEF RxNothing, RxWait, InRx, Inv, TypeOK, LinkType, RxType, TxType, Shape, DmaOwned, ReadHandshake, DmaReady, ReadWindow, Min2
  <2>5. CallbackOwed'
    BY <1>1, SourcesAssumption DEF RxNothing, RxWait, InRx, Inv, TypeOK, TxType, Shape, CallbackOwed, HandBack, InSlot, InFlight, Sources, Ops
  <2>6. DmaOwned'
    BY <1>1 DEF RxNothing, RxWait, InRx, Inv, TypeOK, LinkType, RxType, TxType, Shape, DmaOwned, DmaReady, ReadWindow, Min2
  <2>7. ReadHandshake'
    BY <1>1 DEF RxNothing, RxWait, InRx, Inv, TypeOK, LinkType, RxType, TxType, Shape, DmaOwned, ReadHandshake, DmaReady, ReadWindow, Min2
  <2>8. QED BY <2>1, <2>2, <2>3, <2>4, <2>5, <2>6, <2>7 DEF Inv, TypeOK
<1>2. ASSUME RxIdle PROVE Inv'
  <2>1. LinkType'
    BY <1>2 DEF RxIdle, CommandComes, Inv, TypeOK, LinkType
  <2>2. RxType'
    <3>1. rxCmd' \in CommandType
      <4>1. Head(rxq) \in ItemType /\ Head(rxq).t = "cmd"
        BY <1>2 DEF RxIdle, CommandComes, Inv, TypeOK, LinkType
      <4>2. Head(rxq).c \in Commands
        BY <4>1 DEF ItemType
      <4>3. QED BY <1>2, <4>2, CommandsAssumption DEF RxIdle
    <3>2. QED BY <1>2, <3>1 DEF RxIdle, Inv, TypeOK, RxType
  <2>3. TxType'
    BY <1>2 DEF RxIdle, InRx, Inv, TypeOK, TxType, RxType, MessageType, CommandType, Ops, Sources
  <2>4. Shape'
    BY <1>2 DEF RxIdle, InRx, Inv, TypeOK, LinkType, RxType, TxType, Shape, DmaOwned, ReadHandshake, DmaReady, ReadWindow, Min2
  <2>5. CallbackOwed'
    BY <1>2, SourcesAssumption DEF RxIdle, InRx, Inv, TypeOK, TxType, Shape, CallbackOwed, HandBack, InSlot, InFlight, Sources, Ops
  <2>6. DmaOwned'
    BY <1>2 DEF RxIdle, InRx, Inv, TypeOK, LinkType, RxType, TxType, Shape, DmaOwned, DmaReady, ReadWindow, Min2
  <2>7. ReadHandshake'
    BY <1>2 DEF RxIdle, InRx, Inv, TypeOK, LinkType, RxType, TxType, Shape, DmaOwned, ReadHandshake, DmaReady, ReadWindow, Min2
  <2>8. QED BY <2>1, <2>2, <2>3, <2>4, <2>5, <2>6, <2>7 DEF Inv, TypeOK
<1>3. ASSUME RxArgs PROVE Inv'
  <2>1. LinkType'
    BY <1>3 DEF RxArgs, InRx, Inv, TypeOK, LinkType
  <2>2. RxType'
    BY <1>3, CommandsAssumption DEF RxArgs, InRx, Inv, TypeOK, RxType, CommandType, Ops
  <2>3. TxType'
    BY <1>3 DEF RxArgs, InRx, Inv, TypeOK, TxType, RxType, MessageType, CommandType, Ops, Sources
  <2>4. Shape'
    BY <1>3 DEF RxArgs, InRx, Inv, TypeOK, LinkType, RxType, TxType, Shape, DmaOwned, ReadHandshake, DmaReady, ReadWindow, Min2
  <2>5. CallbackOwed'
    BY <1>3, SourcesAssumption DEF RxArgs, InRx, Inv, TypeOK, TxType, Shape, CallbackOwed, HandBack, InSlot, InFlight, Sources, Ops
  <2>6. DmaOwned'
    BY <1>3 DEF RxArgs, InRx, Inv, TypeOK, LinkType, RxType, TxType, Shape, DmaOwned, DmaReady, ReadWindow, Min2
  <2>7. ReadHandshake'
    BY <1>3 DEF RxArgs, InRx, Inv, TypeOK, LinkType, RxType, TxType, Shape, DmaOwned, ReadHandshake, DmaReady, ReadWindow, Min2
  <2>8. QED BY <2>1, <2>2, <2>3, <2>4, <2>5, <2>6, <2>7 DEF Inv, TypeOK
<1>4. ASSUME RxAnswer PROVE Inv'
  <2>1. LinkType'
    BY <1>4 DEF RxAnswer, InRx, Respond, Message, NoCmd, Inv, TypeOK, LinkType
  <2>2. RxType'
    BY <1>4, CommandsAssumption DEF RxAnswer, InRx, Respond, Message, NoCmd, Inv, TypeOK, RxType, CommandType, Ops
  <2>3. TxType'
    <3>1. rxCmd.op \in Ops /\ rxCmd.len \in Nat
      BY DEF Inv, TypeOK, RxType, CommandType
    <3>2. QED BY <1>4, <3>1 DEF RxAnswer, Respond, Message, Inv, TypeOK, TxType, MessageType
  <2>4. Shape'
    BY <1>4 DEF RxAnswer, InRx, Respond, Message, NoCmd, Inv, TypeOK, LinkType, RxType, TxType, Shape, DmaOwned, ReadHandshake, DmaReady, ReadWindow, Min2
  <2>5. CallbackOwed'
    BY <1>4, SourcesAssumption DEF RxAnswer, InRx, Respond, Message, NoCmd, Inv, TypeOK, TxType, Shape, CallbackOwed, HandBack, InSlot, InFlight, Sources, Ops
  <2>6. DmaOwned'
    BY <1>4 DEF RxAnswer, InRx, Respond, Message, NoCmd, Inv, TypeOK, LinkType, RxType, TxType, Shape, DmaOwned, DmaReady, ReadWindow, Min2
  <2>7. ReadHandshake'
    BY <1>4 DEF RxAnswer, InRx, Respond, Message, NoCmd, Inv, TypeOK, LinkType, RxType, TxType, Shape, DmaOwned, ReadHandshake, DmaReady, ReadWindow, Min2
  <2>8. QED BY <2>1, <2>2, <2>3, <2>4, <2>5, <2>6, <2>7 DEF Inv, TypeOK
<1>5. ASSUME RxWriteReject PROVE Inv'
  <2>1. LinkType'
    BY <1>5 DEF RxWriteReject, InRx, Inv, TypeOK, LinkType
  <2>2. RxType'
    BY <1>5, CommandsAssumption DEF RxWriteReject, InRx, Inv, TypeOK, RxType, CommandType, Ops
  <2>3. TxType'
    BY <1>5 DEF RxWriteReject, InRx, Inv, TypeOK, TxType, RxType, MessageType, CommandType, Ops, Sources
  <2>4. Shape'
    BY <1>5 DEF RxWriteReject, InRx, Inv, TypeOK, LinkType, RxType, TxType, Shape, DmaOwned, ReadHandshake, DmaReady, ReadWindow, Min2
  <2>5. CallbackOwed'
    BY <1>5, SourcesAssumption DEF RxWriteReject, InRx, Inv, TypeOK, TxType, Shape, CallbackOwed, HandBack, InSlot, InFlight, Sources, Ops
  <2>6. DmaOwned'
    BY <1>5 DEF RxWriteReject, InRx, Inv, TypeOK, LinkType, RxType, TxType, Shape, DmaOwned, DmaReady, ReadWindow, Min2
  <2>7. ReadHandshake'
    BY <1>5 DEF RxWriteReject, InRx, Inv, TypeOK, LinkType, RxType, TxType, Shape, DmaOwned, ReadHandshake, DmaReady, ReadWindow, Min2
  <2>8. QED BY <2>1, <2>2, <2>3, <2>4, <2>5, <2>6, <2>7 DEF Inv, TypeOK
<1>6. ASSUME RxWriteStart PROVE Inv'
  <2>1. LinkType'
    BY <1>6 DEF RxWriteStart, StartRxDma, Inv, TypeOK, LinkType, RxType
  <2>2. RxType'
    BY <1>6, CommandsAssumption DEF RxWriteStart, InRx, StartRxDma, Inv, TypeOK, RxType, CommandType, Ops
  <2>3. TxType'
    BY <1>6 DEF RxWriteStart, InRx, StartRxDma, Inv, TypeOK, TxType, RxType, MessageType, CommandType, Ops, Sources
  <2>4. Shape'
    BY <1>6 DEF RxWriteStart, InRx, StartRxDma, Inv, TypeOK, LinkType, RxType, TxType, Shape, DmaOwned, ReadHandshake, DmaReady, ReadWindow, Min2
  <2>5. CallbackOwed'
    BY <1>6, SourcesAssumption DEF RxWriteStart, InRx, StartRxDma, Inv, TypeOK, TxType, Shape, CallbackOwed, HandBack, InSlot, InFlight, Sources, Ops
  <2>6. DmaOwned'
    BY <1>6 DEF RxWriteStart, InRx, StartRxDma, Inv, TypeOK, LinkType, RxType, TxType, Shape, DmaOwned, DmaReady, ReadWindow, Min2
  <2>7. ReadHandshake'
    BY <1>6 DEF RxWriteStart, InRx, StartRxDma, Inv, TypeOK, LinkType, RxType, TxType, Shape, DmaOwned, ReadHandshake, DmaReady, ReadWindow, Min2
  <2>8. QED BY <2>1, <2>2, <2>3, <2>4, <2>5, <2>6, <2>7 DEF Inv, TypeOK
<1>7. ASSUME RxWriteDone PROVE Inv'
  <2>1. LinkType'
    BY <1>7 DEF RxWriteDone, InRx, Respond, Message, NoCmd, Inv, TypeOK, LinkType
  <2>2. RxType'
    BY <1>7, CommandsAssumption DEF RxWriteDone, InRx, Respond, Message, NoCmd, Inv, TypeOK, RxType, CommandType, Ops
  <2>3. TxType'
    <3>1. rxCmd.op \in Ops /\ rxCmd.len \in Nat
      BY DEF Inv, TypeOK, RxType, CommandType
    <3>2. QED BY <1>7, <3>1 DEF RxWriteDone, Respond, Message, Inv, TypeOK, TxType, MessageType
  <2>4. Shape'
    BY <1>7 DEF RxWriteDone, InRx, Respond, Message, NoCmd, Inv, TypeOK, LinkType, RxType, TxType, Shape, DmaOwned, ReadHandshake, DmaReady, ReadWindow, Min2
  <2>5. CallbackOwed'
    BY <1>7, SourcesAssumption DEF RxWriteDone, InRx, Respond, Message, NoCmd, Inv, TypeOK, TxType, Shape, CallbackOwed, HandBack, InSlot, InFlight, Sources, Ops
  <2>6. DmaOwned'
    BY <1>7 DEF RxWriteDone, InRx, Respond, Message, NoCmd, Inv, TypeOK, LinkType, RxType, TxType, Shape, DmaOwned, DmaReady, ReadWindow, Min2
  <2>7. ReadHandshake'
    BY <1>7 DEF RxWriteDone, InRx, Respond, Message, NoCmd, Inv, TypeOK, LinkType, RxType, TxType, Shape, DmaOwned, ReadHandshake, DmaReady, ReadWindow, Min2
  <2>8. QED BY <2>1, <2>2, <2>3, <2>4, <2>5, <2>6, <2>7 DEF Inv, TypeOK
<1>8. ASSUME RxDebugEnd PROVE Inv'
  <2>1. LinkType'
    BY <1>8 DEF RxDebugEnd, InRx, Inv, TypeOK, LinkType
  <2>2. RxType'
    BY <1>8 DEF RxDebugEnd, NoCmd, CommandType, Ops, Inv, TypeOK, RxType
  <2>3. TxType'
    BY <1>8 DEF RxDebugEnd, InRx, Inv, TypeOK, TxType, RxType, MessageType, CommandType, Ops, Sources
  <2>4. Shape'
    BY <1>8 DEF RxDebugEnd, InRx, Inv, TypeOK, LinkType, RxType, TxType, Shape, DmaOwned, ReadHandshake, DmaReady, ReadWindow, Min2
  <2>5. CallbackOwed'
    BY <1>8, SourcesAssumption DEF RxDebugEnd, InRx, Inv, TypeOK, TxType, Shape, CallbackOwed, HandBack, InSlot, InFlight, Sources, Ops
  <2>6. DmaOwned'
    BY <1>8 DEF RxDebugEnd, InRx, Inv, TypeOK, LinkType, RxType, TxType, Shape, DmaOwned, DmaReady, ReadWindow, Min2
  <2>7. ReadHandshake'
    BY <1>8 DEF RxDebugEnd, InRx, Inv, TypeOK, LinkType, RxType, TxType, Shape, DmaOwned, ReadHandshake, DmaReady, ReadWindow, Min2
  <2>8. QED BY <2>1, <2>2, <2>3, <2>4, <2>5, <2>6, <2>7 DEF Inv, TypeOK
<1>9. ASSUME RxDebugStart PROVE Inv'
  <2>1. LinkType'
    BY <1>9, MinBounds DEF RxDebugStart, StartRxDma, ReadWindow, Inv, TypeOK, LinkType, RxType
  <2>2. RxType'
    BY <1>9, CommandsAssumption DEF RxDebugStart, InRx, StartRxDma, Inv, TypeOK, RxType, CommandType, Ops
  <2>3. TxType'
    BY <1>9 DEF RxDebugStart, InRx, StartRxDma, Inv, TypeOK, TxType, RxType, MessageType, CommandType, Ops, Sources
  <2>4. Shape'
    BY <1>9 DEF RxDebugStart, InRx, StartRxDma, Inv, TypeOK, LinkType, RxType, TxType, Shape, DmaOwned, ReadHandshake, DmaReady, ReadWindow, Min2
  <2>5. CallbackOwed'
    BY <1>9, SourcesAssumption DEF RxDebugStart, InRx, StartRxDma, Inv, TypeOK, TxType, Shape, CallbackOwed, HandBack, InSlot, InFlight, Sources, Ops
  <2>6. DmaOwned'
    BY <1>9 DEF RxDebugStart, InRx, StartRxDma, Inv, TypeOK, LinkType, RxType, TxType, Shape, DmaOwned, DmaReady, ReadWindow, Min2
  <2>7. ReadHandshake'
    BY <1>9 DEF RxDebugStart, InRx, StartRxDma, Inv, TypeOK, LinkType, RxType, TxType, Shape, DmaOwned, ReadHandshake, DmaReady, ReadWindow, Min2
  <2>8. QED BY <2>1, <2>2, <2>3, <2>4, <2>5, <2>6, <2>7 DEF Inv, TypeOK
<1>10. ASSUME RxDebugDone PROVE Inv'
  <2>1. LinkType'
    BY <1>10 DEF RxDebugDone, InRx, Inv, TypeOK, LinkType
  <2>2. RxType'
    <3>1. rxLeft \in Nat /\ readLen \in Nat
      BY DEF Inv, TypeOK, RxType
    <3>2. rxLeft - ReadWindow \in Nat /\ readLen - ReadWindow \in Nat
      BY <3>1 DEF ReadWindow, Min2
    <3>3. QED BY <1>10, <3>2 DEF RxDebugDone, Inv, TypeOK, RxType
  <2>3. TxType'
    BY <1>10 DEF RxDebugDone, InRx, Inv, TypeOK, TxType, RxType, MessageType, CommandType, Ops, Sources
  <2>4. Shape'
    BY <1>10 DEF RxDebugDone, InRx, Inv, TypeOK, LinkType, RxType, TxType, Shape, DmaOwned, ReadHandshake, DmaReady, ReadWindow, Min2
  <2>5. CallbackOwed'
    BY <1>10, SourcesAssumption DEF RxDebugDone, InRx, Inv, TypeOK, TxType, Shape, CallbackOwed, HandBack, InSlot, InFlight, Sources, Ops
  <2>6. DmaOwned'
    BY <1>10 DEF RxDebugDone, InRx, Inv, TypeOK, LinkType, RxType, TxType, Shape, DmaOwned, DmaReady, ReadWindow, Min2
  <2>7. ReadHandshake'
    BY <1>10 DEF RxDebugDone, InRx, Inv, TypeOK, LinkType, RxType, TxType, Shape, DmaOwned, ReadHandshake, DmaReady, ReadWindow, Min2
  <2>8. QED BY <2>1, <2>2, <2>3, <2>4, <2>5, <2>6, <2>7 DEF Inv, TypeOK
<1>11. ASSUME RxDebugTimeout PROVE Inv'
  <2>1. LinkType'
    BY <1>11 DEF RxDebugTimeout, InRx, Inv, TypeOK, LinkType
  <2>2. RxType'
    BY <1>11, CommandsAssumption DEF RxDebugTimeout, InRx, Inv, TypeOK, RxType, CommandType, Ops
  <2>3. TxType'
    BY <1>11 DEF RxDebugTimeout, InRx, Inv, TypeOK, TxType, RxType, MessageType, CommandType, Ops, Sources
  <2>4. Shape'
    BY <1>11 DEF RxDebugTimeout, InRx, Inv, TypeOK, LinkType, RxType, TxType, Shape, DmaOwned, ReadHandshake, DmaReady, ReadWindow, Min2
  <2>5. CallbackOwed'
    BY <1>11, SourcesAssumption DEF RxDebugTimeout, InRx, Inv, TypeOK, TxType, Shape, CallbackOwed, HandBack, InSlot, InFlight, Sources, Ops
  <2>6. DmaOwned'
    BY <1>11 DEF RxDebugTimeout, InRx, Inv, TypeOK, LinkType, RxType, TxType, Shape, DmaOwned, DmaReady, ReadWindow, Min2
  <2>7. ReadHandshake'
    BY <1>11 DEF RxDebugTimeout, InRx, Inv, TypeOK, LinkType, RxType, TxType, Shape, DmaOwned, ReadHandshake, DmaReady, ReadWindow, Min2
  <2>8. QED BY <2>1, <2>2, <2>3, <2>4, <2>5, <2>6, <2>7 DEF Inv, TypeOK
<1>12. ASSUME RxFlushStart PROVE Inv'
  <2>1. LinkType'
    BY <1>12, MinBounds, LengthsAssumption DEF RxFlushStart, StartRxDma, Inv, TypeOK, LinkType, RxType
  <2>2. RxType'
    BY <1>12, CommandsAssumption DEF RxFlushStart, InRx, StartRxDma, Inv, TypeOK, RxType, CommandType, Ops
  <2>3. TxType'
    BY <1>12 DEF RxFlushStart, InRx, StartRxDma, Inv, TypeOK, TxType, RxType, MessageType, CommandType, Ops, Sources
  <2>4. Shape'
    BY <1>12 DEF RxFlushStart, InRx, StartRxDma, Inv, TypeOK, LinkType, RxType, TxType, Shape, DmaOwned, ReadHandshake, DmaReady, ReadWindow, Min2
  <2>5. CallbackOwed'
    BY <1>12, SourcesAssumption DEF RxFlushStart, InRx, StartRxDma, Inv, TypeOK, TxType, Shape, CallbackOwed, HandBack, InSlot, InFlight, Sources, Ops
  <2>6. DmaOwned'
    BY <1>12 DEF RxFlushStart, InRx, StartRxDma, Inv, TypeOK, LinkType, RxType, TxType, Shape, DmaOwned, DmaReady, ReadWindow, Min2
  <2>7. ReadHandshake'
    BY <1>12 DEF RxFlushStart, InRx, StartRxDma, Inv, TypeOK, LinkType, RxType, TxType, Shape, DmaOwned, ReadHandshake, DmaReady, ReadWindow, Min2
  <2>8. QED BY <2>1, <2>2, <2>3, <2>4, <2>5, <2>6, <2>7 DEF Inv, TypeOK
<1>13. ASSUME RxFlushDone PROVE Inv'
  <2>1. LinkType'
    BY <1>13 DEF RxFlushDone, InRx, Inv, TypeOK, LinkType
  <2>2. RxType'
    <3>1. rxLeft - Min2(rxLeft, FlushChunk) \in Nat
      BY LengthsAssumption DEF Min2, Inv, TypeOK, RxType
    <3>2. QED BY <1>13, <3>1 DEF RxFlushDone, Inv, TypeOK, RxType
  <2>3. TxType'
    BY <1>13 DEF RxFlushDone, InRx, Inv, TypeOK, TxType, RxType, MessageType, CommandType, Ops, Sources
  <2>4. Shape'
    BY <1>13 DEF RxFlushDone, InRx, Inv, TypeOK, LinkType, RxType, TxType, Shape, DmaOwned, ReadHandshake, DmaReady, ReadWindow, Min2
  <2>5. CallbackOwed'
    BY <1>13, SourcesAssumption DEF RxFlushDone, InRx, Inv, TypeOK, TxType, Shape, CallbackOwed, HandBack, InSlot, InFlight, Sources, Ops
  <2>6. DmaOwned'
    BY <1>13 DEF RxFlushDone, InRx, Inv, TypeOK, LinkType, RxType, TxType, Shape, DmaOwned, DmaReady, ReadWindow, Min2
  <2>7. ReadHandshake'
    BY <1>13 DEF RxFlushDone, InRx, Inv, TypeOK, LinkType, RxType, TxType, Shape, DmaOwned, ReadHandshake, DmaReady, ReadWindow, Min2
  <2>8. QED BY <2>1, <2>2, <2>3, <2>4, <2>5, <2>6, <2>7 DEF Inv, TypeOK
<1>14. ASSUME RxFlushReply PROVE Inv'
  <2>1. LinkType'
    BY <1>14 DEF RxFlushReply, InRx, Respond, Message, NoCmd, Inv, TypeOK, LinkType
  <2>2. RxType'
    BY <1>14, CommandsAssumption DEF RxFlushReply, InRx, Respond, Message, NoCmd, Inv, TypeOK, RxType, CommandType, Ops
  <2>3. TxType'
    <3>1. rxCmd.op \in Ops /\ rxCmd.len \in Nat
      BY DEF Inv, TypeOK, RxType, CommandType
    <3>2. QED BY <1>14, <3>1 DEF RxFlushReply, Respond, Message, Inv, TypeOK, TxType, MessageType
  <2>4. Shape'
    BY <1>14 DEF RxFlushReply, InRx, Respond, Message, NoCmd, Inv, TypeOK, LinkType, RxType, TxType, Shape, DmaOwned, ReadHandshake, DmaReady, ReadWindow, Min2
  <2>5. CallbackOwed'
    BY <1>14, SourcesAssumption DEF RxFlushReply, InRx, Respond, Message, NoCmd, Inv, TypeOK, TxType, Shape, CallbackOwed, HandBack, InSlot, InFlight, Sources, Ops
  <2>6. DmaOwned'
    BY <1>14 DEF RxFlushReply, InRx, Respond, Message, NoCmd, Inv, TypeOK, LinkType, RxType, TxType, Shape, DmaOwned, DmaReady, ReadWindow, Min2
  <2>7. ReadHandshake'
    BY <1>14 DEF RxFlushReply, InRx, Respond, Message, NoCmd, Inv, TypeOK, LinkType, RxType, TxType, Shape, DmaOwned, ReadHandshake, DmaReady, ReadWindow, Min2
  <2>8. QED BY <2>1, <2>2, <2>3, <2>4, <2>5, <2>6, <2>7 DEF Inv, TypeOK
<1>15. ASSUME RxFlushPacket PROVE Inv'
  <2>1. LinkType'
    BY <1>15 DEF RxFlushPacket, InRx, Message, NoCmd, Inv, TypeOK, LinkType
  <2>2. RxType'
    BY <1>15 DEF RxFlushPacket, NoCmd, CommandType, Ops, Inv, TypeOK, RxType
  <2>3. TxType'
    BY <1>15 DEF RxFlushPacket, Message, Inv, TypeOK, TxType, MessageType
  <2>4. Shape'
    BY <1>15 DEF RxFlushPacket, InRx, Message, NoCmd, Inv, TypeOK, LinkType, RxType, TxType, Shape, DmaOwned, ReadHandshake, DmaReady, ReadWindow, Min2
  <2>5. CallbackOwed'
    BY <1>15, SourcesAssumption DEF RxFlushPacket, InRx, Message, NoCmd, Inv, TypeOK, TxType, Shape, CallbackOwed, HandBack, InSlot, InFlight, Sources, Ops
  <2>6. DmaOwned'
    BY <1>15 DEF RxFlushPacket, InRx, Message, NoCmd, Inv, TypeOK, LinkType, RxType, TxType, Shape, DmaOwned, DmaReady, ReadWindow, Min2
  <2>7. ReadHandshake'
    BY <1>15 DEF RxFlushPacket, InRx, Message, NoCmd, Inv, TypeOK, LinkType, RxType, TxType, Shape, DmaOwned, ReadHandshake, DmaReady, ReadWindow, Min2
  <2>8. QED BY <2>1, <2>2, <2>3, <2>4, <2>5, <2>6, <2>7 DEF Inv, TypeOK
<1>16. QED BY <1>1, <1>2, <1>3, <1>4, <1>5, <1>6, <1>7, <1>8, <1>9, <1>10, <1>11, <1>12, <1>13, <1>14, <1>15 DEF RxProcess

\* usb_tx_process (usb.c:626-698).
LEMMA TxSteps ==
  ASSUME Inv, TxProcess
  PROVE  Inv'
<1> USE DEF hostVars, rxVars, respVars, pktVars, txVars, readVars, dmaVars, ctrlVars, vars
<1>1. ASSUME TxNothing PROVE Inv'
  <2>1. LinkType'
    BY <1>1 DEF TxNothing, InTx, Inv, TypeOK, LinkType
  <2>2. RxType'
    BY <1>1, CommandsAssumption DEF TxNothing, InTx, Inv, TypeOK, RxType, CommandType, Ops
  <2>3. TxType'
    BY <1>1 DEF TxNothing, InTx, Inv, TypeOK, TxType, RxType, MessageType, CommandType, Ops, Sources
  <2>4. Shape'
    BY <1>1 DEF TxNothing, InTx, Inv, TypeOK, LinkType, RxType, TxType, Shape, DmaOwned, ReadHandshake, DmaReady, ReadWindow, Min2
  <2>5. CallbackOwed'
    BY <1>1, SourcesAssumption DEF TxNothing, InTx, Inv, TypeOK, TxType, Shape, CallbackOwed, HandBack, InSlot, InFlight, Sources, Ops
  <2>6. DmaOwned'
    BY <1>1 DEF TxNothing, InTx, Inv, TypeOK, LinkType, RxType, TxType, Shape, DmaOwned, DmaReady, ReadWindow, Min2
  <2>7. ReadHandshake'
    BY <1>1 DEF TxNothing, InTx, Inv, TypeOK, LinkType, RxType, TxType, Shape, DmaOwned, ReadHandshake, DmaReady, ReadWindow, Min2
  <2>8. QED BY <2>1, <2>2, <2>3, <2>4, <2>5, <2>6, <2>7 DEF Inv, TypeOK
<1>2. ASSUME TxResponse PROVE Inv'
  <2>1. LinkType'
    BY <1>2 DEF TxResponse, InTx, NoMsg, Inv, TypeOK, LinkType
  <2>2. RxType'
    BY <1>2, CommandsAssumption DEF TxResponse, InTx, NoMsg, Inv, TypeOK, RxType, CommandType, Ops
  <2>3. TxType'
    <3>1. NoMsg \in MessageType
      BY DEF NoMsg, MessageType, Ops
    <3>2. QED BY <1>2, <3>1 DEF TxResponse, Inv, TypeOK, TxType
  <2>4. Shape'
    BY <1>2 DEF TxResponse, InTx, NoMsg, Inv, TypeOK, LinkType, RxType, TxType, Shape, DmaOwned, ReadHandshake, DmaReady, ReadWindow, Min2
  <2>5. CallbackOwed'
    BY <1>2, SourcesAssumption DEF TxResponse, InTx, NoMsg, Inv, TypeOK, TxType, Shape, CallbackOwed, HandBack, InSlot, InFlight, Sources, Ops
  <2>6. DmaOwned'
    BY <1>2 DEF TxResponse, InTx, NoMsg, Inv, TypeOK, LinkType, RxType, TxType, Shape, DmaOwned, DmaReady, ReadWindow, Min2
  <2>7. ReadHandshake'
    BY <1>2 DEF TxResponse, InTx, NoMsg, Inv, TypeOK, LinkType, RxType, TxType, Shape, DmaOwned, ReadHandshake, DmaReady, ReadWindow, Min2
  <2>8. QED BY <2>1, <2>2, <2>3, <2>4, <2>5, <2>6, <2>7 DEF Inv, TypeOK
<1>3. ASSUME TxPacket PROVE Inv'
  <2>1. LinkType'
    BY <1>3 DEF TxPacket, InTx, NoMsg, Inv, TypeOK, LinkType
  <2>2. RxType'
    BY <1>3, CommandsAssumption DEF TxPacket, InTx, NoMsg, Inv, TypeOK, RxType, CommandType, Ops
  <2>3. TxType'
    <3>1. NoMsg \in MessageType
      BY DEF NoMsg, MessageType, Ops
    <3>2. QED BY <1>3, <3>1 DEF TxPacket, Inv, TypeOK, TxType
  <2>4. Shape'
    BY <1>3 DEF TxPacket, InTx, NoMsg, Inv, TypeOK, LinkType, RxType, TxType, Shape, DmaOwned, ReadHandshake, DmaReady, ReadWindow, Min2
  <2>5. CallbackOwed'
    BY <1>3, SourcesAssumption DEF TxPacket, InTx, NoMsg, Inv, TypeOK, TxType, Shape, CallbackOwed, HandBack, InSlot, InFlight, Sources, Ops
  <2>6. DmaOwned'
    BY <1>3 DEF TxPacket, InTx, NoMsg, Inv, TypeOK, LinkType, RxType, TxType, Shape, DmaOwned, DmaReady, ReadWindow, Min2
  <2>7. ReadHandshake'
    BY <1>3 DEF TxPacket, InTx, NoMsg, Inv, TypeOK, LinkType, RxType, TxType, Shape, DmaOwned, ReadHandshake, DmaReady, ReadWindow, Min2
  <2>8. QED BY <2>1, <2>2, <2>3, <2>4, <2>5, <2>6, <2>7 DEF Inv, TypeOK
<1>4. ASSUME TxToken PROVE Inv'
  <2>1. LinkType'
    BY <1>4 DEF TxToken, InTx, Inv, TypeOK, LinkType
  <2>2. RxType'
    BY <1>4, CommandsAssumption DEF TxToken, InTx, Inv, TypeOK, RxType, CommandType, Ops
  <2>3. TxType'
    BY <1>4 DEF TxToken, InTx, Inv, TypeOK, TxType, RxType, MessageType, CommandType, Ops, Sources
  <2>4. Shape'
    BY <1>4 DEF TxToken, InTx, Inv, TypeOK, LinkType, RxType, TxType, Shape, DmaOwned, ReadHandshake, DmaReady, ReadWindow, Min2
  <2>5. CallbackOwed'
    BY <1>4, SourcesAssumption DEF TxToken, InTx, Inv, TypeOK, TxType, Shape, CallbackOwed, HandBack, InSlot, InFlight, Sources, Ops
  <2>6. DmaOwned'
    BY <1>4 DEF TxToken, InTx, Inv, TypeOK, LinkType, RxType, TxType, Shape, DmaOwned, DmaReady, ReadWindow, Min2
  <2>7. ReadHandshake'
    BY <1>4 DEF TxToken, InTx, Inv, TypeOK, LinkType, RxType, TxType, Shape, DmaOwned, ReadHandshake, DmaReady, ReadWindow, Min2
  <2>8. QED BY <2>1, <2>2, <2>3, <2>4, <2>5, <2>6, <2>7 DEF Inv, TypeOK
<1>5. ASSUME TxDmaStart PROVE Inv'
  <2>1. LinkType'
    BY <1>5 DEF TxDmaStart, Inv, TypeOK, LinkType, TxType, MessageType
  <2>2. RxType'
    BY <1>5, CommandsAssumption DEF TxDmaStart, InTx, Inv, TypeOK, RxType, CommandType, Ops
  <2>3. TxType'
    BY <1>5 DEF TxDmaStart, InTx, Inv, TypeOK, TxType, RxType, MessageType, CommandType, Ops, Sources
  <2>4. Shape'
    BY <1>5 DEF TxDmaStart, InTx, Inv, TypeOK, LinkType, RxType, TxType, Shape, DmaOwned, ReadHandshake, DmaReady, ReadWindow, Min2
  <2>5. CallbackOwed'
    BY <1>5, SourcesAssumption DEF TxDmaStart, InTx, Inv, TypeOK, TxType, Shape, CallbackOwed, HandBack, InSlot, InFlight, Sources, Ops
  <2>6. DmaOwned'
    <3>1. tx.len \in Nat  BY DEF Inv, TypeOK, TxType, MessageType
    <3>2. QED BY <1>5, <3>1 DEF TxDmaStart, InTx, DmaOwned
  <2>7. ReadHandshake'
    BY <1>5 DEF TxDmaStart, InTx, Inv, TypeOK, LinkType, RxType, TxType, Shape, DmaOwned, ReadHandshake, DmaReady, ReadWindow, Min2
  <2>8. QED BY <2>1, <2>2, <2>3, <2>4, <2>5, <2>6, <2>7 DEF Inv, TypeOK
<1>6. ASSUME TxDmaDone PROVE Inv'
  <2>1. LinkType'
    BY <1>6 DEF TxDmaDone, InTx, Inv, TypeOK, LinkType
  <2>2. RxType'
    BY <1>6, CommandsAssumption DEF TxDmaDone, InTx, Inv, TypeOK, RxType, CommandType, Ops
  <2>3. TxType'
    BY <1>6 DEF TxDmaDone, InTx, Inv, TypeOK, TxType, RxType, MessageType, CommandType, Ops, Sources
  <2>4. Shape'
    BY <1>6 DEF TxDmaDone, InTx, Inv, TypeOK, LinkType, RxType, TxType, Shape, DmaOwned, ReadHandshake, DmaReady, ReadWindow, Min2
  <2>5. CallbackOwed'
    BY <1>6, SourcesAssumption DEF TxDmaDone, InTx, Inv, TypeOK, TxType, Shape, CallbackOwed, HandBack, InSlot, InFlight, Sources, Ops
  <2>6. DmaOwned'
    BY <1>6 DEF TxDmaDone, InTx, Inv, TypeOK, LinkType, RxType, TxType, Shape, DmaOwned, DmaReady, ReadWindow, Min2
  <2>7. ReadHandshake'
    BY <1>6 DEF TxDmaDone, InTx, Inv, TypeOK, LinkType, RxType, TxType, Shape, DmaOwned, ReadHandshake, DmaReady, ReadWindow, Min2
  <2>8. QED BY <2>1, <2>2, <2>3, <2>4, <2>5, <2>6, <2>7 DEF Inv, TypeOK
<1>7. ASSUME TxFlush PROVE Inv'
  <2>1. LinkType'
    BY <1>7 DEF TxFlush, InTx, NoMsg, Inv, TypeOK, LinkType
  <2>2. RxType'
    BY <1>7, CommandsAssumption DEF TxFlush, InTx, NoMsg, Inv, TypeOK, RxType, CommandType, Ops
  <2>3. TxType'
    <3>1. NoMsg \in MessageType
      BY DEF NoMsg, MessageType, Ops
    <3>2. calls' \in [CallbackSources -> Int]
      BY <1>7 DEF TxFlush, Inv, TypeOK, TxType
    <3>3. QED BY <1>7, <3>1, <3>2 DEF TxFlush, Inv, TypeOK, TxType
  <2>4. Shape'
    BY <1>7 DEF TxFlush, InTx, NoMsg, Inv, TypeOK, LinkType, RxType, TxType, Shape, DmaOwned, ReadHandshake, DmaReady, ReadWindow, Min2
  <2>5. CallbackOwed'
    BY <1>7, SourcesAssumption DEF TxFlush, InTx, NoMsg, Inv, TypeOK, TxType, Shape, CallbackOwed, HandBack, InSlot, InFlight, Sources, Ops
  <2>6. DmaOwned'
    BY <1>7 DEF TxFlush, InTx, NoMsg, Inv, TypeOK, LinkType, RxType, TxType, Shape, DmaOwned, DmaReady, ReadWindow, Min2
  <2>7. ReadHandshake'
    BY <1>7 DEF TxFlush, InTx, NoMsg, Inv, TypeOK, LinkType, RxType, TxType, Shape, DmaOwned, ReadHandshake, DmaReady, ReadWindow, Min2
  <2>8. QED BY <2>1, <2>2, <2>3, <2>4, <2>5, <2>6, <2>7 DEF Inv, TypeOK
<1>8. QED BY <1>1, <1>2, <1>3, <1>4, <1>5, <1>6, <1>7 DEF TxProcess

\* The rest of the main loop (usb.c:712-729).
LEMMA LoopSteps ==
  ASSUME Inv,
         \/ \E s \in Sources, len \in PacketLengths : Enqueue(s, len)
         \/ \E len \in ReadLengths : PrepareRead(len)
         \/ NextTurn
  PROVE  Inv'
<1> USE DEF hostVars, rxVars, respVars, pktVars, txVars, readVars, dmaVars, ctrlVars, vars
<1>1. ASSUME NEW s \in Sources, NEW len \in PacketLengths, Enqueue(s, len) PROVE Inv'
  <2>1. LinkType'
    BY <1>1 DEF Enqueue, Message, HandBack, InSlot, InFlight, Sources, Inv, TypeOK, LinkType
  <2>2. RxType'
    BY <1>1, CommandsAssumption DEF Enqueue, Message, HandBack, InSlot, InFlight, Sources, Inv, TypeOK, RxType, CommandType, Ops
  <2>3. TxType'
    BY <1>1, LengthsAssumption DEF Enqueue, Message, Inv, TypeOK, TxType, MessageType
  <2>4. Shape'
    BY <1>1 DEF Enqueue, Message, HandBack, InSlot, InFlight, Sources, Inv, TypeOK, LinkType, RxType, TxType, Shape, DmaOwned, ReadHandshake, DmaReady, ReadWindow, Min2
  <2>5. CallbackOwed'
    <3> SUFFICES ASSUME NEW c \in CallbackSources PROVE (calls[c] = HandBack(c))'
      BY DEF CallbackOwed
    <3>1. calls[c] = HandBack(c) /\ ~InSlot(c)
      BY <1>1 DEF Enqueue, Inv, CallbackOwed, InSlot
    <3>2. calls'[c] = calls[c] + (IF c = s THEN 1 ELSE 0)
      BY <1>1 DEF Enqueue
    <3>3. InSlot(c)' <=> c = s
      BY <1>1 DEF Enqueue, Message, InSlot
    <3>4. InFlight(c)' <=> InFlight(c)
      BY <1>1 DEF Enqueue, InFlight
    <3>5. QED BY <3>1, <3>2, <3>3, <3>4 DEF HandBack
  <2>6. DmaOwned'
    BY <1>1 DEF Enqueue, Message, HandBack, InSlot, InFlight, Sources, Inv, TypeOK, LinkType, RxType, TxType, Shape, DmaOwned, DmaReady, ReadWindow, Min2
  <2>7. ReadHandshake'
    BY <1>1 DEF Enqueue, Message, HandBack, InSlot, InFlight, Sources, Inv, TypeOK, LinkType, RxType, TxType, Shape, DmaOwned, ReadHandshake, DmaReady, ReadWindow, Min2
  <2>8. QED BY <2>1, <2>2, <2>3, <2>4, <2>5, <2>6, <2>7 DEF Inv, TypeOK
<1>2. ASSUME NEW len \in ReadLengths, PrepareRead(len) PROVE Inv'
  <2>1. LinkType'
    BY <1>2 DEF PrepareRead, Inv, TypeOK, LinkType
  <2>2. RxType'
    BY <1>2, LengthsAssumption DEF PrepareRead, Inv, TypeOK, RxType
  <2>3. TxType'
    BY <1>2 DEF PrepareRead, Inv, TypeOK, TxType, RxType, MessageType, CommandType, Ops, Sources
  <2>4. Shape'
    BY <1>2 DEF PrepareRead, Inv, TypeOK, LinkType, RxType, TxType, Shape, DmaOwned, ReadHandshake, DmaReady, ReadWindow, Min2
  <2>5. CallbackOwed'
    BY <1>2, SourcesAssumption DEF PrepareRead, Inv, TypeOK, TxType, Shape, CallbackOwed, HandBack, InSlot, InFlight, Sources, Ops
  <2>6. DmaOwned'
    BY <1>2 DEF PrepareRead, Inv, TypeOK, LinkType, RxType, TxType, Shape, DmaOwned, DmaReady, ReadWindow, Min2
  <2>7. ReadHandshake'
    BY <1>2 DEF PrepareRead, Inv, TypeOK, LinkType, RxType, TxType, Shape, DmaOwned, ReadHandshake, DmaReady, ReadWindow, Min2
  <2>8. QED BY <2>1, <2>2, <2>3, <2>4, <2>5, <2>6, <2>7 DEF Inv, TypeOK
<1>3. ASSUME NextTurn PROVE Inv'
  <2>1. LinkType'
    BY <1>3 DEF NextTurn, Inv, TypeOK, LinkType
  <2>2. RxType'
    BY <1>3, CommandsAssumption DEF NextTurn, Inv, TypeOK, RxType, CommandType, Ops
  <2>3. TxType'
    BY <1>3 DEF NextTurn, Inv, TypeOK, TxType, RxType, MessageType, CommandType, Ops, Sources
  <2>4. Shape'
    BY <1>3 DEF NextTurn, Inv, TypeOK, LinkType, RxType, TxType, Shape, DmaOwned, ReadHandshake, DmaReady, ReadWindow, Min2
  <2>5. CallbackOwed'
    BY <1>3, SourcesAssumption DEF NextTurn, Inv, TypeOK, TxType, Shape, CallbackOwed, HandBack, InSlot, InFlight, Sources, Ops
  <2>6. DmaOwned'
    BY <1>3 DEF NextTurn, Inv, TypeOK, LinkType, RxType, TxType, Shape, DmaOwned, DmaReady, ReadWindow, Min2
  <2>7. ReadHandshake'
    BY <1>3 DEF NextTurn, Inv, TypeOK, LinkType, RxType, TxType, Shape, DmaOwned, ReadHandshake, DmaReady, ReadWindow, Min2
  <2>8. QED BY <2>1, <2>2, <2>3, <2>4, <2>5, <2>6, <2>7 DEF Inv, TypeOK
<1>4. QED BY <1>1, <1>2, <1>3

\* The FPGA, the timer and the host.
LEMMA EnvironmentSteps ==
  ASSUME Inv,
         \/ DmaRead \/ DmaWrite \/ TimerElapses
         \/ \E c \in Commands : HostCommand(c)
         \/ HostSend \/ HostReceive \/ HostReset \/ HostRelease \/ Suspend
  PROVE  Inv'
<1> USE DEF hostVars, rxVars, respVars, pktVars, txVars, readVars, dmaVars, ctrlVars, vars
<1>1. ASSUME DmaRead PROVE Inv'
  <2>1. LinkType'
    BY <1>1 DEF DmaRead, Inv, TypeOK, LinkType
  <2>2. RxType'
    BY <1>1, CommandsAssumption DEF DmaRead, Inv, TypeOK, RxType, CommandType, Ops
  <2>3. TxType'
    BY <1>1 DEF DmaRead, Inv, TypeOK, TxType, RxType, MessageType, CommandType, Ops, Sources
  <2>4. Shape'
    BY <1>1 DEF DmaRead, Inv, TypeOK, LinkType, RxType, TxType, Shape, DmaOwned, ReadHandshake, DmaReady, ReadWindow, Min2
  <2>5. CallbackOwed'
    BY <1>1, SourcesAssumption DEF DmaRead, Inv, TypeOK, TxType, Shape, CallbackOwed, HandBack, InSlot, InFlight, Sources, Ops
  <2>6. DmaOwned'
    BY <1>1 DEF DmaRead, Inv, TypeOK, LinkType, RxType, TxType, Shape, DmaOwned, DmaReady, ReadWindow, Min2
  <2>7. ReadHandshake'
    BY <1>1 DEF DmaRead, Inv, TypeOK, LinkType, RxType, TxType, Shape, DmaOwned, ReadHandshake, DmaReady, ReadWindow, Min2
  <2>8. QED BY <2>1, <2>2, <2>3, <2>4, <2>5, <2>6, <2>7 DEF Inv, TypeOK
<1>2. ASSUME DmaWrite PROVE Inv'
  <2>1. LinkType'
    BY <1>2 DEF DmaWrite, Inv, TypeOK, LinkType
  <2>2. RxType'
    BY <1>2, CommandsAssumption DEF DmaWrite, Inv, TypeOK, RxType, CommandType, Ops
  <2>3. TxType'
    BY <1>2 DEF DmaWrite, Inv, TypeOK, TxType, RxType, MessageType, CommandType, Ops, Sources
  <2>4. Shape'
    BY <1>2 DEF DmaWrite, Inv, TypeOK, LinkType, RxType, TxType, Shape, DmaOwned, ReadHandshake, DmaReady, ReadWindow, Min2
  <2>5. CallbackOwed'
    BY <1>2, SourcesAssumption DEF DmaWrite, Inv, TypeOK, TxType, Shape, CallbackOwed, HandBack, InSlot, InFlight, Sources, Ops
  <2>6. DmaOwned'
    <3>1. tx.len \in Nat  BY DEF Inv, TypeOK, TxType, MessageType
    <3>2. QED BY <1>2, <3>1 DEF DmaWrite, Inv, TypeOK, LinkType, DmaOwned
  <2>7. ReadHandshake'
    BY <1>2 DEF DmaWrite, Inv, TypeOK, LinkType, RxType, TxType, Shape, DmaOwned, ReadHandshake, DmaReady, ReadWindow, Min2
  <2>8. QED BY <2>1, <2>2, <2>3, <2>4, <2>5, <2>6, <2>7 DEF Inv, TypeOK
<1>3. ASSUME TimerElapses PROVE Inv'
  <2>1. LinkType'
    BY <1>3 DEF TimerElapses, Inv, TypeOK, LinkType
  <2>2. RxType'
    BY <1>3, CommandsAssumption DEF TimerElapses, Inv, TypeOK, RxType, CommandType, Ops
  <2>3. TxType'
    BY <1>3 DEF TimerElapses, Inv, TypeOK, TxType, RxType, MessageType, CommandType, Ops, Sources
  <2>4. Shape'
    BY <1>3 DEF TimerElapses, Inv, TypeOK, LinkType, RxType, TxType, Shape, DmaOwned, ReadHandshake, DmaReady, ReadWindow, Min2
  <2>5. CallbackOwed'
    BY <1>3, SourcesAssumption DEF TimerElapses, Inv, TypeOK, TxType, Shape, CallbackOwed, HandBack, InSlot, InFlight, Sources, Ops
  <2>6. DmaOwned'
    BY <1>3 DEF TimerElapses, Inv, TypeOK, LinkType, RxType, TxType, Shape, DmaOwned, DmaReady, ReadWindow, Min2
  <2>7. ReadHandshake'
    BY <1>3 DEF TimerElapses, Inv, TypeOK, LinkType, RxType, TxType, Shape, DmaOwned, ReadHandshake, DmaReady, ReadWindow, Min2
  <2>8. QED BY <2>1, <2>2, <2>3, <2>4, <2>5, <2>6, <2>7 DEF Inv, TypeOK
<1>4. ASSUME NEW c \in Commands, HostCommand(c) PROVE Inv'
  <2>1. LinkType'
    <3>1. Cmd(c) \in ItemType /\ Args \in ItemType /\ Data \in ItemType
      BY <1>4 DEF ItemType, Cmd, Args, Data
    <3>2. c.len \in Nat
      BY <1>4, CommandsAssumption DEF CommandType
    <3>3. [i \in 1..c.len |-> Data] \in Seq(ItemType)
      BY <3>1, <3>2
    <3>4. todo' \in Seq(ItemType)
      BY <1>4, <3>1, <3>3 DEF HostCommand
    <3>5. rxq' \in Seq(ItemType)
      BY <1>4, <3>1 DEF HostCommand, Inv, TypeOK, LinkType
    <3>6. QED BY <1>4, <3>4, <3>5 DEF HostCommand, Inv, TypeOK, LinkType
  <2>2. RxType'
    BY <1>4, CommandsAssumption DEF HostCommand, Inv, TypeOK, RxType, CommandType, Ops
  <2>3. TxType'
    BY <1>4 DEF HostCommand, Inv, TypeOK, TxType, RxType, MessageType, CommandType, Ops, Sources
  <2>4. Shape'
    BY <1>4 DEF HostCommand, Inv, TypeOK, LinkType, RxType, TxType, Shape, DmaOwned, ReadHandshake, DmaReady, ReadWindow, Min2
  <2>5. CallbackOwed'
    BY <1>4, SourcesAssumption DEF HostCommand, Inv, TypeOK, TxType, Shape, CallbackOwed, HandBack, InSlot, InFlight, Sources, Ops
  <2>6. DmaOwned'
    BY <1>4 DEF HostCommand, Inv, TypeOK, LinkType, RxType, TxType, Shape, DmaOwned, DmaReady, ReadWindow, Min2
  <2>7. ReadHandshake'
    BY <1>4 DEF HostCommand, Inv, TypeOK, LinkType, RxType, TxType, Shape, DmaOwned, ReadHandshake, DmaReady, ReadWindow, Min2
  <2>8. QED BY <2>1, <2>2, <2>3, <2>4, <2>5, <2>6, <2>7 DEF Inv, TypeOK
<1>5. ASSUME HostSend PROVE Inv'
  <2>1. LinkType'
    BY <1>5 DEF HostSend, Inv, TypeOK, LinkType
  <2>2. RxType'
    BY <1>5, CommandsAssumption DEF HostSend, Inv, TypeOK, RxType, CommandType, Ops
  <2>3. TxType'
    BY <1>5 DEF HostSend, Inv, TypeOK, TxType, RxType, MessageType, CommandType, Ops, Sources
  <2>4. Shape'
    BY <1>5 DEF HostSend, Inv, TypeOK, LinkType, RxType, TxType, Shape, DmaOwned, ReadHandshake, DmaReady, ReadWindow, Min2
  <2>5. CallbackOwed'
    BY <1>5, SourcesAssumption DEF HostSend, Inv, TypeOK, TxType, Shape, CallbackOwed, HandBack, InSlot, InFlight, Sources, Ops
  <2>6. DmaOwned'
    BY <1>5 DEF HostSend, Inv, TypeOK, LinkType, RxType, TxType, Shape, DmaOwned, DmaReady, ReadWindow, Min2
  <2>7. ReadHandshake'
    BY <1>5 DEF HostSend, Inv, TypeOK, LinkType, RxType, TxType, Shape, DmaOwned, ReadHandshake, DmaReady, ReadWindow, Min2
  <2>8. QED BY <2>1, <2>2, <2>3, <2>4, <2>5, <2>6, <2>7 DEF Inv, TypeOK
<1>6. ASSUME HostReceive PROVE Inv'
  <2>1. LinkType'
    BY <1>6 DEF HostReceive, Inv, TypeOK, LinkType
  <2>2. RxType'
    BY <1>6, CommandsAssumption DEF HostReceive, Inv, TypeOK, RxType, CommandType, Ops
  <2>3. TxType'
    BY <1>6 DEF HostReceive, Inv, TypeOK, TxType, RxType, MessageType, CommandType, Ops, Sources
  <2>4. Shape'
    BY <1>6 DEF HostReceive, Inv, TypeOK, LinkType, RxType, TxType, Shape, DmaOwned, ReadHandshake, DmaReady, ReadWindow, Min2
  <2>5. CallbackOwed'
    BY <1>6, SourcesAssumption DEF HostReceive, Inv, TypeOK, TxType, Shape, CallbackOwed, HandBack, InSlot, InFlight, Sources, Ops
  <2>6. DmaOwned'
    BY <1>6 DEF HostReceive, Inv, TypeOK, LinkType, RxType, TxType, Shape, DmaOwned, DmaReady, ReadWindow, Min2
  <2>7. ReadHandshake'
    BY <1>6 DEF HostReceive, Inv, TypeOK, LinkType, RxType, TxType, Shape, DmaOwned, ReadHandshake, DmaReady, ReadWindow, Min2
  <2>8. QED BY <2>1, <2>2, <2>3, <2>4, <2>5, <2>6, <2>7 DEF Inv, TypeOK
<1>7. ASSUME HostReset PROVE Inv'
  <2>1. LinkType'
    BY <1>7 DEF HostReset, Inv, TypeOK, LinkType
  <2>2. RxType'
    BY <1>7, CommandsAssumption DEF HostReset, Inv, TypeOK, RxType, CommandType, Ops
  <2>3. TxType'
    BY <1>7 DEF HostReset, Inv, TypeOK, TxType, RxType, MessageType, CommandType, Ops, Sources
  <2>4. Shape'
    BY <1>7 DEF HostReset, Inv, TypeOK, LinkType, RxType, TxType, Shape, DmaOwned, ReadHandshake, DmaReady, ReadWindow, Min2
  <2>5. CallbackOwed'
    BY <1>7, SourcesAssumption DEF HostReset, Inv, TypeOK, TxType, Shape, CallbackOwed, HandBack, InSlot, InFlight, Sources, Ops
  <2>6. DmaOwned'
    BY <1>7 DEF HostReset, Inv, TypeOK, LinkType, RxType, TxType, Shape, DmaOwned, DmaReady, ReadWindow, Min2
  <2>7. ReadHandshake'
    BY <1>7 DEF HostReset, Inv, TypeOK, LinkType, RxType, TxType, Shape, DmaOwned, ReadHandshake, DmaReady, ReadWindow, Min2
  <2>8. QED BY <2>1, <2>2, <2>3, <2>4, <2>5, <2>6, <2>7 DEF Inv, TypeOK
<1>8. ASSUME HostRelease PROVE Inv'
  <2>1. LinkType'
    BY <1>8 DEF HostRelease, Inv, TypeOK, LinkType
  <2>2. RxType'
    BY <1>8, CommandsAssumption DEF HostRelease, Inv, TypeOK, RxType, CommandType, Ops
  <2>3. TxType'
    BY <1>8 DEF HostRelease, Inv, TypeOK, TxType, RxType, MessageType, CommandType, Ops, Sources
  <2>4. Shape'
    BY <1>8 DEF HostRelease, Inv, TypeOK, LinkType, RxType, TxType, Shape, DmaOwned, ReadHandshake, DmaReady, ReadWindow, Min2
  <2>5. CallbackOwed'
    BY <1>8, SourcesAssumption DEF HostRelease, Inv, TypeOK, TxType, Shape, CallbackOwed, HandBack, InSlot, InFlight, Sources, Ops
  <2>6. DmaOwned'
    BY <1>8 DEF HostRelease, Inv, TypeOK, LinkType, RxType, TxType, Shape, DmaOwned, DmaReady, ReadWindow, Min2
  <2>7. ReadHandshake'
    BY <1>8 DEF HostRelease, Inv, TypeOK, LinkType, RxType, TxType, Shape, DmaOwned, ReadHandshake, DmaReady, ReadWindow, Min2
  <2>8. QED BY <2>1, <2>2, <2>3, <2>4, <2>5, <2>6, <2>7 DEF Inv, TypeOK
<1>9. ASSUME Suspend PROVE Inv'
  <2>1. LinkType'
    BY <1>9 DEF Suspend, Inv, TypeOK, LinkType
  <2>2. RxType'
    BY <1>9, CommandsAssumption DEF Suspend, Inv, TypeOK, RxType, CommandType, Ops
  <2>3. TxType'
    BY <1>9 DEF Suspend, Inv, TypeOK, TxType, RxType, MessageType, CommandType, Ops, Sources
  <2>4. Shape'
    BY <1>9 DEF Suspend, Inv, TypeOK, LinkType, RxType, TxType, Shape, DmaOwned, ReadHandshake, DmaReady, ReadWindow, Min2
  <2>5. CallbackOwed'
    BY <1>9, SourcesAssumption DEF Suspend, Inv, TypeOK, TxType, Shape, CallbackOwed, HandBack, InSlot, InFlight, Sources, Ops
  <2>6. DmaOwned'
    BY <1>9 DEF Suspend, Inv, TypeOK, LinkType, RxType, TxType, Shape, DmaOwned, DmaReady, ReadWindow, Min2
  <2>7. ReadHandshake'
    BY <1>9 DEF Suspend, Inv, TypeOK, LinkType, RxType, TxType, Shape, DmaOwned, ReadHandshake, DmaReady, ReadWindow, Min2
  <2>8. QED BY <2>1, <2>2, <2>3, <2>4, <2>5, <2>6, <2>7 DEF Inv, TypeOK
<1>10. QED BY <1>1, <1>2, <1>3, <1>4, <1>5, <1>6, <1>7, <1>8, <1>9
\* The invariant holds when the link comes up.
LEMMA InitInv == Init => Inv
<1> SUFFICES ASSUME Init PROVE Inv
  OBVIOUS
<1> USE DEF Init
<1>1. LinkType
  <2>1. <<>> \in Seq(ItemType)  OBVIOUS
  <2>2. rxq \in Seq(ItemType) /\ todo \in Seq(ItemType)  BY <2>1
  <2>3. QED BY <2>2 DEF LinkType
<1>2. RxType         BY DEF RxType, NoCmd, CommandType, Ops
<1>3. TxType
  <2>1. NoMsg \in MessageType  BY DEF NoMsg, MessageType, Ops
  <2>2. calls \in [CallbackSources -> Int]  OBVIOUS
  <2>3. QED BY <2>1, <2>2 DEF TxType
<1>4. Shape          BY DEF Shape, NoMsg
<1>5. CallbackOwed   BY DEF CallbackOwed, HandBack, InSlot, InFlight, NoMsg
<1>6. DmaOwned       BY DEF DmaOwned
<1>7. ReadHandshake  BY DEF ReadHandshake
<1>8. QED BY <1>1, <1>2, <1>3, <1>4, <1>5, <1>6, <1>7 DEF Inv, TypeOK

\* Every step keeps the invariant, part by part.
LEMMA NextInv == Inv /\ [Next]_vars => Inv'
<1> SUFFICES ASSUME Inv, [Next]_vars PROVE Inv'
  OBVIOUS
<1>1. CASE Controller
  BY <1>1, LinkSteps, RxSteps, TxSteps, LoopSteps DEF Controller
<1>2. CASE Next /\ ~Controller
  BY <1>2, EnvironmentSteps DEF Next
<1>3. CASE UNCHANGED vars
  <2> USE DEF vars, hostVars, rxVars, respVars, pktVars, txVars, readVars, dmaVars
  <2>1. TypeOK'        BY <1>3 DEF Inv, TypeOK, LinkType, RxType, TxType
  <2>2. Shape'         BY <1>3 DEF Inv, Shape
  <2>3. CallbackOwed'  BY <1>3 DEF Inv, CallbackOwed, HandBack, InSlot, InFlight
  <2>4. DmaOwned'      BY <1>3 DEF Inv, DmaOwned
  <2>5. ReadHandshake' BY <1>3 DEF Inv, ReadHandshake, ReadWindow
  <2>6. QED BY <2>1, <2>2, <2>3, <2>4, <2>5 DEF Inv
<1>4. QED BY <1>1, <1>2, <1>3

\* The invariant, by induction over the steps.
LEMMA UsbInvariant == Spec => []Inv
BY InitInv, NextInv, PTL DEF Spec

\* A producer waits for its callback exactly while a packet of its own still
\* carries it: no callback is lost or called twice, in any interleaving of the
\* main loop with resets and suspensions of the link (usb.c:174-183, 691-697).
THEOREM CallbackExactlyOnce == Spec => []CallbackOwed
BY UsbInvariant, PTL DEF Inv

\* The DMA engine always works for the machine that started it.
THEOREM DmaAlwaysOwned == Spec => []DmaOwned
BY UsbInvariant, PTL DEF Inv

\* The N64 cannot replace a read window while the DMA engine writes into it,
\* and no transfer leaves its window (usb.c:357-382, 722-729).
THEOREM ReadWindowSafe == Spec => []ReadHandshake
BY UsbInvariant, PTL DEF Inv

\* Each machine starts the DMA engine only when it is idle, and a step that is
\* not a reset of the link leaves a running transfer alone.
LEMMA DmaLeftAlone ==
  ASSUME Inv, [Next]_vars, dmaLeft > 0
  PROVE  \/ dmaDir' = dmaDir /\ dmaLeft' \in {dmaLeft, dmaLeft - 1}
         \/ PollResetOn
<1> USE DEF hostVars, rxVars, respVars, pktVars, txVars, readVars, dmaVars, ctrlVars, vars, DmaReady
<1>1. CASE RxProcess
  <2>1. CASE RxNothing  BY <2>1 DEF RxNothing, RxWait
  <2>2. CASE RxIdle  BY <2>2 DEF RxIdle
  <2>3. CASE RxArgs  BY <2>3 DEF RxArgs
  <2>4. CASE RxAnswer  BY <2>4 DEF RxAnswer
  <2>5. CASE RxWriteReject  BY <2>5 DEF RxWriteReject
  <2>6. CASE RxWriteStart  BY <2>6 DEF RxWriteStart
  <2>7. CASE RxWriteDone  BY <2>7 DEF RxWriteDone
  <2>8. CASE RxDebugEnd  BY <2>8 DEF RxDebugEnd
  <2>9. CASE RxDebugStart  BY <2>9 DEF RxDebugStart
  <2>10. CASE RxDebugDone  BY <2>10 DEF RxDebugDone
  <2>11. CASE RxDebugTimeout  BY <2>11 DEF RxDebugTimeout
  <2>12. CASE RxFlushStart  BY <2>12 DEF RxFlushStart
  <2>13. CASE RxFlushDone  BY <2>13 DEF RxFlushDone
  <2>14. CASE RxFlushReply  BY <2>14 DEF RxFlushReply
  <2>15. CASE RxFlushPacket  BY <2>15 DEF RxFlushPacket
  <2>16. QED BY <1>1, <2>1, <2>2, <2>3, <2>4, <2>5, <2>6, <2>7, <2>8, <2>9, <2>10, <2>11, <2>12, <2>13, <2>14, <2>15 DEF RxProcess
<1>2. CASE TxProcess
  BY <1>2 DEF TxProcess, TxNothing, TxResponse, TxPacket, TxToken, TxDmaStart, TxDmaDone, TxFlush
<1>3. CASE PollResetOn \/ PollInactive \/ PollActive
  BY <1>3 DEF PollInactive, PollActive
<1>4. CASE \/ \E s \in Sources, len \in PacketLengths : Enqueue(s, len)
           \/ \E len \in ReadLengths : PrepareRead(len)
           \/ NextTurn
  BY <1>4 DEF Enqueue, PrepareRead, NextTurn
<1>5. CASE \/ DmaRead \/ DmaWrite \/ TimerElapses
           \/ \E c \in Commands : HostCommand(c)
           \/ HostSend \/ HostReceive \/ HostReset \/ HostRelease \/ Suspend
  BY <1>5 DEF DmaRead, DmaWrite, TimerElapses, HostCommand, HostSend, HostReceive,
              HostReset, HostRelease, Suspend
<1>6. CASE UNCHANGED vars
  BY <1>6
<1>7. QED BY <1>1, <1>2, <1>3, <1>4, <1>5, <1>6 DEF Next, Controller

\* A running transfer is only ended by the engine or by a reset of the link,
\* never by the other machine (usb.c:201-203, 339-352, 674-689).
THEOREM TransfersUndisturbed == Spec => DmaUndisturbed
BY UsbInvariant, DmaLeftAlone, PTL DEF Spec, DmaUndisturbed

\* Every counter, queue and window stays in its range: nothing is sent beyond
\* the space of a FIFO, and no transfer is longer than what it was started for.
THEOREM UsbTyped == Spec => []TypeOK
BY UsbInvariant, PTL DEF Inv

\* A debug write with a datatype never waits for the N64 without a timeout that
\* was started for it.
TimeoutStarted == rxState = "DATA" /\ rxCmd.op = "U" /\ rxCmd.typed => armed

\* The arguments start it, every piece the N64 takes starts it again, and
\* only the end of the command forgets it (usb.c:245-248, 377).
LEMMA StaysStarted == Inv /\ TimeoutStarted /\ [Next]_vars => TimeoutStarted'
<1> SUFFICES ASSUME Inv, TimeoutStarted, [Next]_vars PROVE TimeoutStarted'
  OBVIOUS
<1> USE DEF hostVars, rxVars, respVars, pktVars, txVars, readVars, dmaVars, ctrlVars, vars, TimeoutStarted
<1>1. CASE RxProcess
  <2>1. CASE RxNothing  BY <2>1 DEF RxNothing, RxWait
  <2>2. CASE RxIdle  BY <2>2 DEF RxIdle
  <2>3. CASE RxArgs  BY <2>3 DEF RxArgs
  <2>4. CASE RxAnswer  BY <2>4 DEF RxAnswer, Respond
  <2>5. CASE RxWriteReject  BY <2>5 DEF RxWriteReject
  <2>6. CASE RxWriteStart  BY <2>6 DEF RxWriteStart
  <2>7. CASE RxWriteDone  BY <2>7 DEF RxWriteDone, Respond
  <2>8. CASE RxDebugEnd  BY <2>8 DEF RxDebugEnd
  <2>9. CASE RxDebugStart  BY <2>9 DEF RxDebugStart
  <2>10. CASE RxDebugDone  BY <2>10 DEF RxDebugDone
  <2>11. CASE RxDebugTimeout  BY <2>11 DEF RxDebugTimeout
  <2>12. CASE RxFlushStart  BY <2>12 DEF RxFlushStart
  <2>13. CASE RxFlushDone  BY <2>13 DEF RxFlushDone
  <2>14. CASE RxFlushReply  BY <2>14 DEF RxFlushReply, Respond
  <2>15. CASE RxFlushPacket  BY <2>15 DEF RxFlushPacket
  <2>16. QED BY <1>1, <2>1, <2>2, <2>3, <2>4, <2>5, <2>6, <2>7, <2>8, <2>9, <2>10, <2>11, <2>12, <2>13, <2>14, <2>15 DEF RxProcess
<1>2. CASE TxProcess
  BY <1>2 DEF TxProcess, TxNothing, TxResponse, TxPacket, TxToken, TxDmaStart, TxDmaDone, TxFlush
<1>3. CASE PollResetOn \/ PollInactive \/ PollActive
  BY <1>3 DEF PollResetOn, PollInactive, PollActive, ResetState
<1>4. CASE \/ \E s \in Sources, len \in PacketLengths : Enqueue(s, len)
           \/ \E len \in ReadLengths : PrepareRead(len)
           \/ NextTurn
  BY <1>4 DEF Enqueue, PrepareRead, NextTurn
<1>5. CASE \/ DmaRead \/ DmaWrite \/ TimerElapses
           \/ \E c \in Commands : HostCommand(c)
           \/ HostSend \/ HostReceive \/ HostReset \/ HostRelease \/ Suspend
  BY <1>5 DEF DmaRead, DmaWrite, TimerElapses, HostCommand, HostSend, HostReceive,
              HostReset, HostRelease, Suspend
<1>6. CASE UNCHANGED vars
  BY <1>6
<1>7. QED BY <1>1, <1>2, <1>3, <1>4, <1>5, <1>6 DEF Next, Controller

\* A debug write with a datatype is only given up after a timeout of its own,
\* whatever commands came before and whatever the link did (usb.c:379-382).
THEOREM OnlyAfterTimeout == Spec => GivenUpAfterTimeout
<1>1. Init => TimeoutStarted
  BY DEF Init, TimeoutStarted
<1>2. Spec => []TimeoutStarted
  BY <1>1, StaysStarted, UsbInvariant, PTL DEF Spec
<1>3. TimeoutStarted => [RxDebugTimeout /\ rxCmd.typed => armed]_vars
  BY DEF TimeoutStarted, RxDebugTimeout, InRx
<1>4. QED BY <1>2, <1>3, PTL DEF GivenUpAfterTimeout

-----------------------------------------------------------------------------
(* Framing.  What is due in a stream is a number: 0 for a command or a      *)
(* header, n > 0 for n units of payload, -1 - n for the argument words of a *)
(* command with n units of payload.  Every item of a stream fits what is    *)
(* due when its turn comes, from what the reader waits for to what the      *)
(* writer is about to send.                                                 *)

Payload(c) == IF c.op \in {"M", "U"} THEN c.len ELSE 0

Fits(due, x) ==
  /\ x.t \in {"cmd", "hdr"} <=> due = 0
  /\ x.t = "args" <=> due < 0
  /\ x.t = "data" <=> due > 0

After(due, x) ==
  CASE x.t = "cmd"  -> -1 - Payload(x.c)
    [] x.t = "hdr"  -> x.len
    [] x.t = "args" -> -1 - due
    [] OTHER        -> due - 1

Frames(g, s) == \A i \in 1 .. Len(s) : Fits(g[i - 1], s[i]) /\ g[i] = After(g[i - 1], s[i])

\* The items of s lead from one thing due to another.
Chain(s, from, to) ==
  \E g \in [0 .. Len(s) -> Int] : g[0] = from /\ g[Len(s)] = to /\ Frames(g, s)

\* What usb_rx_process has not taken of a payload, less what the DMA engine has.
Piece ==
  IF rxState = "FLUSH" THEN Min2(rxLeft, FlushChunk)
  ELSE IF rxCmd.op = "U" THEN ReadWindow ELSE rxLeft

ToCome ==
  IF rxDma THEN rxLeft - Piece + (IF dmaDir = "rx" THEN dmaLeft ELSE 0) ELSE rxLeft

RxDue ==
  CASE rxState = "IDLE"  -> 0
    [] rxState = "ARGS"  -> -1 - Payload(rxCmd)
    [] rxState = "DATA"  -> IF rxCmd.op \in {"M", "U"} THEN ToCome ELSE 0
    [] rxState = "FLUSH" -> ToCome

TxDue ==
  IF txState # "DMA" THEN 0
  ELSE IF ~txDma THEN tx.len ELSE IF dmaDir = "tx" THEN dmaLeft ELSE 0

RxFramed ==
  \E m \in Int : Chain(rxq, RxDue, m) /\ (host # "reset" => Chain(todo, m, 0))

TxFramed == host # "reset" => Chain(txq, hostLeft, TxDue)

TxItem == [t : {"hdr"}, kind : {"CMP", "ERR", "PKT"}, id : Ops \cup Sources \cup {"G"}, len : Nat]
          \cup [t : {"data"}]

FrameType ==
  /\ txq \in Seq(TxItem) /\ hostLeft \in Nat
  /\ txDma => txState \in {"DMA", "FLUSH"}

\* A reset that was acknowledged leaves nothing behind, and a host that resets
\* the link has nothing more to send or to receive.
Stopped ==
  /\ lastReset => /\ rxState = "IDLE" /\ txState = "IDLE" /\ dmaLeft = 0
                  /\ rxq = <<>> /\ txq = <<>>
                  /\ pc \in {"other", "poll"} /\ host # "run"
  /\ host # "run" => todo = <<>> /\ hostLeft = 0

Framed == FrameType /\ Stopped /\ RxFramed /\ TxFramed

\* A stream without items leads nowhere.
LEMMA ChainEmpty == \A e \in Int : Chain(<<>>, e, e) /\ \A f : Chain(<<>>, e, f) => f = e
<1>1. ASSUME NEW e \in Int PROVE Chain(<<>>, e, e)
  <2> DEFINE g == [i \in 0 .. 0 |-> e]
  <2>1. Len(<<>>) = 0
    OBVIOUS
  <2>2. g \in [0 .. Len(<<>>) -> Int] /\ g[0] = e /\ g[Len(<<>>)] = e
    BY <2>1
  <2>3. Frames(g, <<>>)
    BY <2>1 DEF Frames
  <2> HIDE DEF g
  <2> QED BY <2>2, <2>3 DEF Chain
<1>2. ASSUME NEW e, NEW f, Chain(<<>>, e, f) PROVE f = e
  BY <1>2 DEF Chain
<1> QED BY <1>1, <1>2

\* The first item fits, and the rest goes on from there.
LEMMA ChainHead ==
  ASSUME NEW S, NEW s \in Seq(S), s # <<>>, NEW e, NEW f, Chain(s, e, f)
  PROVE  Fits(e, Head(s)) /\ Chain(Tail(s), After(e, Head(s)), f)
<1>1. PICK g \in [0 .. Len(s) -> Int] : g[0] = e /\ g[Len(s)] = f /\ Frames(g, s)
  BY DEF Chain
<1>2. Len(s) \in Nat \ {0} /\ Head(s) = s[1] /\ Tail(s) \in Seq(S)
      /\ Len(Tail(s)) = Len(s) - 1 /\ \A i \in 1 .. Len(s) - 1 : Tail(s)[i] = s[i + 1]
  OBVIOUS
<1>3. Fits(e, Head(s)) /\ g[1] = After(e, Head(s))
  BY <1>1, <1>2 DEF Frames
<1> DEFINE h == [i \in 0 .. Len(Tail(s)) |-> g[i + 1]]
<1>4. h \in [0 .. Len(Tail(s)) -> Int] /\ h[0] = g[1] /\ h[Len(Tail(s))] = f
  BY <1>1, <1>2
<1>5. Frames(h, Tail(s))
  <2> SUFFICES ASSUME NEW i \in 1 .. Len(Tail(s))
               PROVE  Fits(h[i - 1], Tail(s)[i]) /\ h[i] = After(h[i - 1], Tail(s)[i])
    BY DEF Frames
  <2>1. i + 1 \in 1 .. Len(s) /\ i \in 0 .. Len(Tail(s)) /\ i - 1 \in 0 .. Len(Tail(s))
    BY <1>2
  <2>2. h[i] = g[i + 1] /\ h[i - 1] = g[(i + 1) - 1] /\ Tail(s)[i] = s[i + 1]
    BY <1>2, <2>1
  <2> QED BY <1>1, <2>1, <2>2 DEF Frames
<1> HIDE DEF h
<1> QED BY <1>3, <1>4, <1>5 DEF Chain

\* What fits what is due at the end can be sent.
LEMMA ChainAppend ==
  ASSUME NEW S, NEW s \in Seq(S), NEW x \in S, NEW e, NEW f,
         Chain(s, e, f), Fits(f, x), After(f, x) \in Int
  PROVE  Chain(Append(s, x), e, After(f, x))
<1>1. PICK g \in [0 .. Len(s) -> Int] : g[0] = e /\ g[Len(s)] = f /\ Frames(g, s)
  BY DEF Chain
<1> DEFINE t == Append(s, x)
           h == [i \in 0 .. Len(t) |-> IF i = Len(t) THEN After(f, x) ELSE g[i]]
<1>2. Len(s) \in Nat /\ Len(t) = Len(s) + 1 /\ t[Len(t)] = x
      /\ \A i \in 1 .. Len(s) : t[i] = s[i]
  OBVIOUS
<1> HIDE DEF t
<1>3. h \in [0 .. Len(t) -> Int] /\ h[0] = e /\ h[Len(t)] = After(f, x)
  BY <1>1, <1>2
<1>4. Frames(h, t)
  <2> SUFFICES ASSUME NEW i \in 1 .. Len(t)
               PROVE  Fits(h[i - 1], t[i]) /\ h[i] = After(h[i - 1], t[i])
    BY DEF Frames
  <2>1. h[i - 1] = g[i - 1]
    BY <1>2
  <2>2. CASE i = Len(t)
    BY <1>1, <1>2, <2>1, <2>2
  <2>3. CASE i # Len(t)
    <3>1. i \in 1 .. Len(s) /\ h[i] = g[i] /\ t[i] = s[i]
      BY <1>2, <2>3
    <3> QED BY <1>1, <2>1, <3>1 DEF Frames
  <2> QED BY <2>2, <2>3
<1> HIDE DEF h
<1>5. Chain(t, e, After(f, x))
  BY <1>3, <1>4 DEF Chain
<1> QED BY <1>5 DEF t

\* The rest of a command, once the host has sent its first word.
LEMMA ChainCommand ==
  ASSUME NEW c \in CommandType
  PROVE  Chain(<<Args>> \o (IF c.op \in {"M", "U"} THEN [i \in 1..c.len |-> Data] ELSE <<>>),
               -1 - Payload(c), 0)
<1> DEFINE n == Payload(c)
           d == IF c.op \in {"M", "U"} THEN [i \in 1..c.len |-> Data] ELSE <<>>
           s == <<Args>> \o d
           g == [i \in 0 .. n + 1 |-> IF i = 0 THEN -1 - n ELSE n - (i - 1)]
<1>1. n \in Nat /\ d \in Seq({Data}) /\ Len(d) = n /\ \A i \in 1 .. n : d[i] = Data
  <2>1. c.len \in Nat
    BY DEF CommandType
  <2>2. CASE c.op \in {"M", "U"}
    BY <2>1, <2>2 DEF Payload
  <2>3. CASE c.op \notin {"M", "U"}
    BY <2>3 DEF Payload
  <2> QED BY <2>2, <2>3
<1> HIDE DEF n, d
<1>3. Len(s) = n + 1 /\ s[1] = Args /\ \A i \in 2 .. n + 1 : s[i] = Data
  <2>1. <<Args>> \in Seq({Args, Data}) /\ d \in Seq({Args, Data}) /\ Len(<<Args>>) = 1
    BY <1>1
  <2>2. Len(s) = n + 1 /\ s[1] = Args
    BY <1>1, <2>1
  <2>3. \A i \in 2 .. n + 1 : s[i] = d[i - 1]
    BY <1>1, <2>1
  <2> QED BY <1>1, <2>2, <2>3
<1> HIDE DEF s
<1>4. g \in [0 .. Len(s) -> Int] /\ g[0] = -1 - n /\ g[Len(s)] = 0
  BY <1>1, <1>3
<1>5. Frames(g, s)
  <2> SUFFICES ASSUME NEW i \in 1 .. Len(s)
               PROVE  Fits(g[i - 1], s[i]) /\ g[i] = After(g[i - 1], s[i])
    BY DEF Frames
  <2>1. CASE i = 1
    <3>1. s[i] = Args /\ g[i - 1] = -1 - n /\ g[i] = n
      BY <1>1, <1>3, <2>1
    <3>2. Fits(-1 - n, Args) /\ After(-1 - n, Args) = n
      BY <1>1 DEF Fits, After, Args
    <3> QED BY <3>1, <3>2
  <2>2. CASE i # 1
    <3>1. s[i] = Data /\ g[i - 1] = n - (i - 2) /\ g[i] = n - (i - 1)
          /\ i \in 2 .. n + 1
      BY <1>1, <1>3, <2>2
    <3>2. g[i - 1] > 0 /\ g[i] = g[i - 1] - 1 /\ g[i - 1] \in Int
      BY <1>1, <3>1
    <3> QED BY <3>1, <3>2 DEF Fits, After, Data
  <2> QED BY <2>1, <2>2
<1> HIDE DEF g
<1>6. Chain(s, -1 - n, 0)
  BY <1>4, <1>5 DEF Chain
<1> QED BY <1>6 DEF s, d, n

\* The controller reads what fits what it waits for.
LEMMA RxFits == Inv /\ RxFramed /\ rxq # <<>> => Fits(RxDue, Head(rxq))
BY ChainHead DEF RxFramed, Inv, TypeOK, LinkType

\* A step that takes nothing off the stream, and waits for the same.
LEMMA RxStill ==
  ASSUME RxFramed, RxDue' = RxDue, UNCHANGED <<rxq, todo, host>>
  PROVE  RxFramed'
BY DEF RxFramed

\* A step that takes an item.
LEMMA RxTakes ==
  ASSUME Inv, RxFramed, rxq # <<>>, rxq' = Tail(rxq), RxDue' = After(RxDue, Head(rxq)),
         UNCHANGED <<todo, host>>
  PROVE  RxFramed'
<1>1. PICK m \in Int : Chain(rxq, RxDue, m) /\ (host # "reset" => Chain(todo, m, 0))
  BY DEF RxFramed
<1>2. Chain(rxq', RxDue', m)
  BY <1>1, ChainHead DEF Inv, TypeOK, LinkType
<1> QED BY <1>1, <1>2 DEF RxFramed

\* What the receiver waits for is a number, and it waits for payload exactly
\* while the DMA engine or a flush takes it.
LEMMA RxDueBounds ==
  ASSUME Inv
  PROVE  /\ RxDue \in Int /\ Piece \in Nat
         /\ rxState = "IDLE" => RxDue = 0
         /\ rxState = "ARGS" => RxDue = -1 - Payload(rxCmd) /\ RxDue < 0
         /\ dmaDir = "rx" /\ dmaLeft > 0 =>
              /\ rxDma /\ RxDue > 0
              /\ rxState = "DATA" => rxCmd.op \in {"M", "U"}
              /\ RxDue = rxLeft - Piece + dmaLeft
<1> USE DEF Inv, TypeOK, LinkType, RxType
<1>1. rxCmd \in CommandType /\ rxCmd.len \in Nat /\ Payload(rxCmd) \in Nat
  BY DEF CommandType, Payload
<1>2. Piece \in Nat /\ Piece <= rxLeft
  <2>1. ReadWindow \in Nat /\ ReadWindow <= rxLeft
    BY MinBounds DEF ReadWindow
  <2>2. Min2(rxLeft, FlushChunk) \in Nat /\ Min2(rxLeft, FlushChunk) <= rxLeft
    BY MinBounds, LengthsAssumption
  <2> QED BY <2>1, <2>2 DEF Piece
<1>3. ToCome \in Int
  BY <1>2 DEF ToCome
<1>4. RxDue \in Int
  BY <1>1, <1>3 DEF RxDue
<1>5. rxState = "IDLE" => RxDue = 0
  BY DEF RxDue
<1>6. rxState = "ARGS" => RxDue = -1 - Payload(rxCmd) /\ RxDue < 0
  BY <1>1 DEF RxDue
<1>7. ASSUME dmaDir = "rx", dmaLeft > 0
      PROVE  /\ rxDma /\ RxDue > 0
             /\ rxState = "DATA" => rxCmd.op \in {"M", "U"}
             /\ RxDue = rxLeft - Piece + dmaLeft
  <2>1. rxDma /\ rxState \in {"DATA", "FLUSH"} /\ (rxState = "DATA" => rxCmd.op \in {"M", "U"})
    BY <1>7 DEF DmaOwned, Shape
  <2>2. RxDue = ToCome
    BY <2>1 DEF RxDue
  <2>3. ToCome = rxLeft - Piece + dmaLeft
    BY <1>7, <2>1 DEF ToCome
  <2>4. rxLeft - Piece + dmaLeft > 0
    BY <1>2, <1>7
  <2> QED BY <2>1, <2>2, <2>3, <2>4
<1> QED BY <1>2, <1>4, <1>5, <1>6, <1>7

\* The steps of usb_rx_process that take nothing off the stream.
LEMMA RxDueKept ==
  ASSUME Inv, RxProcess, ~RxIdle, ~RxArgs
  PROVE  RxDue' = RxDue /\ UNCHANGED <<rxq, todo, host>>
<1> USE DEF hostVars, rxVars, respVars, pktVars, txVars, readVars, dmaVars, InRx
<1>1. rxLeft \in Nat /\ readLen \in Nat /\ dmaLeft \in Nat /\ rxDma \in BOOLEAN
      /\ FlushChunk \in Nat \ {0} /\ rxCmd.len \in Nat
  BY LengthsAssumption DEF Inv, TypeOK, LinkType, RxType, CommandType
<1>2. CASE RxNothing
  BY <1>2 DEF RxNothing, RxWait, RxDue, ToCome, Piece, ReadWindow, Payload
<1>3. CASE RxAnswer
  BY <1>3 DEF RxAnswer, Respond, RxDue
<1>4. CASE RxWriteReject
  BY <1>4 DEF RxWriteReject, RxDue, ToCome
<1>5. CASE RxWriteStart
  <2>1. RxDue = rxLeft
    BY <1>5 DEF RxWriteStart, RxDue, ToCome
  <2>2. RxDue' = rxLeft - rxLeft + rxLeft
    BY <1>5 DEF RxWriteStart, StartRxDma, RxDue, ToCome, Piece
  <2> QED BY <1>1, <1>5, <2>1, <2>2 DEF RxWriteStart
<1>6. CASE RxWriteDone
  <2>1. RxDue = rxLeft - rxLeft + 0
    BY <1>6 DEF RxWriteDone, RxDue, ToCome, Piece, DmaReady
  <2>2. RxDue' = 0
    BY <1>6 DEF RxWriteDone, Respond, RxDue
  <2> QED BY <1>1, <1>6, <2>1, <2>2 DEF RxWriteDone
<1>7. CASE RxDebugEnd
  <2>1. ~rxDma
    BY <1>7 DEF RxDebugEnd, Inv, Shape
  <2> QED BY <1>7, <2>1 DEF RxDebugEnd, RxDue, ToCome
<1>8. CASE RxDebugStart
  <2> DEFINE w == ReadWindow
  <2>1. w \in Nat
    BY <1>1, MinBounds DEF ReadWindow
  <2>2. w' = w
    BY <1>8 DEF RxDebugStart, ReadWindow
  <2>3. RxDue = rxLeft
    BY <1>8 DEF RxDebugStart, RxDue, ToCome
  <2>4. RxDue' = rxLeft - w' + w
    BY <1>8 DEF RxDebugStart, StartRxDma, RxDue, ToCome, Piece
  <2> HIDE DEF w
  <2> QED BY <1>1, <1>8, <2>1, <2>2, <2>3, <2>4 DEF RxDebugStart
<1>9. CASE RxDebugDone
  <2>1. ReadWindow \in Nat
    BY <1>1, MinBounds DEF ReadWindow
  <2>2. RxDue = rxLeft - ReadWindow + 0
    BY <1>9 DEF RxDebugDone, RxDue, ToCome, Piece, DmaReady
  <2>3. RxDue' = rxLeft - ReadWindow
    BY <1>9 DEF RxDebugDone, RxDue, ToCome
  <2> QED BY <1>1, <1>9, <2>1, <2>2, <2>3 DEF RxDebugDone
<1>10. CASE RxDebugTimeout
  <2>1. ~rxDma
    BY <1>10 DEF RxDebugTimeout, Inv, Shape
  <2> QED BY <1>10, <2>1 DEF RxDebugTimeout, RxDue, ToCome
<1>11. CASE RxFlushStart
  <2> DEFINE w == Min2(rxLeft, FlushChunk)
  <2>1. w \in Nat
    BY <1>1, MinBounds
  <2>2. w' = w
    BY <1>11 DEF RxFlushStart
  <2>3. RxDue = rxLeft
    BY <1>11 DEF RxFlushStart, RxDue, ToCome
  <2>4. RxDue' = rxLeft - w' + w
    BY <1>11 DEF RxFlushStart, StartRxDma, RxDue, ToCome, Piece
  <2> HIDE DEF w
  <2> QED BY <1>1, <1>11, <2>1, <2>2, <2>3, <2>4 DEF RxFlushStart
<1>12. CASE RxFlushDone
  <2> DEFINE w == Min2(rxLeft, FlushChunk)
  <2>1. w \in Nat
    BY <1>1, MinBounds
  <2>2. RxDue = rxLeft - w + 0
    BY <1>12 DEF RxFlushDone, RxDue, ToCome, Piece, DmaReady
  <2>3. RxDue' = rxLeft - w
    BY <1>12 DEF RxFlushDone, RxDue, ToCome
  <2> HIDE DEF w
  <2> QED BY <1>1, <1>12, <2>1, <2>2, <2>3 DEF RxFlushDone
<1>13. ASSUME RxFlushReply \/ RxFlushPacket
       PROVE  RxDue' = RxDue /\ UNCHANGED <<rxq, todo, host>>
  <2>1. rxState = "FLUSH" /\ rxLeft = 0
    BY <1>13 DEF RxFlushReply, RxFlushPacket
  <2>2. Piece = 0
    BY <1>1, <2>1 DEF Piece, Min2
  <2>3. dmaLeft = 0 \/ dmaDir # "rx"
    BY <1>1, <2>1 DEF Inv, DmaOwned
  <2>4. RxDue = 0
    BY <1>1, <2>1, <2>2, <2>3 DEF RxDue, ToCome
  <2>5. RxDue' = 0
    BY <1>13 DEF RxFlushReply, RxFlushPacket, Respond, RxDue
  <2> QED BY <1>13, <2>4, <2>5 DEF RxFlushReply, RxFlushPacket
<1> QED BY <1>2, <1>3, <1>4, <1>5, <1>6, <1>7, <1>8, <1>9, <1>10, <1>11, <1>12, <1>13
        DEF RxProcess

\* Everybody else leaves what the receiver waits for alone.
LEMMA RxDueElsewhere ==
  ASSUME Inv,
         \/ PollInactive \/ PollActive \/ TxProcess
         \/ \E s \in Sources, len \in PacketLengths : Enqueue(s, len)
         \/ \E len \in ReadLengths : PrepareRead(len)
         \/ NextTurn \/ DmaWrite \/ TimerElapses \/ HostReceive \/ Suspend
  PROVE  RxDue' = RxDue /\ UNCHANGED <<rxq, todo, host>>
<1> USE DEF hostVars, rxVars, respVars, pktVars, txVars, readVars, dmaVars, ctrlVars
<1>1. CASE PollInactive \/ PollActive \/ NextTurn \/ TimerElapses \/ HostReceive \/ Suspend
  <2>1. UNCHANGED <<rxState, rxCmd, rxLeft, rxDma, dmaDir, dmaLeft, readLen, rxq, todo, host>>
    BY <1>1 DEF PollInactive, PollActive, NextTurn, TimerElapses, HostReceive, Suspend
  <2> QED BY <2>1 DEF RxDue, ToCome, Piece, ReadWindow, Payload
<1>2. ASSUME NEW s \in Sources, NEW len \in PacketLengths, Enqueue(s, len)
      PROVE  RxDue' = RxDue /\ UNCHANGED <<rxq, todo, host>>
  BY <1>2 DEF Enqueue, RxDue, ToCome, Piece, ReadWindow, Payload
<1>3. ASSUME NEW len \in ReadLengths, PrepareRead(len)
      PROVE  RxDue' = RxDue /\ UNCHANGED <<rxq, todo, host>>
  <2>1. ~(rxState = "DATA" /\ rxCmd.op = "U" /\ rxDma)
    BY <1>3 DEF PrepareRead, Inv, ReadHandshake
  <2>2. UNCHANGED <<rxState, rxCmd, rxLeft, rxDma, dmaDir, dmaLeft, rxq, todo, host>>
    BY <1>3 DEF PrepareRead
  <2> QED BY <2>1, <2>2 DEF RxDue, ToCome, Piece, ReadWindow, Payload
<1>4. CASE TxProcess /\ ~TxDmaStart
  <2>1. UNCHANGED <<rxState, rxCmd, rxLeft, rxDma, dmaDir, dmaLeft, readLen, rxq, todo, host>>
    BY <1>4 DEF TxProcess, TxNothing, TxResponse, TxPacket, TxToken, TxDmaDone, TxFlush
  <2> QED BY <2>1 DEF RxDue, ToCome, Piece, ReadWindow, Payload
<1>5. CASE TxDmaStart
  <2>1. UNCHANGED <<rxState, rxCmd, rxLeft, rxDma, readLen, rxq, todo, host>>
        /\ dmaLeft = 0 /\ dmaDir' = "tx"
    BY <1>5 DEF TxDmaStart, DmaReady
  <2>2. Piece' = Piece /\ Payload(rxCmd)' = Payload(rxCmd)
    BY <2>1 DEF Piece, ReadWindow, Payload
  <2>3. (IF dmaDir = "rx" THEN dmaLeft ELSE 0) = 0 /\ (IF dmaDir' = "rx" THEN dmaLeft' ELSE 0) = 0
    BY <2>1
  <2>4. ToCome' = ToCome
    BY <2>1, <2>2, <2>3 DEF ToCome
  <2> QED BY <2>1, <2>2, <2>4 DEF RxDue
<1>6. CASE DmaWrite
  <2>1. UNCHANGED <<rxState, rxCmd, rxLeft, rxDma, readLen, rxq, todo, host>>
        /\ dmaDir = "tx" /\ dmaDir' = "tx"
    BY <1>6 DEF DmaWrite
  <2>2. Piece' = Piece /\ Payload(rxCmd)' = Payload(rxCmd)
    BY <2>1 DEF Piece, ReadWindow, Payload
  <2>3. ToCome' = ToCome
    BY <2>1, <2>2 DEF ToCome
  <2> QED BY <2>1, <2>2, <2>3 DEF RxDue
<1> QED BY <1>1, <1>2, <1>3, <1>4, <1>5, <1>6 DEF TxProcess

\* The receiver's end of the stream (usb.c:87-150, 223-624).
LEMMA RxStepsFramed ==
  ASSUME Inv, FrameType, Stopped, RxFramed, [Next]_vars
  PROVE  RxFramed'
<1> USE DEF hostVars, rxVars, respVars, pktVars, txVars, readVars, dmaVars, ctrlVars
<1>1. CASE RxProcess /\ ~RxIdle /\ ~RxArgs
  BY <1>1, RxDueKept, RxStill
<1>2. CASE RxIdle
  <2>1. rxq # <<>> /\ rxq' = Tail(rxq) /\ Head(rxq).t = "cmd" /\ UNCHANGED <<todo, host>>
        /\ rxState' = "ARGS" /\ rxCmd' = Head(rxq).c
    BY <1>2 DEF RxIdle, CommandComes
  <2>2. RxDue' = -1 - Payload(Head(rxq).c)
    BY <2>1 DEF RxDue, Payload
  <2>3. After(RxDue, Head(rxq)) = -1 - Payload(Head(rxq).c)
    BY <2>1 DEF After
  <2> QED BY <2>1, <2>2, <2>3, RxTakes
<1>3. CASE RxArgs
  <2>1. rxq # <<>> /\ rxq' = Tail(rxq) /\ UNCHANGED <<todo, host>> /\ rxState = "ARGS"
        /\ rxState' = "DATA" /\ rxCmd' = rxCmd /\ rxLeft' = rxCmd.len /\ rxDma' = rxDma
    BY <1>3 DEF RxArgs, InRx
  <2>2. ~rxDma /\ Payload(rxCmd) \in Nat
    BY <2>1 DEF Inv, Shape, TypeOK, RxType, CommandType, Payload
  <2>3. RxDue' = Payload(rxCmd)
    BY <2>1, <2>2 DEF RxDue, ToCome, Payload
  <2>4. RxDue = -1 - Payload(rxCmd) /\ RxDue < 0
    BY <2>1, RxDueBounds
  <2>5. Head(rxq).t = "args"
    BY <2>1, <2>4, RxFits DEF Fits
  <2>6. After(RxDue, Head(rxq)) = Payload(rxCmd)
    BY <2>2, <2>4, <2>5 DEF After
  <2> QED BY <2>1, <2>3, <2>6, RxTakes
<1>4. CASE DmaRead
  <2>1. rxq # <<>> /\ rxq' = Tail(rxq) /\ dmaLeft' = dmaLeft - 1 /\ dmaDir = "rx" /\ dmaLeft > 0
        /\ UNCHANGED <<todo, host, rxState, rxCmd, rxLeft, rxDma, readLen, dmaDir>>
    BY <1>4 DEF DmaRead
  <2>2. /\ rxDma /\ RxDue > 0 /\ (rxState = "DATA" => rxCmd.op \in {"M", "U"})
        /\ RxDue = rxLeft - Piece + dmaLeft /\ RxDue \in Int
    BY <2>1, RxDueBounds
  <2>3. Head(rxq).t = "data"
    BY <2>1, <2>2, RxFits DEF Fits
  <2>4. After(RxDue, Head(rxq)) = RxDue - 1
    BY <2>3 DEF After
  <2>5. rxState \in {"DATA", "FLUSH"}
    BY <2>1 DEF Inv, DmaOwned
  <2>6. RxDue' = ToCome'
    BY <2>1, <2>2, <2>5 DEF RxDue
  <2>7. ToCome' = rxLeft - Piece + (dmaLeft - 1)
    BY <2>1, <2>2 DEF ToCome, Piece, ReadWindow
  <2>8. rxLeft - Piece + (dmaLeft - 1) = RxDue - 1
    <3>1. rxLeft \in Nat /\ dmaLeft \in Nat /\ Piece \in Int
      BY RxDueBounds DEF Inv, TypeOK, LinkType, RxType
    <3> QED BY <2>2, <3>1
  <2> QED BY <2>1, <2>4, <2>6, <2>7, <2>8, RxTakes
<1>5. ASSUME NEW c \in Commands, HostCommand(c) PROVE RxFramed'
  <2>1. PICK m \in Int : Chain(rxq, RxDue, m) /\ (host # "reset" => Chain(todo, m, 0))
    BY DEF RxFramed
  <2>2. host = "run" /\ todo = <<>> /\ rxq' = Append(rxq, Cmd(c)) /\ host' = host
        /\ todo' = <<Args>> \o (IF c.op \in {"M", "U"} THEN [i \in 1..c.len |-> Data] ELSE <<>>)
        /\ UNCHANGED <<rxState, rxCmd, rxLeft, rxDma, readLen, dmaDir, dmaLeft>>
    BY <1>5 DEF HostCommand, Connected
  <2>3. m = 0
    BY <2>1, <2>2, ChainEmpty
  <2>4. c \in CommandType /\ Payload(c) \in Nat
    BY CommandsAssumption DEF CommandType, Payload
  <2>5. Fits(0, Cmd(c)) /\ After(0, Cmd(c)) = -1 - Payload(c)
    BY DEF Fits, After, Cmd
  <2>6. rxq \in Seq(ItemType) /\ Cmd(c) \in ItemType
    BY DEF Inv, TypeOK, LinkType, ItemType, Cmd
  <2>7. -1 - Payload(c) \in Int
    BY <2>4
  <2>8. Chain(rxq', RxDue, -1 - Payload(c))
    BY <2>1, <2>2, <2>3, <2>5, <2>6, <2>7, ChainAppend
  <2>9. Chain(todo', -1 - Payload(c), 0)
    BY <2>2, <2>4, ChainCommand
  <2>10. RxDue' = RxDue
    BY <2>2 DEF RxDue, ToCome, Piece, ReadWindow, Payload
  <2> QED BY <2>7, <2>8, <2>9, <2>10 DEF RxFramed
<1>6. CASE HostSend
  <2>1. PICK m \in Int : Chain(rxq, RxDue, m) /\ (host # "reset" => Chain(todo, m, 0))
    BY DEF RxFramed
  <2>2. host = "run" /\ todo # <<>> /\ rxq' = Append(rxq, Head(todo)) /\ host' = host
        /\ todo' = Tail(todo)
        /\ UNCHANGED <<rxState, rxCmd, rxLeft, rxDma, readLen, dmaDir, dmaLeft>>
    BY <1>6 DEF HostSend, Connected
  <2>3. rxq \in Seq(ItemType) /\ todo \in Seq(ItemType)
    BY DEF Inv, TypeOK, LinkType
  <2>4. Head(todo) \in ItemType
    BY <2>2, <2>3
  <2>5. Fits(m, Head(todo)) /\ Chain(Tail(todo), After(m, Head(todo)), 0)
    BY <2>1, <2>2, <2>3, ChainHead
  <2>6. After(m, Head(todo)) \in Int
    <3>1. CASE Head(todo).t = "cmd"
      <4>1. Head(todo).c \in CommandType
        BY <2>4, <3>1, CommandsAssumption DEF ItemType
      <4>2. Payload(Head(todo).c) \in Nat
        BY <4>1 DEF CommandType, Payload
      <4> QED BY <3>1, <4>2 DEF After
    <3>2. CASE Head(todo).t \in {"args", "data"}
      BY <2>1, <3>2 DEF After
    <3> QED BY <2>4, <3>1, <3>2 DEF ItemType
  <2>7. Chain(rxq', RxDue, After(m, Head(todo)))
    BY <2>1, <2>2, <2>3, <2>4, <2>5, <2>6, ChainAppend
  <2>8. RxDue' = RxDue
    BY <2>2 DEF RxDue, ToCome, Piece, ReadWindow, Payload
  <2> QED BY <2>2, <2>5, <2>6, <2>7, <2>8 DEF RxFramed
<1>7. CASE PollResetOn
  <2>1. rxq' = <<>> /\ RxDue' = 0 /\ host' = "reset"
    BY <1>7 DEF PollResetOn, ResetState, ResetRequested, RxDue
  <2>2. Chain(<<>>, 0, 0)
    BY ChainEmpty
  <2> QED BY <2>1, <2>2 DEF RxFramed
<1>8. CASE HostReset
  <2>1. UNCHANGED <<rxq, rxState, rxCmd, rxLeft, rxDma, readLen, dmaDir, dmaLeft>>
        /\ host' = "reset"
    BY <1>8 DEF HostReset
  <2>2. RxDue' = RxDue
    BY <2>1 DEF RxDue, ToCome, Piece, ReadWindow, Payload
  <2> QED BY <2>1, <2>2 DEF RxFramed
<1>9. CASE HostRelease
  <2>1. UNCHANGED <<rxq, todo, rxState, rxCmd, rxLeft, rxDma, readLen, dmaDir, dmaLeft>>
    BY <1>9 DEF HostRelease
  <2>2. RxDue' = RxDue
    BY <2>1 DEF RxDue, ToCome, Piece, ReadWindow, Payload
  <2>3. CASE host # "reset"
    BY <1>9, <2>1, <2>2, <2>3 DEF RxFramed, HostRelease
  <2>4. CASE host = "reset"
    <3>1. lastReset
      BY <1>9, <2>4 DEF HostRelease
    <3>2. rxq = <<>> /\ todo = <<>> /\ RxDue = 0
      BY <2>4, <3>1 DEF Stopped, RxDue
    <3>3. Chain(<<>>, 0, 0)
      BY ChainEmpty
    <3> QED BY <2>1, <2>2, <3>2, <3>3 DEF RxFramed
  <2> QED BY <2>3, <2>4
<1>10. CASE \/ PollInactive \/ PollActive \/ TxProcess
            \/ \E s \in Sources, len \in PacketLengths : Enqueue(s, len)
            \/ \E len \in ReadLengths : PrepareRead(len)
            \/ NextTurn \/ DmaWrite \/ TimerElapses \/ HostReceive \/ Suspend
  BY <1>10, RxDueElsewhere, RxStill
<1>11. CASE UNCHANGED vars
  <2>1. UNCHANGED <<rxq, todo, host, rxState, rxCmd, rxLeft, rxDma, readLen, dmaDir, dmaLeft>>
    BY <1>11 DEF vars
  <2> QED BY <2>1, RxStill DEF RxDue, ToCome, Piece, ReadWindow, Payload
<1> QED BY <1>1, <1>2, <1>3, <1>4, <1>5, <1>6, <1>7, <1>8, <1>9, <1>10, <1>11
        DEF Next, Controller

\* A step that sends nothing, and has the same to send.
LEMMA TxStill ==
  ASSUME TxFramed, TxDue' = TxDue, UNCHANGED <<txq, hostLeft, host>>
  PROVE  TxFramed'
BY DEF TxFramed

\* A step that sends an item.
LEMMA TxSends ==
  ASSUME FrameType, TxFramed, NEW x \in TxItem, txq' = Append(txq, x), Fits(TxDue, x),
         TxDue' = After(TxDue, x), TxDue' \in Int, UNCHANGED <<hostLeft, host>>
  PROVE  TxFramed'
BY ChainAppend DEF TxFramed, FrameType

\* The host's end of the other stream (usb.c:626-699).
LEMMA TxStepsFramed ==
  ASSUME Inv, FrameType, Stopped, TxFramed, [Next]_vars
  PROVE  TxFramed' /\ FrameType'
<1> USE DEF hostVars, rxVars, respVars, pktVars, txVars, readVars, dmaVars, ctrlVars
<1>1. tx.len \in Nat /\ dmaLeft \in Nat /\ txDma \in BOOLEAN /\ Header(tx) \in TxItem
      /\ Data \in TxItem
  BY DEF Inv, TypeOK, LinkType, TxType, MessageType, TxItem, Header, Data
<1>2. CASE \/ PollInactive \/ PollActive \/ RxProcess \/ NextTurn \/ DmaRead \/ TimerElapses
           \/ \E s \in Sources, len \in PacketLengths : Enqueue(s, len)
           \/ \E len \in ReadLengths : PrepareRead(len)
           \/ \E c \in Commands : HostCommand(c)
           \/ HostSend \/ Suspend \/ UNCHANGED vars
  <2>1. UNCHANGED <<txState, txDma, txq, hostLeft, host>> /\ tx'.len = tx.len
    <3>1. CASE \/ PollActive \/ NextTurn \/ DmaRead \/ TimerElapses \/ HostSend \/ Suspend
      BY <3>1 DEF PollActive, NextTurn, DmaRead, TimerElapses, HostSend, Suspend
    <3>2. CASE RxProcess
      BY <3>2 DEF RxProcess, RxNothing, RxWait, RxIdle, RxArgs, RxAnswer, RxWriteReject,
                  RxWriteStart, RxWriteDone, RxDebugEnd, RxDebugStart, RxDebugDone,
                  RxDebugTimeout, RxFlushStart, RxFlushDone, RxFlushReply, RxFlushPacket
    <3>3. CASE PollInactive
      BY <3>3 DEF PollInactive, Inv, TypeOK, TxType, MessageType
    <3>4. CASE \/ \E s \in Sources, len \in PacketLengths : Enqueue(s, len)
               \/ \E len \in ReadLengths : PrepareRead(len)
               \/ \E c \in Commands : HostCommand(c)
      BY <3>4 DEF Enqueue, PrepareRead, HostCommand
    <3>5. CASE UNCHANGED vars
      BY <3>5 DEF vars
    <3> QED BY <1>2, <3>1, <3>2, <3>3, <3>4, <3>5
  <2>2. \/ UNCHANGED <<dmaDir, dmaLeft>>
        \/ dmaLeft = 0 /\ dmaDir' = "rx"
        \/ dmaDir = "rx" /\ dmaDir' = "rx"
    <3>1. CASE \/ PollActive \/ PollInactive \/ NextTurn \/ DmaRead \/ TimerElapses
               \/ HostSend \/ Suspend
      BY <3>1 DEF PollActive, PollInactive, NextTurn, DmaRead, TimerElapses, HostSend, Suspend
    <3>2. CASE RxProcess
      BY <3>2 DEF RxProcess, RxNothing, RxWait, RxIdle, RxArgs, RxAnswer, RxWriteReject,
                  RxWriteStart, RxWriteDone, RxDebugEnd, RxDebugStart, RxDebugDone,
                  RxDebugTimeout, RxFlushStart, RxFlushDone, RxFlushReply, RxFlushPacket,
                  StartRxDma, DmaReady, Respond
    <3>3. CASE \/ \E s \in Sources, len \in PacketLengths : Enqueue(s, len)
               \/ \E len \in ReadLengths : PrepareRead(len)
               \/ \E c \in Commands : HostCommand(c)
      BY <3>3 DEF Enqueue, PrepareRead, HostCommand
    <3>4. CASE UNCHANGED vars
      BY <3>4 DEF vars
    <3> QED BY <1>2, <3>1, <3>2, <3>3, <3>4
  <2>3. TxDue' = TxDue
    BY <2>1, <2>2 DEF TxDue
  <2> QED BY <2>1, <2>3, TxStill DEF FrameType
<1>3. CASE TxProcess /\ ~TxToken
  <2>1. UNCHANGED <<txq, hostLeft, host>>
    BY <1>3 DEF TxProcess, TxNothing, TxResponse, TxPacket, TxDmaStart, TxDmaDone, TxFlush
  <2>2. FrameType'
    BY <1>3, <2>1 DEF TxProcess, TxNothing, TxResponse, TxPacket, TxDmaStart, TxDmaDone,
                      TxFlush, FrameType, InTx
  <2>3. TxDue' = TxDue
    <3>1. CASE TxNothing
      BY <3>1 DEF TxNothing, TxDue
    <3>2. CASE TxResponse \/ TxPacket
      BY <3>2 DEF TxResponse, TxPacket, TxDue, InTx
    <3>3. CASE TxDmaStart
      BY <3>3 DEF TxDmaStart, TxDue, InTx
    <3>4. CASE TxDmaDone
      <4>1. TxDue = 0
        BY <1>1, <3>4 DEF TxDmaDone, TxDue, InTx, DmaReady, Inv, DmaOwned
      <4> QED BY <3>4, <4>1 DEF TxDmaDone, TxDue
    <3>5. CASE TxFlush
      BY <3>5 DEF TxFlush, TxDue, InTx
    <3> QED BY <1>3, <3>1, <3>2, <3>3, <3>4, <3>5 DEF TxProcess
  <2> QED BY <2>1, <2>2, <2>3, TxStill
<1>4. CASE TxToken
  <2>1. txState = "TOKEN" /\ txState' = "DMA" /\ txq' = Append(txq, Header(tx))
        /\ UNCHANGED <<tx, txDma, hostLeft, host>>
    BY <1>4 DEF TxToken, InTx
  <2>2. ~txDma
    BY <2>1 DEF FrameType
  <2>3. TxDue = 0 /\ TxDue' = tx.len
    BY <2>1, <2>2 DEF TxDue
  <2>4. Fits(0, Header(tx)) /\ After(0, Header(tx)) = tx.len
    BY DEF Fits, After, Header
  <2>5. txq' \in Seq(TxItem)
    BY <1>1, <2>1 DEF FrameType
  <2> QED BY <1>1, <2>1, <2>2, <2>3, <2>4, <2>5, TxSends DEF FrameType
<1>5. CASE DmaWrite
  <2>1. txq' = Append(txq, Data) /\ dmaLeft' = dmaLeft - 1 /\ dmaLeft > 0 /\ dmaDir = "tx"
        /\ UNCHANGED <<dmaDir, txState, tx, txDma, hostLeft, host>>
    BY <1>5 DEF DmaWrite
  <2>2. txDma /\ txState = "DMA"
    BY <2>1 DEF Inv, DmaOwned
  <2>3. TxDue = dmaLeft /\ TxDue' = dmaLeft - 1
    BY <2>1, <2>2 DEF TxDue
  <2>4. Fits(dmaLeft, Data) /\ After(dmaLeft, Data) = dmaLeft - 1
    BY <1>1, <2>1 DEF Fits, After, Data
  <2>5. txq' \in Seq(TxItem)
    BY <1>1, <2>1 DEF FrameType
  <2> QED BY <1>1, <2>1, <2>2, <2>3, <2>4, <2>5, TxSends DEF FrameType
<1>6. CASE HostReceive
  <2>1. host = "run" /\ txq # <<>> /\ txq' = Tail(txq)
        /\ hostLeft' = (IF hostLeft > 0 THEN hostLeft - 1 ELSE Head(txq).len)
        /\ UNCHANGED <<host, txState, tx, txDma, dmaDir, dmaLeft>>
    BY <1>6 DEF HostReceive, Connected
  <2>2. txq \in Seq(TxItem) /\ hostLeft \in Nat
    BY DEF FrameType
  <2>3. Head(txq) \in TxItem /\ Tail(txq) \in Seq(TxItem)
    BY <2>1, <2>2
  <2>4. Fits(hostLeft, Head(txq)) /\ Chain(Tail(txq), After(hostLeft, Head(txq)), TxDue)
    BY <2>1, <2>2, ChainHead DEF TxFramed
  <2>5. After(hostLeft, Head(txq)) = hostLeft' /\ hostLeft' \in Nat
    <3>1. CASE hostLeft > 0
      <4>1. Head(txq).t = "data"
        BY <2>4, <3>1 DEF Fits
      <4> QED BY <2>1, <2>2, <3>1, <4>1 DEF After
    <3>2. CASE hostLeft = 0
      <4>1. Head(txq).t = "hdr"
        BY <2>3, <2>4, <3>2 DEF Fits, TxItem
      <4>2. Head(txq).len \in Nat
        BY <2>3, <4>1 DEF TxItem
      <4> QED BY <2>1, <3>2, <4>1, <4>2 DEF After
    <3> QED BY <2>2, <3>1, <3>2
  <2>6. TxDue' = TxDue
    BY <2>1 DEF TxDue
  <2> QED BY <2>1, <2>3, <2>4, <2>5, <2>6 DEF TxFramed, FrameType
<1>7. CASE PollResetOn
  <2>1. txq' = <<>> /\ host' = "reset" /\ hostLeft' = hostLeft /\ ~txDma'
    BY <1>7 DEF PollResetOn, ResetState, ResetRequested
  <2>2. <<>> \in Seq(TxItem)
    OBVIOUS
  <2> QED BY <2>1, <2>2 DEF TxFramed, FrameType
<1>8. CASE HostReset
  BY <1>8 DEF HostReset, TxFramed, FrameType
<1>9. CASE HostRelease
  <2>1. UNCHANGED <<txq, hostLeft, txState, tx, txDma, dmaDir, dmaLeft>>
    BY <1>9 DEF HostRelease
  <2>2. TxDue' = TxDue /\ FrameType'
    BY <2>1 DEF TxDue, FrameType
  <2>3. CASE host # "reset"
    BY <1>9, <2>1, <2>2, <2>3 DEF TxFramed, HostRelease
  <2>4. CASE host = "reset"
    <3>1. lastReset
      BY <1>9, <2>4 DEF HostRelease
    <3>2. txq = <<>> /\ hostLeft = 0 /\ TxDue = 0
      BY <2>4, <3>1 DEF Stopped, TxDue
    <3>3. Chain(<<>>, 0, 0)
      BY ChainEmpty
    <3> QED BY <2>1, <2>2, <3>2, <3>3 DEF TxFramed
  <2> QED BY <2>3, <2>4
<1> QED BY <1>2, <1>3, <1>4, <1>5, <1>6, <1>7, <1>8, <1>9 DEF Next, Controller

\* A reset that was acknowledged stays one until the host ends it
\* (usb.c:152-199).
LEMMA StaysStopped ==
  ASSUME Inv, Stopped, [Next]_vars
  PROVE  Stopped'
<1> USE DEF hostVars, rxVars, respVars, pktVars, txVars, readVars, dmaVars, ctrlVars
<1>1. CASE RxProcess
  <2>1. ~lastReset
    BY <1>1 DEF Stopped, RxProcess, RxNothing, InRx, RxIdle, RxArgs, RxAnswer, RxWriteReject,
                RxWriteStart, RxWriteDone, RxDebugEnd, RxDebugStart, RxDebugDone,
                RxDebugTimeout, RxFlushStart, RxFlushDone, RxFlushReply, RxFlushPacket
  <2>2. UNCHANGED <<lastReset, host, todo, hostLeft>>
    BY <1>1 DEF RxProcess, RxNothing, RxWait, RxIdle, RxArgs, RxAnswer, RxWriteReject,
                RxWriteStart, RxWriteDone, RxDebugEnd, RxDebugStart, RxDebugDone,
                RxDebugTimeout, RxFlushStart, RxFlushDone, RxFlushReply, RxFlushPacket
  <2> QED BY <2>1, <2>2 DEF Stopped
<1>2. CASE TxProcess
  <2>1. ~lastReset
    BY <1>2 DEF Stopped, TxProcess, TxNothing, InTx, TxResponse, TxPacket, TxToken,
                TxDmaStart, TxDmaDone, TxFlush
  <2>2. UNCHANGED <<lastReset, host, todo, hostLeft>>
    BY <1>2 DEF TxProcess, TxNothing, TxResponse, TxPacket, TxToken, TxDmaStart, TxDmaDone,
                TxFlush
  <2> QED BY <2>1, <2>2 DEF Stopped
<1>3. CASE PollResetOn
  BY <1>3 DEF PollResetOn, ResetState, ResetRequested, Stopped
<1>4. CASE PollInactive \/ PollActive
  <2>1. UNCHANGED <<host, todo, hostLeft>>
    BY <1>4 DEF PollInactive, PollActive
  <2>2. CASE PollActive
    BY <2>1, <2>2 DEF PollActive, Stopped
  <2>3. CASE PollInactive
    <3>1. UNCHANGED <<rxState, txState, dmaLeft, rxq, txq>> /\ pc' = "other"
      BY <2>3 DEF PollInactive
    <3>2. lastReset' => lastReset
      BY <2>3 DEF PollInactive, ResetRequested
    <3> QED BY <2>1, <3>1, <3>2 DEF Stopped
  <2> QED BY <1>4, <2>2, <2>3
<1>5. CASE \/ \E s \in Sources, len \in PacketLengths : Enqueue(s, len)
           \/ \E len \in ReadLengths : PrepareRead(len)
           \/ NextTurn
  BY <1>5 DEF Enqueue, PrepareRead, NextTurn, Stopped
<1>6. CASE DmaRead \/ DmaWrite \/ TimerElapses \/ Suspend
  BY <1>6 DEF DmaRead, DmaWrite, TimerElapses, Suspend, Stopped
<1>7. CASE (\E c \in Commands : HostCommand(c)) \/ HostSend \/ HostReceive
  <2>1. host = "run" /\ UNCHANGED <<host, lastReset>>
    BY <1>7 DEF HostCommand, HostSend, HostReceive, Connected
  <2> QED BY <2>1 DEF Stopped
<1>8. CASE HostReset \/ HostRelease
  BY <1>8 DEF HostReset, HostRelease, Connected, Stopped
<1>9. CASE UNCHANGED vars
  BY <1>9 DEF vars, Stopped
<1> QED BY <1>1, <1>2, <1>3, <1>4, <1>5, <1>6, <1>7, <1>8, <1>9 DEF Next, Controller

\* The streams are framed when the link comes up.
LEMMA InitFramed == Init => Framed
<1> SUFFICES ASSUME Init PROVE Framed
  OBVIOUS
<1>1. <<>> \in Seq(TxItem) /\ Chain(<<>>, 0, 0)
  BY ChainEmpty
<1>2. RxDue = 0 /\ TxDue = 0
  BY DEF Init, RxDue, TxDue
<1>3. rxq = <<>> /\ txq = <<>> /\ todo = <<>> /\ hostLeft = 0 /\ ~txDma /\ ~lastReset
      /\ host = "run"
  BY DEF Init
<1> QED BY <1>1, <1>2, <1>3 DEF Framed, FrameType, Stopped, RxFramed, TxFramed

\* Framing, by induction over the steps.
LEMMA UsbFramed == Spec => [](Inv /\ Framed)
<1>1. Inv /\ Framed /\ [Next]_vars => Inv' /\ Framed'
  BY NextInv, RxStepsFramed, TxStepsFramed, StaysStopped DEF Framed
<1> QED BY <1>1, InitInv, InitFramed, PTL DEF Spec

\* Nobody loses the framing of the streams, for any commands, packets and sizes
\* of the FIFOs, whatever is refused, flushed or given up after a timeout, and
\* across resets and suspensions: a command is looked for where one starts, the
\* DMA engine takes payload only, and the host finds a header where the length
\* in the last one says (usb.c:338-382, 592-624, 645-689).
THEOREM StreamsFramed == Spec => []InFrame
<1>1. Inv /\ Framed => InFrame
  <2> SUFFICES ASSUME Inv, Framed PROVE InFrame
    OBVIOUS
  <2>1. ASSUME rxq # <<>>
        PROVE  /\ rxState = "IDLE" => Head(rxq).t = "cmd"
               /\ rxState = "ARGS" => Head(rxq).t = "args"
               /\ dmaDir = "rx" /\ dmaLeft > 0 => Head(rxq).t = "data"
    <3>1. Fits(RxDue, Head(rxq))
      BY <2>1, RxFits DEF Framed
    <3>2. Head(rxq) \in ItemType
      BY <2>1 DEF Inv, TypeOK, LinkType
    <3>3. Head(rxq).t # "hdr"
      BY <3>2 DEF ItemType
    <3> QED BY <3>1, <3>3, RxDueBounds DEF Fits
  <2>2. ASSUME host = "run", txq # <<>>
        PROVE  Head(txq).t = "hdr" <=> hostLeft = 0
    <3>1. txq \in Seq(TxItem) /\ Chain(txq, hostLeft, TxDue)
      BY <2>2 DEF Framed, FrameType, TxFramed
    <3>2. Fits(hostLeft, Head(txq))
      BY <2>2, <3>1, ChainHead
    <3>3. Head(txq) \in TxItem
      BY <2>2, <3>1
    <3>4. Head(txq).t # "cmd"
      BY <3>3 DEF TxItem
    <3> QED BY <3>2, <3>4 DEF Fits
  <2> QED BY <2>1, <2>2 DEF InFrame
<1> QED BY <1>1, UsbFramed, PTL

-----------------------------------------------------------------------------
(* The order of the responses.  Outcomes is a recursive function: that it   *)
(* follows the stream at both ends is shown of the first place where it     *)
(* would not, there being a least number in every set of them.              *)

\* A set of numbers that is not empty has a least one: what follows is shown
\* of the first position where it would fail.
LEMMA LeastNat ==
  ASSUME NEW T \in SUBSET Nat, T # {}
  PROVE  \E x \in T : \A y \in T : x <= y
<1>1. PICK x \in T : \A y \in T : ~(<<y, x>> \in OpToRel(<, Nat))
  BY WFMin, NatLessThanWellFounded
<1>2. \A y \in T : ~(y < x)
  BY <1>1 DEF OpToRel
<1> QED BY <1>2

\* f[n] are the outcomes of the first n items of s.
Collects(f, s, n) ==
  f = [i \in 0 .. n |-> IF i = 0 THEN <<>> ELSE f[i - 1] \o Outcome(s[i])]

\* One item after the other.
LEMMA CollectsStep ==
  ASSUME NEW S, NEW s \in Seq(S), NEW f, Collects(f, s, Len(s))
  PROVE  f[0] = <<>> /\ \A i \in 1 .. Len(s) : f[i] = f[i - 1] \o Outcome(s[i])
<1> DEFINE n == Len(s)
<1> n \in Nat
  OBVIOUS
<1>1. ASSUME NEW i \in 0 .. n PROVE f[i] = IF i = 0 THEN <<>> ELSE f[i - 1] \o Outcome(s[i])
  BY DEF Collects
<1>2. f[0] = <<>>
  BY <1>1
<1>3. ASSUME NEW i \in 1 .. n PROVE f[i] = f[i - 1] \o Outcome(s[i])
  <2>1. i \in 0 .. n /\ i # 0
    OBVIOUS
  <2> QED BY <1>1, <2>1
<1> QED BY <1>2, <1>3

\* There is such an f, whatever s is.
LEMMA CollectsSome ==
  ASSUME NEW s, NEW n \in Nat
  PROVE  \E f : Collects(f, s, n)
<1> DEFINE T == {m \in Nat : ~\E f : Collects(f, s, m)}
<1> SUFFICES ASSUME T # {} PROVE FALSE
  OBVIOUS
<1>1. PICK m \in T : \A y \in T : m <= y
  BY LeastNat
<1>2. CASE m = 0
  <2> DEFINE g == [i \in 0 .. 0 |-> <<>>]
  <2>1. g = [i \in 0 .. 0 |-> IF i = 0 THEN <<>> ELSE g[i - 1] \o Outcome(s[i])]
    OBVIOUS
  <2>2. Collects(g, s, 0)
    BY <2>1 DEF Collects
  <2> QED BY <1>1, <1>2, <2>2
<1>3. CASE m # 0
  <2>1. m - 1 \in Nat /\ m \in Nat
    BY <1>1, <1>3
  <2>2. PICK f : Collects(f, s, m - 1)
    BY <1>1, <2>1
  <2> DEFINE g == [i \in 0 .. m |-> IF i = m THEN f[m - 1] \o Outcome(s[m]) ELSE f[i]]
  <2>3. \A i \in 0 .. m - 1 : f[i] = IF i = 0 THEN <<>> ELSE f[i - 1] \o Outcome(s[i])
    BY <2>1, <2>2 DEF Collects
  <2>4. g = [i \in 0 .. m |-> IF i = 0 THEN <<>> ELSE g[i - 1] \o Outcome(s[i])]
    <3> SUFFICES ASSUME NEW i \in 0 .. m
                 PROVE  g[i] = IF i = 0 THEN <<>> ELSE g[i - 1] \o Outcome(s[i])
      OBVIOUS
    <3>1. CASE i = m
      BY <1>3, <2>1, <3>1
    <3>2. CASE i # m
      <4>1. i \in 0 .. m - 1 /\ (i # 0 => i - 1 \in 0 .. m /\ i - 1 # m)
        BY <2>1, <3>2
      <4> QED BY <2>3, <3>2, <4>1
    <3> QED BY <3>1, <3>2
  <2>5. Collects(g, s, m)
    BY <2>4 DEF Collects
  <2> QED BY <1>1, <2>5
<1> QED BY <1>2, <1>3

\* What is collected is the same as long as the items are.
LEMMA CollectsSame ==
  ASSUME NEW S, NEW s \in Seq(S), NEW t \in Seq(S), Len(s) <= Len(t),
         \A i \in 1 .. Len(s) : s[i] = t[i],
         NEW f, NEW g, Collects(f, s, Len(s)), Collects(g, t, Len(t))
  PROVE  \A i \in 0 .. Len(s) : f[i] = g[i]
<1> DEFINE k == Len(s)
<1> k \in Nat /\ Len(t) \in Nat
  OBVIOUS
<1> DEFINE T == {i \in 0 .. k : f[i] # g[i]}
<1> SUFFICES ASSUME T # {} PROVE FALSE
  OBVIOUS
<1>1. PICK i \in T : \A y \in T : i <= y
  <2>1. T \in SUBSET Nat
    OBVIOUS
  <2> QED BY <2>1, LeastNat
<1>2. f[i] = (IF i = 0 THEN <<>> ELSE f[i - 1] \o Outcome(s[i]))
      /\ g[i] = (IF i = 0 THEN <<>> ELSE g[i - 1] \o Outcome(t[i]))
  <2>1. i \in 0 .. Len(s) /\ i \in 0 .. Len(t)
    BY <1>1
  <2> QED BY <2>1 DEF Collects
<1>3. CASE i = 0
  BY <1>1, <1>2, <1>3
<1>4. CASE i # 0
  <2>1. i - 1 \in 0 .. k /\ i \in 1 .. k /\ i - 1 < i
    BY <1>1, <1>4
  <2>2. f[i - 1] = g[i - 1]
    BY <1>1, <2>1
  <2> QED BY <1>1, <1>2, <1>4, <2>1, <2>2
<1> QED BY <1>3, <1>4

\* And it consists of outcomes.
LEMMA CollectsTyped ==
  ASSUME NEW S, NEW R, \A x \in S : Outcome(x) \in Seq(R), NEW s \in Seq(S),
         NEW f, Collects(f, s, Len(s))
  PROVE  \A i \in 0 .. Len(s) : f[i] \in Seq(R)
<1> DEFINE T == {i \in 0 .. Len(s) : f[i] \notin Seq(R)}
<1> SUFFICES ASSUME T # {} PROVE FALSE
  OBVIOUS
<1>1. PICK i \in T : \A y \in T : i <= y
  <2>1. T \in SUBSET Nat
    OBVIOUS
  <2> QED BY <2>1, LeastNat
<1>2. f[i] = (IF i = 0 THEN <<>> ELSE f[i - 1] \o Outcome(s[i]))
  BY DEF Collects
<1>3. CASE i = 0
  <2>1. f[i] = <<>> /\ <<>> \in Seq(R)
    BY <1>2, <1>3
  <2> QED BY <1>1, <2>1
<1>4. CASE i # 0
  <2>1. i - 1 \in 0 .. Len(s) /\ i \in 1 .. Len(s) /\ i - 1 < i
    BY <1>1, <1>4
  <2>2. f[i - 1] \in Seq(R) /\ Outcome(s[i]) \in Seq(R)
    BY <1>1, <2>1
  <2>3. f[i - 1] \o Outcome(s[i]) \in Seq(R)
    BY <2>2
  <2> QED BY <1>1, <1>2, <1>4, <2>3
<1> QED BY <1>3, <1>4

\* The outcomes of a stream are the last ones collected.
LEMMA OutcomesCollected ==
  ASSUME NEW S, NEW s \in Seq(S)
  PROVE  \E f : Collects(f, s, Len(s)) /\ Outcomes(s) = f[Len(s)]
<1> DEFINE f == CHOOSE g : Collects(g, s, Len(s))
<1>1. Collects(f, s, Len(s))
  BY CollectsSome
<1>2. Outcomes(s) = f[Len(s)]
  BY DEF Outcomes, Collects
<1> HIDE DEF f
<1> QED BY <1>1, <1>2

\* They are responses.
LEMMA OutcomesTyped ==
  ASSUME NEW S, NEW R, \A x \in S : Outcome(x) \in Seq(R), NEW s \in Seq(S)
  PROVE  Outcomes(s) \in Seq(R)
<1>1. PICK f : Collects(f, s, Len(s)) /\ Outcomes(s) = f[Len(s)]
  BY OutcomesCollected
<1>2. \A i \in 0 .. Len(s) : f[i] \in Seq(R)
  BY <1>1, CollectsTyped
<1> QED BY <1>1, <1>2

\* Nothing comes of nothing.
LEMMA OutcomesEmpty == Outcomes(<<>>) = <<>>
<1>1. <<>> \in Seq({}) /\ Len(<<>>) = 0
  OBVIOUS
<1>2. PICK f : Collects(f, <<>>, 0) /\ Outcomes(<<>>) = f[0]
  BY <1>1, OutcomesCollected
<1> QED BY <1>2 DEF Collects

\* The outcome of the last item comes last.
LEMMA OutcomesAppend ==
  ASSUME NEW S, NEW s \in Seq(S), NEW x \in S
  PROVE  Outcomes(Append(s, x)) = Outcomes(s) \o Outcome(x)
<1> DEFINE t == Append(s, x)
<1>1. t \in Seq(S) /\ Len(s) \in Nat /\ Len(t) = Len(s) + 1 /\ t[Len(t)] = x
      /\ \A i \in 1 .. Len(s) : s[i] = t[i]
  OBVIOUS
<1> HIDE DEF t
<1>2. PICK f : Collects(f, s, Len(s)) /\ Outcomes(s) = f[Len(s)]
  BY OutcomesCollected
<1>3. PICK g : Collects(g, t, Len(t)) /\ Outcomes(t) = g[Len(t)]
  BY <1>1, OutcomesCollected
<1>4. f[Len(s)] = g[Len(s)]
  <2>1. \A i \in 0 .. Len(s) : f[i] = g[i]
    BY <1>1, <1>2, <1>3, CollectsSame
  <2> QED BY <1>1, <2>1
<1>5. g[Len(t)] = g[Len(t) - 1] \o Outcome(t[Len(t)])
  BY <1>1, <1>3 DEF Collects
<1>6. Len(t) - 1 = Len(s)
  BY <1>1
<1>7. Outcomes(t) = Outcomes(s) \o Outcome(x)
  BY <1>1, <1>2, <1>3, <1>4, <1>5, <1>6
<1> QED BY <1>7 DEF t

\* The outcome of the first item comes first: of each shorter part in turn.
LEMMA OutcomesShift ==
  ASSUME NEW S, NEW R, \A x \in S : Outcome(x) \in Seq(R),
         NEW s \in Seq(S), NEW t \in Seq(S), Len(s) = Len(t) + 1,
         \A i \in 1 .. Len(t) : t[i] = s[i + 1]
  PROVE  Outcomes(s) = Outcome(s[1]) \o Outcomes(t)
<1>1. Len(t) \in Nat /\ 1 \in 1 .. Len(s)
  OBVIOUS
<1>2. PICK o : o = Outcome(s[1])
  OBVIOUS
<1>3. o \in Seq(R)
  BY <1>1, <1>2
<1>4. PICK f : Collects(f, s, Len(s)) /\ Outcomes(s) = f[Len(s)]
  BY OutcomesCollected
<1>5. PICK h : Collects(h, t, Len(t)) /\ Outcomes(t) = h[Len(t)]
  BY OutcomesCollected
<1>6. \A i \in 0 .. Len(t) : h[i] \in Seq(R)
  BY <1>5, CollectsTyped
<1>7. f[0] = <<>> /\ \A i \in 1 .. Len(s) : f[i] = f[i - 1] \o Outcome(s[i])
  BY <1>4, CollectsStep
<1>8. h[0] = <<>> /\ \A i \in 1 .. Len(t) : h[i] = h[i - 1] \o Outcome(t[i])
  BY <1>5, CollectsStep
<1>9. \A i \in 0 .. Len(t) : f[i + 1] = o \o h[i]
  <2> DEFINE T == {i \in 0 .. Len(t) : f[i + 1] # o \o h[i]}
  <2> SUFFICES ASSUME T # {} PROVE FALSE
    OBVIOUS
  <2>1. PICK i \in T : \A y \in T : i <= y
    <3>1. T \in SUBSET Nat
      BY <1>1
    <3> QED BY <3>1, LeastNat
  <2>2. CASE i = 0
    <3>1. f[1] = f[0] \o Outcome(s[1])
      <4>1. 1 - 1 = 0
        OBVIOUS
      <4> QED BY <1>1, <1>7, <4>1
    <3>2. f[1] = <<>> \o o /\ <<>> \o o = o /\ o \o <<>> = o
      BY <1>2, <1>3, <1>7, <3>1
    <3>3. f[0 + 1] = o \o h[0]
      BY <1>8, <3>2
    <3> QED BY <2>1, <2>2, <3>3
  <2>3. CASE i # 0
    <3>1. i - 1 \in 0 .. Len(t) /\ i \in 1 .. Len(t) /\ i + 1 \in 1 .. Len(s) /\ i - 1 < i
      BY <1>1, <2>1, <2>3
    <3>2. i - 1 \notin T
      <4>1. i - 1 \in T => i <= i - 1
        BY <2>1
      <4>2. ~(i <= i - 1)
        BY <3>1
      <4> QED BY <4>1, <4>2
    <3>3. f[i] = o \o h[i - 1]
      <4>1. (i - 1) + 1 = i
        BY <3>1
      <4> QED BY <3>1, <3>2, <4>1
    <3>4. f[i + 1] = f[i] \o Outcome(s[i + 1])
      <4>1. f[i + 1] = f[(i + 1) - 1] \o Outcome(s[i + 1])
        BY <1>7, <3>1
      <4>2. (i + 1) - 1 = i
        BY <3>1
      <4> QED BY <4>1, <4>2
    <3>5. h[i] = h[i - 1] \o Outcome(s[i + 1])
      BY <1>8, <3>1
    <3>6. h[i - 1] \in Seq(R) /\ Outcome(s[i + 1]) \in Seq(R)
      <4>1. s[i + 1] \in S
        BY <3>1
      <4> QED BY <1>6, <3>1, <4>1
    <3> HIDE DEF T
    <3>7. ASSUME NEW a \in Seq(R), NEW b \in Seq(R)
          PROVE  (o \o a) \o b = o \o (a \o b)
      BY SMTT(30), <1>3
    <3>8. (o \o h[i - 1]) \o Outcome(s[i + 1]) = o \o (h[i - 1] \o Outcome(s[i + 1]))
      BY <3>6, <3>7
    <3>9. i \in 0 .. Len(t) /\ f[i + 1] = o \o h[i]
      BY <3>1, <3>3, <3>4, <3>5, <3>8
    <3> QED BY <2>1, <3>9 DEF T
  <2> QED BY <2>2, <2>3
<1>10. f[Len(t) + 1] = o \o h[Len(t)]
  <2>1. Len(t) \in 0 .. Len(t)
    BY <1>1
  <2> QED BY <1>9, <2>1
<1> QED BY <1>2, <1>4, <1>5, <1>10

\* The outcome of the first item comes first.
LEMMA OutcomesTail ==
  ASSUME NEW S, NEW R, \A x \in S : Outcome(x) \in Seq(R), NEW s \in Seq(S), s # <<>>
  PROVE  Outcomes(s) = Outcome(Head(s)) \o Outcomes(Tail(s))
<1> DEFINE t == Tail(s)
<1>1. t \in Seq(S) /\ Len(s) = Len(t) + 1 /\ \A i \in 1 .. Len(t) : t[i] = s[i + 1]
  OBVIOUS
<1>2. Head(s) = s[1]
  OBVIOUS
<1> HIDE DEF t
<1>3. Outcomes(s) = Outcome(s[1]) \o Outcomes(t)
  BY <1>1, OutcomesShift
<1> QED BY <1>2, <1>3 DEF t

Reply == [id : Ops \cup Sources \cup {"G"}, err : BOOLEAN]

\* One sequence after another, and what the host waits for from the oldest to
\* the newest.
Cat(s, t) == s \o t

Line(a, b, c, d, e) == Cat(Cat(Cat(Cat(a, b), c), d), e)

LEMMA Along ==
  ASSUME NEW R, NEW s \in Seq(R), NEW t \in Seq(R)
  PROVE  /\ Cat(s, t) \in Seq(R) /\ Cat(<<>>, s) = s /\ Cat(s, <<>>) = s
         /\ \A u \in Seq(R) : Cat(Cat(s, t), u) = Cat(s, Cat(t, u))
BY DEF Cat

\* A response that moves on keeps its place: the head of the stream in, into the
\* slot, out of it, and on the way out.
LEMMA MovesIn ==
  ASSUME NEW R, NEW a \in Seq(R), NEW b \in Seq(R), NEW e \in Seq(R), NEW x \in Seq(R)
  PROVE  /\ Line(a, b, <<>>, <<>>, Cat(x, e)) = Line(a, b, <<>>, x, e)
         /\ Line(a, b, <<>>, x, e) = Line(a, b, x, <<>>, e)
<1>1. Cat(a, b) \in Seq(R) /\ Cat(Cat(a, b), x) \in Seq(R)
  BY Along
<1>2. Cat(Cat(a, b), <<>>) = Cat(a, b) /\ Cat(Cat(Cat(a, b), x), <<>>) = Cat(Cat(a, b), x)
  BY <1>1, Along
<1>3. Cat(Cat(a, b), Cat(x, e)) = Cat(Cat(Cat(a, b), x), e)
  BY <1>1, Along
<1> QED BY <1>2, <1>3 DEF Line

LEMMA MovesOut ==
  ASSUME NEW R, NEW a \in Seq(R), NEW d \in Seq(R), NEW e \in Seq(R), NEW x \in Seq(R)
  PROVE  Line(a, <<>>, x, d, e) = Line(a, x, <<>>, d, e)
<1>1. Cat(a, x) \in Seq(R)
  BY Along
<1>2. Cat(a, <<>>) = a /\ Cat(Cat(a, x), <<>>) = Cat(a, x)
  BY <1>1, Along
<1> QED BY <1>2 DEF Line

LEMMA MovesOn ==
  ASSUME NEW R, NEW a \in Seq(R), NEW c, NEW d, NEW e, NEW x \in Seq(R)
  PROVE  Line(a, x, c, d, e) = Line(Cat(a, x), <<>>, c, d, e)
<1>1. Cat(a, x) \in Seq(R)
  BY Along
<1>2. Cat(Cat(a, x), <<>>) = Cat(a, x)
  BY <1>1, Along
<1> QED BY <1>2 DEF Line

\* The oldest one and the newest one.
LEMMA MovesEnds ==
  ASSUME NEW R, NEW a \in Seq(R), NEW b \in Seq(R), NEW c \in Seq(R), NEW d \in Seq(R),
         NEW e \in Seq(R), NEW x \in Seq(R)
  PROVE  /\ Line(Cat(x, a), b, c, d, e) = Cat(x, Line(a, b, c, d, e))
         /\ Line(a, b, c, d, Cat(e, x)) = Cat(Line(a, b, c, d, e), x)
         /\ Line(a, b, c, d, e) \in Seq(R)
<1>1. \A s, t \in Seq(R) : Cat(s, t) \in Seq(R)
  BY Along
<1>2. \A s, t, u \in Seq(R) : Cat(Cat(s, t), u) = Cat(s, Cat(t, u))
  BY Along
<1>3. Cat(a, b) \in Seq(R) /\ Cat(Cat(a, b), c) \in Seq(R)
      /\ Cat(Cat(Cat(a, b), c), d) \in Seq(R) /\ Line(a, b, c, d, e) \in Seq(R)
  BY <1>1 DEF Line
<1>4. Line(Cat(x, a), b, c, d, e) = Cat(x, Line(a, b, c, d, e))
  BY <1>2, <1>3 DEF Line
<1>5. Line(a, b, c, d, Cat(e, x)) = Cat(Line(a, b, c, d, e), x)
  BY <1>2, <1>3 DEF Line
<1> QED BY <1>3, <1>4, <1>5

\* A response that was pending is out before the next command is taken, what a
\* flush does at its end was decided when it began, and only a write that is
\* allowed is transferred.
Replies ==
  /\ respPending => rxState = "IDLE"
  /\ pktPending => pkt.kind = "PKT"
  /\ rxState = "FLUSH" => /\ flush = "response" => rxCmd.op = "M" /\ rxCmd.bad
                          /\ flush = "packet" => rxCmd.op = "U"
  /\ rxDma /\ rxState = "DATA" /\ rxCmd.op = "M" => ~rxCmd.bad
  /\ todo \in Seq({Args, Data})
  /\ lastReset => ~respPending
  /\ host # "run" => owed = <<>>

Ordered ==
  host # "reset" => owed = Line(Outcomes(txq), OnItsWay, InTheSlot, InTheMaking, Outcomes(rxq))

\* The outcomes of the items that travel.
LEMMA Outcome1 ==
  /\ Outcome(Data) = <<>> /\ Outcome(Args) = <<>>
  /\ \A c : Outcome(Cmd(c)) = Expected(c)
  /\ \A x : x.t \in {"args", "data"} => Outcome(x) = <<>>
  /\ \A x : x.t = "cmd" => Outcome(x) = Expected(x.c)
  /\ \A x : x.t = "hdr" /\ x.kind = "PKT" => Outcome(x) = <<>>
  /\ \A x : x.t = "hdr" /\ x.kind # "PKT" => Outcome(x) = <<[id |-> x.id, err |-> (x.kind = "ERR")]>>
BY DEF Outcome, Data, Args, Cmd

\* A reply is no part of a command.
LEMMA OutcomeTyped ==
  /\ \A c \in CommandType : Expected(c) \in Seq(Reply)
  /\ \A x \in ItemType : Outcome(x) \in Seq(Reply)
  /\ \A x \in TxItem : Outcome(x) \in Seq(Reply)
<1>1. \A r \in Reply : <<r>> \in Seq(Reply)
  OBVIOUS
<1>2. <<>> \in Seq(Reply)
  OBVIOUS
<1>3. ASSUME NEW c \in CommandType PROVE Expected(c) \in Seq(Reply)
  <2>1. [id |-> c.op, err |-> c.bad] \in Reply
    BY DEF Reply, CommandType
  <2> QED BY <1>1, <1>2, <2>1 DEF Expected
<1>4. ASSUME NEW x \in ItemType PROVE Outcome(x) \in Seq(Reply)
  <2>1. CASE x.t = "cmd"
    <3>1. x.c \in CommandType
      BY <2>1, CommandsAssumption DEF ItemType
    <3> QED BY <1>3, <2>1, <3>1, Outcome1
  <2>2. CASE x.t \in {"args", "data"}
    <3>1. Outcome(x) = <<>>
      BY <2>2 DEF Outcome
    <3> QED BY <1>2, <3>1
  <2> QED BY <2>1, <2>2 DEF ItemType
<1>5. ASSUME NEW x \in TxItem PROVE Outcome(x) \in Seq(Reply)
  <2>1. CASE x.t = "data"
    <3>1. Outcome(x) = <<>>
      BY <2>1 DEF Outcome
    <3> QED BY <1>2, <3>1
  <2>2. CASE x.t = "hdr" /\ x.kind = "PKT"
    BY <1>2, <2>2, Outcome1
  <2>3. CASE x.t = "hdr" /\ x.kind # "PKT"
    <3> DEFINE e == (x.kind = "ERR")
    <3>1. e \in BOOLEAN /\ x.id \in Ops \cup Sources \cup {"G"}
      BY <2>3 DEF TxItem
    <3> HIDE DEF e
    <3>2. [id |-> x.id, err |-> e] \in Reply
      BY <3>1 DEF Reply
    <3>3. <<[id |-> x.id, err |-> e]>> \in Seq(Reply)
      BY <1>1, <3>2
    <3> QED BY <2>3, <3>3, Outcome1 DEF e
  <2> QED BY <2>1, <2>2, <2>3 DEF TxItem
<1> QED BY <1>3, <1>4, <1>5

\* Each part of the line is a sequence of replies.
LEMMA PartsTyped ==
  ASSUME Inv, FrameType
  PROVE  /\ Outcomes(txq) \in Seq(Reply) /\ Outcomes(rxq) \in Seq(Reply)
         /\ OnItsWay \in Seq(Reply) /\ InTheSlot \in Seq(Reply) /\ InTheMaking \in Seq(Reply)
         /\ Expected(rxCmd) \in Seq(Reply)
         /\ Outcome(Header(tx)) \in Seq(Reply) /\ Outcome(Header(resp)) \in Seq(Reply)
<1>1. Outcomes(txq) \in Seq(Reply)
  BY OutcomeTyped, OutcomesTyped DEF FrameType
<1>2. Outcomes(rxq) \in Seq(Reply)
  BY OutcomeTyped, OutcomesTyped DEF Inv, TypeOK, LinkType
<1>3. Header(tx) \in TxItem /\ Header(resp) \in TxItem
  BY DEF Inv, TypeOK, TxType, MessageType, TxItem, Header
<1>4. Expected(rxCmd) \in Seq(Reply)
  BY OutcomeTyped DEF Inv, TypeOK, RxType
<1>5. <<>> \in Seq(Reply)
  OBVIOUS
<1> QED BY <1>1, <1>2, <1>3, <1>4, <1>5, OutcomeTyped DEF OnItsWay, InTheSlot, InTheMaking

\* A step that leaves every part of the line as it is.
LEMMA OrderStill ==
  ASSUME Ordered, UNCHANGED <<host, owed, rxq, txq>>,
         OnItsWay' = OnItsWay, InTheSlot' = InTheSlot, InTheMaking' = InTheMaking
  PROVE  Ordered'
BY DEF Ordered

\* The next item of the stream to the controller is taken, and calls for
\* nothing.
LEMMA OrderTakes ==
  ASSUME Inv, FrameType, Ordered, rxq # <<>>, Head(rxq).t \in {"args", "data"},
         rxq' = Tail(rxq), UNCHANGED <<host, owed, txq>>,
         OnItsWay' = OnItsWay, InTheSlot' = InTheSlot, InTheMaking' = InTheMaking
  PROVE  Ordered'
<1>1. rxq \in Seq(ItemType) /\ Tail(rxq) \in Seq(ItemType) /\ Head(rxq) \in ItemType
  BY DEF Inv, TypeOK, LinkType
<1>2. Outcomes(rxq) = Outcome(Head(rxq)) \o Outcomes(Tail(rxq))
  BY <1>1, OutcomesTail, OutcomeTyped
<1>3. Outcome(Head(rxq)) = <<>>
  BY Outcome1
<1>4. Outcomes(Tail(rxq)) \in Seq(Reply)
  BY <1>1, OutcomesTyped, OutcomeTyped
<1>5. Outcomes(rxq) = Outcomes(Tail(rxq))
  BY <1>2, <1>3, <1>4
<1>6. Outcomes(rxq') = Outcomes(rxq)
  BY <1>5
<1> QED BY <1>6 DEF Ordered

\* usb_rx_process: a command becomes a response, and a debug write none.
LEMMA RxOrdered ==
  ASSUME Inv, Framed, Replies, Ordered, RxProcess
  PROVE  Ordered'
<1> USE DEF hostVars, rxVars, respVars, pktVars, txVars, readVars, dmaVars
<1>1. UNCHANGED <<host, owed, txq, txState, tx>>
  BY DEF RxProcess, RxNothing, RxWait, RxIdle, RxArgs, RxAnswer, RxWriteReject,
         RxWriteStart, RxWriteDone, RxDebugEnd, RxDebugStart, RxDebugDone,
         RxDebugTimeout, RxFlushStart, RxFlushDone, RxFlushReply, RxFlushPacket
<1>2. OnItsWay' = OnItsWay
  BY <1>1 DEF OnItsWay, Header
<1>3. FrameType
  BY DEF Framed
<1> DEFINE a == Outcomes(txq)
           b == OnItsWay
           e == Outcomes(rxq)
<1>4. /\ a \in Seq(Reply) /\ b \in Seq(Reply) /\ e \in Seq(Reply)
      /\ Expected(rxCmd) \in Seq(Reply) /\ <<>> \in Seq(Reply)
  BY <1>3, PartsTyped
<1>5. CASE RxNothing \/ RxWriteReject \/ RxWriteStart \/ RxDebugStart \/ RxDebugDone
           \/ RxDebugTimeout \/ RxFlushStart \/ RxFlushDone
  <2>1. UNCHANGED <<rxq, respPending, resp, rxCmd>> /\ (rxState # "IDLE")' = (rxState # "IDLE")
    BY <1>5 DEF RxNothing, RxWait, RxWriteReject, RxWriteStart, RxDebugStart, RxDebugDone,
                RxDebugTimeout, RxFlushStart, RxFlushDone, InRx
  <2>2. InTheSlot' = InTheSlot /\ InTheMaking' = InTheMaking
    BY <2>1 DEF InTheSlot, InTheMaking, Header, Expected
  <2> QED BY <1>1, <1>2, <2>1, <2>2, OrderStill
<1>6. CASE RxIdle
  <2>1. /\ rxq # <<>> /\ Head(rxq).t = "cmd" /\ rxq' = Tail(rxq) /\ ~respPending /\ ~respPending'
        /\ rxState = "IDLE" /\ rxState' = "ARGS" /\ rxCmd' = Head(rxq).c
    BY <1>6 DEF RxIdle, InRx, CommandComes
  <2>2. InTheSlot = <<>> /\ InTheSlot' = <<>> /\ InTheMaking = <<>>
    BY <2>1 DEF InTheSlot, InTheMaking
  <2>3. InTheMaking' = Outcome(Head(rxq))
    BY <2>1, Outcome1 DEF InTheMaking, Expected
  <2>4. rxq \in Seq(ItemType) /\ Tail(rxq) \in Seq(ItemType) /\ Head(rxq) \in ItemType
    BY <2>1 DEF Inv, TypeOK, LinkType
  <2>5. Outcomes(rxq) = Cat(Outcome(Head(rxq)), Outcomes(Tail(rxq)))
    BY <2>1, <2>4, OutcomesTail, OutcomeTyped DEF Cat
  <2>6. Outcomes(Tail(rxq)) \in Seq(Reply) /\ Outcome(Head(rxq)) \in Seq(Reply)
    BY <2>4, OutcomesTyped, OutcomeTyped
  <2>7. Line(a, b, <<>>, <<>>, Outcomes(rxq)) = Line(a, b, <<>>, Outcome(Head(rxq)), Outcomes(Tail(rxq)))
    <3>1. PICK x \in Seq(Reply), t \in Seq(Reply) :
            x = Outcome(Head(rxq)) /\ t = Outcomes(Tail(rxq))
      BY <2>6
    <3> HIDE DEF a, b
    <3>2. Line(a, b, <<>>, <<>>, Cat(x, t)) = Line(a, b, <<>>, x, t)
      BY <1>4, MovesIn
    <3> QED BY <2>5, <3>1, <3>2
  <2>8. Outcomes(rxq') = Outcomes(Tail(rxq))
    BY <2>1
  <2> QED BY <1>1, <1>2, <2>2, <2>3, <2>7, <2>8 DEF Ordered
<1>7. CASE RxArgs
  <2>1. /\ rxq # <<>> /\ rxq' = Tail(rxq) /\ rxState = "ARGS" /\ rxState' = "DATA"
        /\ UNCHANGED <<rxCmd, respPending, resp>>
    BY <1>7 DEF RxArgs, InRx
  <2>2. InTheSlot' = InTheSlot /\ InTheMaking' = InTheMaking
    BY <2>1 DEF InTheSlot, InTheMaking, Header, Expected
  <2>3. Fits(RxDue, Head(rxq)) /\ RxDue < 0
    BY <2>1, RxFits, RxDueBounds DEF Framed
  <2>4. Head(rxq).t = "args"
    BY <2>3 DEF Fits
  <2> QED BY <1>1, <1>2, <1>3, <2>1, <2>2, <2>4, OrderTakes
<1>8. CASE RxAnswer \/ RxWriteDone \/ RxFlushReply
  <2>1. /\ rxState # "IDLE" /\ rxState' = "IDLE" /\ rxq' = rxq /\ respPending'
        /\ rxCmd.op # "U"
    BY <1>8 DEF RxAnswer, RxWriteDone, RxFlushReply, InRx, Respond, Replies
  <2>2. resp'.id = rxCmd.op /\ resp'.kind # "PKT" /\ (resp'.kind = "ERR" <=> rxCmd.bad)
    BY <1>8 DEF RxAnswer, RxWriteDone, RxFlushReply, InRx, Respond, Replies, Message
  <2>3. InTheSlot = <<>> /\ InTheMaking = Expected(rxCmd) /\ InTheMaking' = <<>>
    BY <2>1 DEF InTheSlot, InTheMaking, Replies
  <2>4. InTheSlot' = Expected(rxCmd)
    <3>1. (Header(resp)').t = "hdr" /\ (Header(resp)').kind = resp'.kind /\ (Header(resp)').id = resp'.id
      BY DEF Header
    <3>2. Outcome(Header(resp)') = <<[id |-> resp'.id, err |-> (resp'.kind = "ERR")]>>
      BY <2>2, <3>1, Outcome1
    <3>3. (resp'.kind = "ERR") = rxCmd.bad
      BY <2>2 DEF Inv, TypeOK, RxType, CommandType
    <3>4. Outcome(Header(resp)') = <<[id |-> rxCmd.op, err |-> rxCmd.bad]>>
      BY <2>2, <3>2, <3>3
    <3> QED BY <2>1, <3>4 DEF InTheSlot, Expected
  <2>5. Line(a, b, <<>>, Expected(rxCmd), e) = Line(a, b, Expected(rxCmd), <<>>, e)
    BY <1>4, MovesIn
  <2>6. Outcomes(rxq') = Outcomes(rxq)
    BY <2>1
  <2> QED BY <1>1, <1>2, <2>3, <2>4, <2>5, <2>6 DEF Ordered
<1>9. CASE RxDebugEnd \/ RxFlushPacket
  <2>1. /\ rxState # "IDLE" /\ rxState' = "IDLE" /\ UNCHANGED <<rxq, respPending, resp>>
        /\ rxCmd.op = "U"
    BY <1>9 DEF RxDebugEnd, RxFlushPacket, InRx, Replies
  <2>2. InTheSlot' = InTheSlot /\ InTheMaking' = InTheMaking
    BY <2>1 DEF InTheSlot, InTheMaking, Header, Expected
  <2> QED BY <1>1, <1>2, <2>1, <2>2, OrderStill
<1> QED BY <1>5, <1>6, <1>7, <1>8, <1>9 DEF RxProcess

\* usb_tx_process: a response moves to the stream, and a packet is none.
LEMMA TxOrdered ==
  ASSUME Inv, Framed, Replies, Ordered, TxProcess
  PROVE  Ordered'
<1> USE DEF hostVars, rxVars, respVars, pktVars, txVars, readVars, dmaVars
<1>1. UNCHANGED <<host, owed, rxq, rxState, rxCmd>>
  BY DEF TxProcess, TxNothing, TxResponse, TxPacket, TxToken, TxDmaStart, TxDmaDone, TxFlush
<1>2. InTheMaking' = InTheMaking /\ Outcomes(rxq') = Outcomes(rxq)
  BY <1>1 DEF InTheMaking, Expected
<1>3. FrameType
  BY DEF Framed
<1> DEFINE a == Outcomes(txq)
           c == InTheSlot
           d == InTheMaking
           e == Outcomes(rxq)
<1>4. /\ a \in Seq(Reply) /\ c \in Seq(Reply) /\ d \in Seq(Reply) /\ e \in Seq(Reply)
      /\ Outcome(Header(tx)) \in Seq(Reply) /\ Outcome(Header(resp)) \in Seq(Reply)
      /\ <<>> \in Seq(Reply)
  BY <1>3, PartsTyped
<1>5. CASE TxNothing \/ TxDmaStart \/ TxDmaDone \/ TxFlush
  <2>1. UNCHANGED <<txq, respPending, resp>> /\ ((OnItsWay = <<>> /\ OnItsWay' = <<>>) \/ UNCHANGED <<txState, tx>>)
    BY <1>5 DEF TxNothing, TxDmaStart, TxDmaDone, TxFlush, InTx, OnItsWay
  <2>2. OnItsWay' = OnItsWay /\ InTheSlot' = InTheSlot
    BY <2>1 DEF OnItsWay, InTheSlot, Header
  <2> QED BY <1>1, <1>2, <2>1, <2>2, OrderStill
<1>6. CASE TxResponse
  <2>1. txState = "IDLE" /\ txState' = "TOKEN" /\ respPending /\ ~respPending' /\ tx' = resp /\ txq' = txq
    BY <1>6 DEF TxResponse, InTx
  <2>2. OnItsWay = <<>> /\ OnItsWay' = Outcome(Header(resp)) /\ InTheSlot = Outcome(Header(resp))
        /\ InTheSlot' = <<>>
    BY <2>1 DEF OnItsWay, InTheSlot, Header
  <2>3. Line(a, <<>>, Outcome(Header(resp)), d, e) = Line(a, Outcome(Header(resp)), <<>>, d, e)
    <3>1. PICK x \in Seq(Reply) : x = Outcome(Header(resp))
      BY <1>4
    <3> HIDE DEF a, d, e
    <3>2. Line(a, <<>>, x, d, e) = Line(a, x, <<>>, d, e)
      BY <1>4, MovesOut
    <3> QED BY <3>1, <3>2
  <2>4. Outcomes(txq') = Outcomes(txq)
    BY <2>1
  <2> QED BY <1>1, <1>2, <2>2, <2>3, <2>4 DEF Ordered
<1>7. CASE TxPacket
  <2>1. txState = "IDLE" /\ txState' = "TOKEN" /\ UNCHANGED <<respPending, resp, txq>> /\ tx'.kind = "PKT"
    BY <1>7 DEF TxPacket, InTx, Replies
  <2>2. Outcome(Header(tx)') = <<>>
    <3>1. (Header(tx)').t = "hdr" /\ (Header(tx)').kind = "PKT"
      BY <2>1 DEF Header
    <3> QED BY <3>1, Outcome1
  <2>3. OnItsWay' = OnItsWay /\ InTheSlot' = InTheSlot
    BY <2>1, <2>2 DEF OnItsWay, InTheSlot, Header
  <2> QED BY <1>1, <1>2, <2>1, <2>3, OrderStill
<1>8. CASE TxToken
  <2>1. txState = "TOKEN" /\ txState' = "DMA" /\ UNCHANGED <<respPending, resp>> /\ txq' = Append(txq, Header(tx))
    BY <1>8 DEF TxToken, InTx
  <2>2. OnItsWay = Outcome(Header(tx)) /\ OnItsWay' = <<>> /\ InTheSlot' = InTheSlot
    BY <2>1 DEF OnItsWay, InTheSlot, Header
  <2>3. txq \in Seq(TxItem) /\ Header(tx) \in TxItem
    BY <1>3 DEF FrameType, Inv, TypeOK, TxType, MessageType, TxItem, Header
  <2>4. Outcomes(txq') = Cat(Outcomes(txq), Outcome(Header(tx)))
    BY <2>1, <2>3, OutcomesAppend DEF Cat
  <2>5. Line(a, Outcome(Header(tx)), c, d, e) = Line(Cat(a, Outcome(Header(tx))), <<>>, c, d, e)
    <3>1. PICK x \in Seq(Reply) : x = Outcome(Header(tx))
      BY <1>4
    <3> HIDE DEF a, c, d, e
    <3>2. Line(a, x, c, d, e) = Line(Cat(a, x), <<>>, c, d, e)
      BY <1>4, MovesOn
    <3> QED BY <3>1, <3>2
  <2> QED BY <1>1, <1>2, <2>2, <2>4, <2>5 DEF Ordered
<1> QED BY <1>5, <1>6, <1>7, <1>8 DEF TxProcess

\* The rest of the controller, the DMA engine and the link.
LEMMA LoopOrdered ==
  ASSUME Inv, Framed, Replies, Ordered,
         \/ PollResetOn \/ PollInactive \/ PollActive
         \/ \E s \in Sources, len \in PacketLengths : Enqueue(s, len)
         \/ \E len \in ReadLengths : PrepareRead(len)
         \/ NextTurn \/ DmaRead \/ DmaWrite \/ TimerElapses \/ Suspend \/ UNCHANGED vars
  PROVE  Ordered'
<1> USE DEF hostVars, rxVars, respVars, pktVars, txVars, readVars, dmaVars, ctrlVars
<1>1. CASE PollResetOn
  BY <1>1 DEF PollResetOn, ResetRequested, Ordered
<1>2. CASE PollInactive
  <2>1. UNCHANGED <<host, owed, rxq, txq, rxState, rxCmd, respPending, resp, txState>>
    BY <1>2 DEF PollInactive
  <2>2. Header(tx)' = Header(tx)
    BY <1>2 DEF PollInactive, Header, Inv, TypeOK, TxType, MessageType
  <2>3. OnItsWay' = OnItsWay /\ InTheSlot' = InTheSlot /\ InTheMaking' = InTheMaking
    BY <2>1, <2>2 DEF OnItsWay, InTheSlot, InTheMaking, Header, Expected
  <2> QED BY <2>1, <2>3, OrderStill
<1>3. CASE \/ PollActive \/ NextTurn \/ TimerElapses \/ Suspend \/ UNCHANGED vars
           \/ \E s \in Sources, len \in PacketLengths : Enqueue(s, len)
           \/ \E len \in ReadLengths : PrepareRead(len)
  <2>1. UNCHANGED <<host, owed, rxq, txq, rxState, rxCmd, respPending, resp, txState, tx>>
    BY <1>3 DEF PollActive, NextTurn, TimerElapses, Suspend, Enqueue, PrepareRead, vars
  <2>2. OnItsWay' = OnItsWay /\ InTheSlot' = InTheSlot /\ InTheMaking' = InTheMaking
    BY <2>1 DEF OnItsWay, InTheSlot, InTheMaking, Header, Expected
  <2> QED BY <2>1, <2>2, OrderStill
<1>4. ASSUME DmaRead \/ DmaWrite
      PROVE  /\ UNCHANGED <<host, owed>>
             /\ OnItsWay' = OnItsWay /\ InTheSlot' = InTheSlot /\ InTheMaking' = InTheMaking
  <2>1. UNCHANGED <<host, owed, rxState, rxCmd, respPending, resp, txState, tx>>
    BY <1>4 DEF DmaRead, DmaWrite
  <2> QED BY <2>1 DEF OnItsWay, InTheSlot, InTheMaking, Header, Expected
<1>5. CASE DmaRead
  <2>1. rxq # <<>> /\ rxq' = Tail(rxq) /\ dmaDir = "rx" /\ dmaLeft > 0 /\ txq' = txq
    BY <1>5 DEF DmaRead
  <2>2. Fits(RxDue, Head(rxq)) /\ RxDue > 0
    BY <2>1, RxFits, RxDueBounds DEF Framed
  <2>3. Head(rxq).t = "data"
    BY <2>2 DEF Fits
  <2> QED BY <1>4, <1>5, <2>1, <2>3, OrderTakes DEF Framed
<1>6. CASE DmaWrite
  <2>1. txq' = Append(txq, Data) /\ rxq' = rxq
    BY <1>6 DEF DmaWrite
  <2>2. txq \in Seq(TxItem) /\ Data \in TxItem
    BY DEF Framed, FrameType, Data, TxItem
  <2>3. Outcomes(txq') = Outcomes(txq) \o Outcome(Data)
    BY <2>1, <2>2, OutcomesAppend
  <2>4. Outcomes(txq) \in Seq(Reply)
    BY PartsTyped DEF Framed
  <2>5. Outcomes(txq') = Outcomes(txq) /\ Outcomes(rxq') = Outcomes(rxq)
    BY <2>1, <2>3, <2>4, Outcome1
  <2> QED BY <1>4, <1>6, <2>5 DEF Ordered
<1> QED BY <1>1, <1>2, <1>3, <1>5, <1>6

\* The host.
LEMMA HostOrdered ==
  ASSUME Inv, Framed, Replies, Ordered,
         (\E c \in Commands : HostCommand(c)) \/ HostSend \/ HostReceive \/ HostReset \/ HostRelease
  PROVE  Ordered'
<1> USE DEF hostVars, rxVars, respVars, pktVars, txVars, readVars, dmaVars, ctrlVars
<1>1. /\ UNCHANGED <<rxState, rxCmd, respPending, resp, txState, tx>>
      /\ OnItsWay' = OnItsWay /\ InTheSlot' = InTheSlot /\ InTheMaking' = InTheMaking
  <2>1. UNCHANGED <<rxState, rxCmd, respPending, resp, txState, tx>>
    BY DEF HostCommand, HostSend, HostReceive, HostReset, HostRelease
  <2> QED BY <2>1 DEF OnItsWay, InTheSlot, InTheMaking, Header, Expected
<1> DEFINE a == Outcomes(txq)
           b == OnItsWay
           c == InTheSlot
           d == InTheMaking
           e == Outcomes(rxq)
<1>2. /\ a \in Seq(Reply) /\ b \in Seq(Reply) /\ c \in Seq(Reply) /\ d \in Seq(Reply)
      /\ e \in Seq(Reply)
  BY PartsTyped DEF Framed
<1>3. ASSUME NEW k \in Commands, HostCommand(k) PROVE Ordered'
  <2>1. /\ host = "run" /\ UNCHANGED <<host, txq>> /\ rxq' = Append(rxq, Cmd(k))
        /\ owed' = Cat(owed, Expected(k))
    BY <1>3 DEF HostCommand, Connected, Cat
  <2>2. rxq \in Seq(ItemType) /\ Cmd(k) \in ItemType /\ k \in CommandType
    BY CommandsAssumption DEF Inv, TypeOK, LinkType, Cmd, ItemType
  <2>3. Outcomes(rxq') = Cat(Outcomes(rxq), Expected(k))
    BY <2>1, <2>2, OutcomesAppend, Outcome1 DEF Cat
  <2>4. PICK x \in Seq(Reply) : x = Expected(k)
    BY <2>2, OutcomeTyped
  <2>5. owed = Line(a, b, c, d, e)
    BY <2>1 DEF Ordered
  <2>6. Outcomes(txq') = a /\ Outcomes(rxq') = Cat(e, x) /\ owed' = Cat(Line(a, b, c, d, e), x)
    BY <2>1, <2>3, <2>4, <2>5
  <2> HIDE DEF a, b, c, d, e
  <2>7. Line(a, b, c, d, Cat(e, x)) = Cat(Line(a, b, c, d, e), x)
    BY <1>2, MovesEnds
  <2>8. owed' = Line(Outcomes(txq'), b, c, d, Outcomes(rxq'))
    BY <2>6, <2>7
  <2> QED BY <1>1, <2>8 DEF Ordered, b, c, d
<1>4. CASE HostSend
  <2>1. /\ host = "run" /\ UNCHANGED <<host, owed, txq>> /\ rxq' = Append(rxq, Head(todo))
        /\ todo # <<>>
    BY <1>4 DEF HostSend, Connected
  <2>2. Head(todo) \in {Args, Data} /\ rxq \in Seq(ItemType)
    BY <2>1 DEF Replies, Inv, TypeOK, LinkType
  <2>3. Outcome(Head(todo)) = <<>> /\ Head(todo) \in ItemType
    BY <2>2, Outcome1 DEF Args, Data, ItemType
  <2>4. Outcomes(rxq') = Outcomes(rxq) \o <<>>
    BY <2>1, <2>2, <2>3, OutcomesAppend
  <2>5. Outcomes(rxq') = Outcomes(rxq)
    BY <1>2, <2>4
  <2> QED BY <1>1, <2>1, <2>5 DEF Ordered
<1>5. CASE HostReceive
  <2>1. host = "run" /\ UNCHANGED <<host, rxq>> /\ txq # <<>> /\ txq' = Tail(txq)
    BY <1>5 DEF HostReceive, Connected
  <2>2. txq \in Seq(TxItem) /\ Head(txq) \in TxItem /\ Tail(txq) \in Seq(TxItem) /\ hostLeft \in Nat
    BY <2>1 DEF Framed, FrameType
  <2>3. Fits(hostLeft, Head(txq))
    BY <2>1, <2>2, ChainHead DEF Framed, TxFramed
  <2>4. Outcomes(txq) = Cat(Outcome(Head(txq)), Outcomes(Tail(txq)))
    BY <2>1, <2>2, OutcomesTail, OutcomeTyped DEF Cat
  <2>5. PICK x \in Seq(Reply), t \in Seq(Reply) :
          x = Outcome(Head(txq)) /\ t = Outcomes(Tail(txq))
    BY <2>2, OutcomeTyped, OutcomesTyped
  <2>6. Outcomes(txq') = t /\ Outcomes(rxq') = e /\ a = Cat(x, t)
    BY <2>1, <2>4, <2>5
  <2>7. owed = Line(a, b, c, d, e)
    BY <2>1 DEF Ordered
  <2>8. CASE hostLeft > 0 \/ Head(txq).kind = "PKT"
    <3>1. owed' = owed
      BY <1>5, <2>8, <2>2 DEF HostReceive
    <3>2. Head(txq).t = "data" \/ (Head(txq).t = "hdr" /\ Head(txq).kind = "PKT")
      BY <2>2, <2>3, <2>8 DEF Fits, TxItem
    <3>3. x = <<>>
      BY <2>5, <3>2, Outcome1
    <3>4. a = t
      BY <2>6, <3>3, Along
    <3>5. Outcomes(txq') = a /\ Outcomes(rxq') = e
      BY <2>6, <3>4
    <3> QED BY <1>1, <2>1, <3>1, <3>5 DEF Ordered
  <2>9. CASE hostLeft = 0 /\ Head(txq).kind # "PKT"
    <3>1. owed' = Tail(owed)
      BY <1>5, <2>9 DEF HostReceive
    <3>2. Head(txq).t = "hdr"
      BY <2>2, <2>3, <2>9 DEF Fits, TxItem
    <3>3. PICK r \in Reply : x = <<r>>
      <4>1. x = <<[id |-> Head(txq).id, err |-> (Head(txq).kind = "ERR")]>>
        BY <2>5, <2>9, <3>2, Outcome1
      <4>2. Len(x) = 1 /\ x[1] \in Reply /\ x = <<x[1]>>
        BY <4>1, <2>5
      <4> QED BY <4>2
    <3> HIDE DEF a, b, c, d, e
    <3>4. Line(Cat(x, t), b, c, d, e) = Cat(x, Line(t, b, c, d, e)) /\ Line(t, b, c, d, e) \in Seq(Reply)
      BY <1>2, MovesEnds
    <3>5. PICK rest \in Seq(Reply) : rest = Line(t, b, c, d, e)
      BY <3>4
    <3>6. owed = Cat(x, rest)
      BY <2>6, <2>7, <3>4, <3>5
    <3>7. Tail(owed) = rest
      BY <3>3, <3>6 DEF Cat
    <3>8. owed' = Line(Outcomes(txq'), b, c, d, Outcomes(rxq'))
      BY <2>6, <3>1, <3>5, <3>7
    <3> QED BY <1>1, <3>8 DEF Ordered, b, c, d
  <2> QED BY <2>2, <2>8, <2>9
<1>6. CASE HostReset
  BY <1>6 DEF HostReset, Ordered
<1>7. CASE HostRelease
  <2>1. UNCHANGED <<owed, rxq, txq>>
    BY <1>7 DEF HostRelease
  <2>2. CASE host # "reset"
    BY <1>1, <2>1, <2>2 DEF Ordered
  <2>3. CASE host = "reset"
    <3>1. owed = <<>> /\ txq = <<>> /\ rxq = <<>> /\ rxState = "IDLE" /\ txState = "IDLE" /\ ~respPending
      BY <1>7, <2>3 DEF HostRelease, Framed, Stopped, Replies
    <3>2. a = <<>> /\ e = <<>> /\ b = <<>> /\ c = <<>> /\ d = <<>>
      BY <3>1, OutcomesEmpty DEF OnItsWay, InTheSlot, InTheMaking
    <3>3. Line(<<>>, <<>>, <<>>, <<>>, <<>>) = <<>>
      <4>1. <<>> \in Seq(Reply)
        OBVIOUS
      <4>2. Cat(<<>>, <<>>) = <<>>
        BY <4>1, Along
      <4> QED BY <4>2 DEF Line
    <3>4. Outcomes(txq') = <<>> /\ Outcomes(rxq') = <<>> /\ owed' = <<>>
      BY <2>1, <3>1, <3>2
    <3> QED BY <1>1, <3>2, <3>3, <3>4 DEF Ordered
  <2> QED BY <2>2, <2>3
<1> QED BY <1>3, <1>4, <1>5, <1>6, <1>7

\* What Replies says of the machines is kept by every step.
LEMMA StaysReplies ==
  ASSUME Inv, Framed, Replies, [Next]_vars
  PROVE  Replies'
<1> USE DEF hostVars, rxVars, respVars, pktVars, txVars, readVars, dmaVars, ctrlVars
<1>1. CASE RxProcess
  <2>1. ~lastReset /\ UNCHANGED <<lastReset, host, owed, todo>>
    BY <1>1 DEF Framed, Stopped, RxProcess, RxNothing, RxWait, InRx, RxIdle, RxArgs, RxAnswer,
                RxWriteReject, RxWriteStart, RxWriteDone, RxDebugEnd, RxDebugStart,
                RxDebugDone, RxDebugTimeout, RxFlushStart, RxFlushDone, RxFlushReply,
                RxFlushPacket
  <2>2. /\ respPending' => rxState' = "IDLE"
        /\ pktPending' => pkt'.kind = "PKT"
    BY <1>1 DEF Replies, RxProcess, RxNothing, RxWait, InRx, RxIdle, RxArgs, RxAnswer,
                RxWriteReject, RxWriteStart, RxWriteDone, RxDebugEnd, RxDebugStart,
                RxDebugDone, RxDebugTimeout, RxFlushStart, RxFlushDone, RxFlushReply,
                RxFlushPacket, Respond, Message
  <2>3. rxState' = "FLUSH" => /\ flush' = "response" => rxCmd'.op = "M" /\ rxCmd'.bad
                              /\ flush' = "packet" => rxCmd'.op = "U"
    BY <1>1 DEF Replies, RxProcess, RxNothing, RxWait, InRx, RxIdle, RxArgs, RxAnswer,
                RxWriteReject, RxWriteStart, RxWriteDone, RxDebugEnd, RxDebugStart,
                RxDebugDone, RxDebugTimeout, RxFlushStart, RxFlushDone, RxFlushReply,
                RxFlushPacket, Respond
  <2>4. rxDma' /\ rxState' = "DATA" /\ rxCmd'.op = "M" => ~rxCmd'.bad
    BY <1>1 DEF Replies, Inv, Shape, RxProcess, RxNothing, RxWait, InRx, RxIdle, RxArgs, RxAnswer,
                RxWriteReject, RxWriteStart, RxWriteDone, RxDebugEnd, RxDebugStart,
                RxDebugDone, RxDebugTimeout, RxFlushStart, RxFlushDone, RxFlushReply,
                RxFlushPacket, Respond, StartRxDma
  <2> QED BY <2>1, <2>2, <2>3, <2>4 DEF Replies
<1>2. CASE TxProcess
  <2>1. UNCHANGED <<lastReset, host, owed, todo, rxState, rxCmd, rxDma, flush>>
    BY <1>2 DEF TxProcess, TxNothing, TxResponse, TxPacket, TxToken, TxDmaStart, TxDmaDone,
                TxFlush
  <2>2. (respPending' => respPending) /\ (pktPending' => pktPending /\ pkt' = pkt)
    BY <1>2 DEF TxProcess, TxNothing, TxResponse, TxPacket, TxToken, TxDmaStart, TxDmaDone,
                TxFlush
  <2> QED BY <2>1, <2>2 DEF Replies
<1>3. CASE PollResetOn
  BY <1>3 DEF PollResetOn, ResetState, ResetRequested, Replies
<1>4. CASE PollInactive \/ PollActive
  <2>1. UNCHANGED <<host, owed, todo, rxState, rxCmd, rxDma, flush, respPending>>
    BY <1>4 DEF PollInactive, PollActive
  <2>2. lastReset' => lastReset
    BY <1>4 DEF PollInactive, PollActive, ResetRequested
  <2>3. pktPending' => pktPending /\ pkt' = pkt
    BY <1>4 DEF PollInactive, PollActive, FlushPacket
  <2> QED BY <2>1, <2>2, <2>3 DEF Replies
<1>5. CASE \E s \in Sources, len \in PacketLengths : Enqueue(s, len)
  <2>1. UNCHANGED <<host, owed, todo, rxState, rxCmd, rxDma, flush, respPending, lastReset>>
        /\ pkt'.kind = "PKT"
    BY <1>5 DEF Enqueue, Message
  <2> QED BY <2>1 DEF Replies
<1>6. CASE \/ \E len \in ReadLengths : PrepareRead(len)
           \/ NextTurn \/ DmaRead \/ DmaWrite \/ TimerElapses \/ Suspend \/ UNCHANGED vars
  <2>1. UNCHANGED <<host, owed, todo, rxState, rxCmd, rxDma, flush, respPending, lastReset,
                    pktPending, pkt>>
    BY <1>6 DEF PrepareRead, NextTurn, DmaRead, DmaWrite, TimerElapses, Suspend, vars
  <2> QED BY <2>1 DEF Replies
<1>7. CASE (\E c \in Commands : HostCommand(c)) \/ HostSend \/ HostReceive \/ HostReset \/ HostRelease
  <2>1. UNCHANGED <<rxState, rxCmd, rxDma, flush, respPending, lastReset, pktPending, pkt>>
    BY <1>7 DEF HostCommand, HostSend, HostReceive, HostReset, HostRelease
  <2>2. host' # "run" => owed' = <<>>
    BY <1>7 DEF HostCommand, HostSend, HostReceive, HostReset, HostRelease, Connected, Replies
  <2>3. todo' \in Seq({Args, Data})
    <3>1. ASSUME NEW c \in Commands, HostCommand(c) PROVE todo' \in Seq({Args, Data})
      <4> DEFINE p == IF c.op \in {"M", "U"} THEN [i \in 1..c.len |-> Data] ELSE <<>>
      <4>1. c.len \in Nat
        BY CommandsAssumption DEF CommandType
      <4>2. p \in Seq({Args, Data})
        BY <4>1
      <4>3. <<Args>> \in Seq({Args, Data})
        OBVIOUS
      <4>4. todo' = <<Args>> \o p
        BY <3>1 DEF HostCommand
      <4> HIDE DEF p
      <4> QED BY <4>2, <4>3, <4>4
    <3>2. CASE HostSend
      BY <3>2 DEF HostSend, Replies
    <3>3. CASE HostReceive \/ HostRelease
      BY <3>3 DEF HostReceive, HostRelease, Replies
    <3>4. CASE HostReset
      BY <3>4 DEF HostReset
    <3> QED BY <1>7, <3>1, <3>2, <3>3, <3>4
  <2> QED BY <2>1, <2>2, <2>3 DEF Replies
<1> QED BY <1>1, <1>2, <1>3, <1>4, <1>5, <1>6, <1>7 DEF Next, Controller

\* Every step keeps the line.
LEMMA StaysOrdered ==
  ASSUME Inv, Framed, Replies, Ordered, [Next]_vars
  PROVE  Ordered'
BY RxOrdered, TxOrdered, LoopOrdered, HostOrdered DEF Next, Controller

\* No response is lost, doubled, sent out of order, of the wrong outcome, or
\* left over from before a reset, for any commands, packets and sizes of the
\* FIFOs, whatever else shares the transmitter and whatever is refused or given
\* up (usb.c:152-172, 223-624, 626-644).
THEOREM ResponsesKeepOrder == Spec => []ResponsesInOrder
<1>1. Init => Replies /\ Ordered
  <2> SUFFICES ASSUME Init PROVE Replies /\ Ordered
    OBVIOUS
  <2>1. Replies
    BY DEF Init, Replies
  <2>2. Outcomes(txq) = <<>> /\ Outcomes(rxq) = <<>> /\ OnItsWay = <<>> /\ InTheSlot = <<>>
        /\ InTheMaking = <<>> /\ owed = <<>>
    BY OutcomesEmpty DEF Init, OnItsWay, InTheSlot, InTheMaking
  <2>3. <<>> \in Seq(Reply)
    OBVIOUS
  <2>4. Cat(<<>>, <<>>) = <<>>
    BY <2>3, Along
  <2> QED BY <2>1, <2>2, <2>4 DEF Ordered, Line
<1>2. Inv /\ Framed /\ Replies /\ Ordered /\ [Next]_vars => Replies' /\ Ordered'
  BY StaysReplies, StaysOrdered
<1>3. Ordered => ResponsesInOrder
  BY DEF Ordered, ResponsesInOrder, Line, Cat
<1> QED BY <1>1, <1>2, <1>3, UsbFramed, PTL DEF Spec
=============================================================================
