--------------------------- MODULE ArbiterProofs ---------------------------
(***************************************************************************)
(* That the arbiter of the memories serves the right client, whatever the  *)
(* clients ask for and however long the memories take.                     *)
(***************************************************************************)
EXTENDS MemoryArbiter, TLAPS

Inv == TypeOK /\ ServesItsClient /\ AckMeansRequest

\* The client that is chosen is one that asks, if any does.
LEMMA ChosenAsks ==
  ASSUME NEW m, Asking(m) # {}
  PROVE  Chosen(m) \in Clients /\ Wants(Chosen(m), m)
BY DEF Asking, Chosen, Clients

\* The invariant holds when nothing has been asked for.
LEMMA InitInv == Init => Inv
BY DEF Init, Inv, TypeOK, ServesItsClient, AckMeansRequest

\* What the arbiter latches is an access of a client (memory_arbiter.sv:112-240).
LEMMA NextTyped == TypeOK /\ Tick => TypeOK'
<1> SUFFICES ASSUME TypeOK, Tick PROVE TypeOK'
  OBVIOUS
<1>1. request' \in [Clients -> BOOLEAN] /\ access' \in [Clients -> Access]
      /\ active' \in [Memories -> BOOLEAN] /\ ack' \in [Memories -> BOOLEAN]
  BY DEF Tick, ClientStep, MemoryStep
<1>2. \A m \in Memories : Latch(m) \in [request : BOOLEAN, source : Clients, access : Access]
  <2> SUFFICES ASSUME NEW m \in Memories
               PROVE  Latch(m) \in [request : BOOLEAN, source : Clients, access : Access]
    OBVIOUS
  <2>1. arb[m] \in [request : BOOLEAN, source : Clients, access : Access] /\ ack[m] \in BOOLEAN
    BY DEF TypeOK
  <2>2. CASE arb[m].request
    BY <2>1, <2>2 DEF Latch
  <2>3. CASE ~arb[m].request /\ Asking(m) # {}
    <3>1. Chosen(m) \in Clients /\ access[Chosen(m)] \in Access
      BY <2>3, ChosenAsks DEF TypeOK
    <3> QED BY <2>3, <3>1 DEF Latch
  <2>4. CASE ~arb[m].request /\ Asking(m) = {}
    BY <2>1, <2>4 DEF Latch
  <2> QED BY <2>2, <2>3, <2>4
<1>3. arb' \in [Memories -> [request : BOOLEAN, source : Clients, access : Access]]
  BY <1>2 DEF Tick
<1> QED BY <1>1, <1>3 DEF TypeOK

\* An access that is latched stays one its client asks for, until it is
\* acknowledged.
LEMMA NextServes == Inv /\ Tick => ServesItsClient'
<1> SUFFICES ASSUME Inv, Tick, NEW m \in Memories, arb'[m].request
             PROVE  /\ request'[arb'[m].source]
                    /\ access'[arb'[m].source] = arb'[m].access
                    /\ arb'[m].access.mem = m
  BY DEF ServesItsClient
<1>1. arb'[m] = Latch(m)
  BY DEF Tick
<1>2. TypeOK
  BY DEF Inv
<1>3. CASE arb[m].request
  <2>1. arb'[m].source = arb[m].source /\ arb'[m].access = arb[m].access /\ ~ack[m]
    <3>1. arb'[m] = [request |-> ~ack[m], source |-> arb[m].source, access |-> arb[m].access]
      BY <1>1, <1>3 DEF Latch
    <3>2. ASSUME ack[m] PROVE FALSE
      <4>1. (~ack[m]) = FALSE
        BY <3>2
      <4>2. arb'[m] = [request |-> FALSE, source |-> arb[m].source, access |-> arb[m].access]
        BY <3>1, <4>1
      <4> QED BY <4>2
    <3>3. arb'[m].source = arb[m].source /\ arb'[m].access = arb[m].access
      BY <3>1
    <3> QED BY <3>2, <3>3
  <2> DEFINE c == arb[m].source
  <2>2. c \in Clients /\ request[c] /\ access[c] = arb[m].access /\ arb[m].access.mem = m
    BY <1>2, <1>3 DEF Inv, TypeOK, ServesItsClient
  <2>3. ~Acked(c)
    <3> SUFFICES ASSUME NEW n \in Memories, ack[n], arb[n].source = c PROVE FALSE
      BY DEF Acked, AckOf
    <3>1. arb[n].request
      BY DEF Inv, AckMeansRequest
    <3>2. arb[n].access = access[c] /\ arb[n].access.mem = n
      BY <3>1 DEF Inv, ServesItsClient
    <3>3. n = m
      BY <3>2, <2>2
    <3> QED BY <3>3, <2>1
  <2>4. request'[c] /\ access'[c] = access[c]
    BY <2>2, <2>3 DEF Tick, ClientStep
  <2> QED BY <2>1, <2>2, <2>4
<1>4. CASE ~arb[m].request
  <2>1. Asking(m) # {}
    BY <1>1, <1>4 DEF Latch
  <2> DEFINE c == Chosen(m)
  <2>2. c \in Clients /\ Wants(c, m)
    BY <2>1, ChosenAsks
  <2>3. arb'[m].source = c /\ arb'[m].access = access[c]
    BY <1>1, <1>4, <2>1 DEF Latch
  <2>4. request[c] /\ access[c].mem = m
    BY <2>2 DEF Wants
  <2>5. ~Acked(c)
    <3> SUFFICES ASSUME NEW n \in Memories, ack[n], arb[n].source = c PROVE FALSE
      BY DEF Acked, AckOf
    <3>1. arb[n].request
      BY DEF Inv, AckMeansRequest
    <3>2. arb[n].access = access[c] /\ arb[n].access.mem = n
      BY <3>1 DEF Inv, ServesItsClient
    <3>3. n = m
      BY <3>2, <2>4
    <3> QED BY <3>1, <3>3, <1>4
  <2>6. request'[c] /\ access'[c] = access[c]
    BY <2>2, <2>4, <2>5 DEF Tick, ClientStep
  <2> QED BY <2>3, <2>4, <2>6
<1> QED BY <1>3, <1>4

\* Only a memory with a request acknowledges.
LEMMA NextAck == Inv /\ Tick => AckMeansRequest'
<1> SUFFICES ASSUME Inv, Tick, NEW m \in Memories, ack'[m] PROVE arb'[m].request
  BY DEF AckMeansRequest
<1>1. arb[m].request /\ ~ack[m]
  BY DEF Tick, MemoryStep
<1>2. arb'[m] = [request |-> ~ack[m], source |-> arb[m].source, access |-> arb[m].access]
  BY <1>1 DEF Tick, Latch
<1>3. (~ack[m]) = TRUE
  BY <1>1
<1>4. arb'[m] = [request |-> TRUE, source |-> arb[m].source, access |-> arb[m].access]
  BY <1>2, <1>3
<1> QED BY <1>4

\* The type invariant, and the access a memory works on: the arbiter changes
\* nothing about a request between the edge it is latched at and the
\* acknowledgement, and the client cannot have gone on to the next one
\* (memory_arbiter.sv:61-100, 196-217).
THEOREM ArbiterServes == Spec => [](TypeOK /\ ServesItsClient /\ AckMeansRequest)
<1>1. Inv /\ [Tick]_vars => Inv'
  <2> SUFFICES ASSUME Inv, [Tick]_vars PROVE Inv'
    OBVIOUS
  <2>1. CASE Tick
    BY <2>1, NextTyped, NextServes, NextAck DEF Inv
  <2>2. CASE UNCHANGED vars
    BY <2>2 DEF Inv, TypeOK, ServesItsClient, AckMeansRequest, vars
  <2> QED BY <2>1, <2>2
<1>2. Inv => TypeOK /\ ServesItsClient /\ AckMeansRequest
  BY DEF Inv
<1> QED BY <1>1, <1>2, InitInv, PTL DEF Spec

\* The invariant gives the source of the data.
LEMMA InvReads == Inv => ReadsItsMemory
<1> SUFFICES ASSUME Inv, NEW c \in Clients, NEW m \in Memories, AckOf(c, m),
                    ~(m = "flash" /\ active[m] /\ c # "n64")
             PROVE  ReadFrom(c) = m
  BY DEF ReadsItsMemory
<1>1. request[c] /\ access[c].mem = m
  BY DEF Inv, AckMeansRequest, ServesItsClient, AckOf
<1>2. m \in {"sdram", "flash", "bram"}
  BY DEF Memories
<1>3. CASE m = "bram"
  BY <1>1, <1>3 DEF ReadFrom, Wants
<1>4. CASE m = "flash"
  BY <1>1, <1>4 DEF ReadFrom, Wants
<1>5. CASE m = "sdram"
  BY <1>1, <1>5 DEF ReadFrom, Wants
<1> QED BY <1>2, <1>3, <1>4, <1>5

\* An acknowledgement comes with the data of the memory that gives it, but for
\* flash that the N64 has on its bus (memory_arbiter.sv:219-230).
THEOREM ArbiterReads == Spec => []ReadsItsMemory
<1>1. Spec => []Inv
  BY ArbiterServes, PTL DEF Inv
<1> QED BY <1>1, InvReads, PTL
=============================================================================
