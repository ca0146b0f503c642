--------------------------- MODULE MemoryArbiter ---------------------------
(***************************************************************************)
(* The arbiter of the FPGA, fw/rtl/memory/memory_arbiter.sv: the N64, the  *)
(* controller and the two DMA engines share three memories.  One Tick is   *)
(* one clock edge, at which every register takes its new value.            *)
(*                                                                         *)
(* A client holds its request until it is acknowledged, and may put the    *)
(* next one in the same edge.  A memory sees only what the arbiter has     *)
(* latched for it, and answers whenever it likes.  The clients and the     *)
(* memories are free here; UsbPath puts real ones in their place.          *)
(***************************************************************************)
EXTENDS Integers

CONSTANT Access   \* what a client may ask for: records with a field mem

VARIABLES
  request,   \* client -> its request line
  access,    \* client -> the access it asks for
  active,    \* memory -> the N64 has an address of it on its bus (pi_*_active)
  arb,       \* memory -> [request, source, access] latched for it
  ack        \* memory -> it acknowledges in this clock

vars == <<request, access, active, arb, ack>>

Memories == {"sdram", "flash", "bram"}
Clients  == {"n64", "cfg", "usb", "sd"}

\* The request lines behind the gates: the N64's bus keeps the others out of
\* the memory it reads from.
Wants(c, m) ==
  /\ request[c] /\ access[c].mem = m
  /\ c # "n64" /\ m # "bram" => ~active[m]

Asking(m) == {c \in Clients : Wants(c, m)}

Chosen(m) ==
  IF Wants("n64", m) THEN "n64"
  ELSE IF Wants("cfg", m) THEN "cfg"
  ELSE IF Wants("usb", m) THEN "usb" ELSE "sd"

\* One of the three copies of the arbiter's register block.
Latch(m) ==
  IF arb[m].request
    THEN [request |-> ~ack[m], source |-> arb[m].source, access |-> arb[m].access]
  ELSE IF Asking(m) # {}
    THEN [request |-> TRUE, source |-> Chosen(m), access |-> access[Chosen(m)]]
  ELSE arb[m]

\* The acknowledgement goes to the client the memory was latched for ...
AckOf(c, m) == ack[m] /\ arb[m].source = c
Acked(c) == \E m \in Memories : AckOf(c, m)

\* ... and the data comes from the memory its request line asks for now.
ReadFrom(c) ==
  IF Wants(c, "bram") THEN "bram"
  ELSE IF Wants(c, "flash") THEN "flash" ELSE "sdram"

-----------------------------------------------------------------------------
\* What a client may do at an edge.
ClientStep ==
  /\ request' \in [Clients -> BOOLEAN] /\ access' \in [Clients -> Access]
  /\ \A c \in Clients :
       request[c] /\ ~Acked(c) => request'[c] /\ access'[c] = access[c]

\* A memory acknowledges for one clock what is latched for it.
MemoryStep ==
  /\ ack' \in [Memories -> BOOLEAN]
  /\ \A m \in Memories : ack'[m] => arb[m].request /\ ~ack[m]

Tick ==
  /\ arb' = [m \in Memories |-> Latch(m)]
  /\ active' \in [Memories -> BOOLEAN]
  /\ ClientStep /\ MemoryStep

Init ==
  /\ request = [c \in Clients |-> FALSE] /\ access \in [Clients -> Access]
  /\ active = [m \in Memories |-> FALSE]
  /\ arb \in [Memories -> [request : {FALSE}, source : Clients, access : Access]]
  /\ ack = [m \in Memories |-> FALSE]

Spec == Init /\ [][Tick]_vars

-----------------------------------------------------------------------------
TypeOK ==
  /\ request \in [Clients -> BOOLEAN] /\ access \in [Clients -> Access]
  /\ active \in [Memories -> BOOLEAN]
  /\ arb \in [Memories -> [request : BOOLEAN, source : Clients, access : Access]]
  /\ ack \in [Memories -> BOOLEAN]

\* What a memory works on is the access its client still asks for: no access is
\* served twice, none is mixed with that of another client, and no client gets
\* the acknowledgement of another (memory_arbiter.sv:61-100, 196-217).
ServesItsClient ==
  \A m \in Memories :
    arb[m].request =>
      /\ request[arb[m].source]
      /\ access[arb[m].source] = arb[m].access
      /\ arb[m].access.mem = m

AckMeansRequest == \A m \in Memories : ack[m] => arb[m].request

\* The data a client is given with an acknowledgement is that of the memory
\* which gives it, except for flash while the N64 has an address of flash on
\* its bus: the gate of the request line also switches the data
\* (memory_arbiter.sv:219-230).
ReadsItsMemory ==
  \A c \in Clients, m \in Memories :
    AckOf(c, m) /\ ~(m = "flash" /\ active[m] /\ c # "n64") => ReadFrom(c) = m

\* Without the exception, for which it fails.
ReadsItsMemoryAlways ==
  \A c \in Clients, m \in Memories : AckOf(c, m) => ReadFrom(c) = m
=============================================================================
