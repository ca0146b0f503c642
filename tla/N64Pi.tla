------------------------------- MODULE N64Pi -------------------------------
(***************************************************************************)
(* The N64's parallel bus in the FPGA, fw/rtl/n64/n64_pi.sv with its two   *)
(* FIFOs (n64_pi_fifo.sv): the console puts an address on the bus in two   *)
(* halves, then strobes words to or from it, one after the other.  Words   *)
(* to read are fetched ahead as soon as the address is there; words to     *)
(* write wait in a FIFO.  Neither has a way to make the console wait.      *)
(*                                                                         *)
(* PiTick is a clock edge: every register takes its new value from the old *)
(* ones.  line is the event of the bus after synchronization (aleh_op,     *)
(* alel_op, read_op, write_op, end_op) with what is on the data lines; the  *)
(* upper half of an address stays in con.window.                           *)
(*                                                                         *)
(* The console (external) never strobes across the end of a page of 128    *)
(* KiB: it puts a new address there.  Its timing is in Gap, Pulse, Rest.   *)
(* Upper half of an address is a window, the lower one the word in it; a   *)
(* window is one page here, and the bank of a banked SRAM is left out.     *)
(***************************************************************************)
EXTENDS Integers, Sequences

CONSTANTS
  Windows,      \* of the address space that the console uses
  Settings,     \* values of the switches: the controller's, cfg_unlock, flashram_read_mode
  PageWords,    \* words of a page
  FifoWords,    \* depth of both FIFOs
  Latency,      \* clocks a memory may take
  Busy,         \* memories that others use as well
  Gap, Pulse, Rest,  \* clocks between two events, of a strobe, between accesses
  MaxAccesses, MaxBurst, MaxResets

ASSUME PiAssumption ==
  /\ PageWords \in Nat \ {0} /\ FifoWords \in Nat \ {0} /\ Latency \in Nat \ {0}
  /\ {Gap, Pulse, Rest} \subseteq Nat \ {0}
  /\ {MaxAccesses, MaxBurst, MaxResets} \subseteq Nat

\* A word of the N64 is served this long after it is asked for, at the latest;
\* only in the block RAM may others come in between.
Foreign == IF "bram" \in Busy THEN Latency + 1 ELSE 0
Serve   == Latency + 2 + Foreign

\* The console gives a memory the time it needs: the others leave it while the
\* address is put there, a strobe and what comes before it are longer than an
\* access, and so is the rest after the last one.
ASSUME TimesAssumption ==
  Latency <= Gap + 1 /\ Serve + 2 <= Gap + Pulse /\ Serve <= Rest

VARIABLES
  up, line, scb,         \* pi_reset (active low); the bus; the controller's switches
  port, active,          \* address decoder
  rf, wf, dq,            \* read and write FIFO with their controllers; n64_pi_dq_out
  ctl, bus,              \* memory bus controller; mem_bus
  reg, done,             \* reg_bus; sram_done
  cells, work,           \* memories: content, and what each one does
  con,                   \* the console
  shadow, before, torn, resets, \* history: what the console wrote, the same
                                \* before this access, a reset in an access,
  rights, counted               \* the switches at its start, sram_done in it

piRegs == <<port, active, rf, wf, dq, ctl, bus, reg, done>>
piHist == <<shadow, before, torn, resets>>
piVars == <<up, line, scb, piRegs, cells, work, con, piHist, rights, counted>>

Memory == {"sdram", "flash", "bram"}
Spaces == {"rom", "save", "ddipl", "boot", "shadow", "extended", "buffer"}
Words  == 0 .. PageWords - 1
MemoryOf(s) == IF s \in {"rom", "save", "ddipl"} THEN "sdram"
               ELSE IF s = "buffer" THEN "bram" ELSE "flash"

-----------------------------------------------------------------------------
(* The address decoder: a later window goes over an earlier one.            *)

NoPort == [read |-> "none", write |-> "none", space |-> "rom", sram |-> FALSE]
Mapped(r, w, s) == [read |-> r, write |-> w, space |-> s, sram |-> FALSE]

Rom(s) ==
  IF "bootloader" \in s THEN Mapped("mem", "none", "boot")
  ELSE Mapped("mem", IF "romWrite" \in s THEN "mem" ELSE "none", "rom")

Decode(w, s) ==
  CASE w = "dd" /\ "dd" \in s          -> Mapped("reg", "reg", "rom")
    [] w = "ddipl" /\ "ddipl" \in s    -> Mapped("mem", "none", "ddipl")
    [] w = "save" /\ "flashram" \in s  ->
         Mapped(IF "flashramRead" \in s THEN "mem" ELSE "reg", "reg", "save")
    [] w = "save" /\ "flashram" \notin s /\ "sram" \in s ->
         [Mapped("mem", "mem", "save") EXCEPT !.sram = TRUE]
    [] w = "rom"                       -> Rom(s)
    [] w = "romEnd"                    -> IF "shadow" \in s THEN Mapped("mem", "none", "shadow")
                                          ELSE IF "bootloader" \in s THEN NoPort ELSE Rom(s)
    [] w = "extended" /\ "extended" \in s -> Mapped("mem", "none", "extended")
    [] w = "flash" /\ "unlock" \in s  -> Mapped("mem", "none", "shadow")
    [] w = "buffer" /\ "unlock" \in s -> Mapped("mem", "mem", "buffer")
    [] w = "cfg"                       ->
         Mapped(IF "unlock" \in s THEN "reg" ELSE "none", "reg", "rom")
    [] OTHER                           -> NoPort

Decoder ==
  LET p == Decode(con.window, scb)
  IN  IF line.op = "aleh"
      THEN /\ port' = p
           /\ active' = [m \in Memory |->
                active[m] \/ (p.read = "mem" /\ m = MemoryOf(p.space) /\ m # "bram")]
      ELSE /\ port' = port
           /\ active' = IF ~up \/ line.op = "end" THEN [m \in Memory |-> FALSE] ELSE active

-----------------------------------------------------------------------------
(* The memories.  A memory that is idle takes the access of the N64 first;  *)
(* the other clients of the arbiter come in only while the window of the    *)
(* N64 is not in it.                                                        *)

Idle == [who |-> "none", left |-> 0, write |-> FALSE, at |-> [space |-> "rom", word |-> 0],
         data |-> 0]

AckOf(m) == work[m].who = "n64" /\ work[m].left = 0
Ack      == \E m \in Memory : AckOf(m)
AckData  == LET a == work[CHOOSE m \in Memory : AckOf(m)].at IN cells[a.space][a.word]

Asks(m) == bus.request /\ MemoryOf(bus.at.space) = m

MemoryTurn(m) ==
  LET w == work[m]
  IN  IF w.left > 0 THEN {[w EXCEPT !.left = w.left - 1]}
      ELSE IF w.who # "none" THEN {Idle}
      ELSE IF Asks(m)
        THEN {[who |-> "n64", left |-> n, write |-> bus.write, at |-> bus.at, data |-> bus.data] :
                n \in 1 .. Latency}
      ELSE {Idle} \cup {[Idle EXCEPT !.who = "other", !.left = n] :
                          n \in {x \in 1 .. Latency : m \in Busy /\ ~active[m]}}

MemoryWork ==
  /\ \E s \in MemoryTurn("sdram"), f \in MemoryTurn("flash"), b \in MemoryTurn("bram") :
       work' = [sdram |-> s, flash |-> f, bram |-> b]
  /\ cells' = [s \in Spaces |-> [a \in Words |->
       LET w == work[MemoryOf(s)]
       IN  IF AckOf(MemoryOf(s)) /\ w.write /\ w.at = [space |-> s, word |-> a]
           THEN w.data ELSE cells[s][a]]]

-----------------------------------------------------------------------------
(* The FIFOs.                                                               *)

Popped(f) == IF f.pop THEN Tail(f.q) ELSE f.q

\* With a bug: words fetched ahead for the last address stay.
ReadFlushOnReset == ~up

ReadFlush == ~up \/ line.op = "alel"

\* The register of a window whose registers the console reads.
Register(a) == 100 + a

ReadFifo ==
  LET some == rf.q # <<>>
      mem  == port.read = "mem"
      take == mem /\ some /\ (line.op = "read" \/ rf.wait)
      q    == IF Ack /\ ~bus.write THEN Append(Popped(rf), AckData) ELSE Popped(rf)
  IN  /\ rf' = [q    |-> IF ReadFlush THEN <<>> ELSE q,
                pop  |-> take,
                wait |-> \/ mem /\ line.op = "read" /\ ~some
                         \/ rf.wait /\ ~ReadFlush /\ ~(mem /\ some)]
      /\ dq' = IF take THEN Head(rf.q)
               ELSE IF port.read = "reg" /\ line.op = "read" THEN Register(reg.word)
               ELSE dq

WriteFifo ==
  LET full == Len(wf.q) = FifoWords
      mem  == port.write = "mem"
      put  == mem /\ ~full /\ (line.op = "write" \/ wf.wait)
  IN  wf' = [q    |-> IF wf.push THEN Append(Popped(wf), wf.data) ELSE Popped(wf),
             push |-> put,
             data |-> IF put THEN line.data ELSE wf.data,
             wait |-> IF mem THEN full /\ (line.op = "write" \/ wf.wait) ELSE wf.wait,
             pop  |-> up /\ ~bus.request /\ mem /\ wf.q # <<>>]

-----------------------------------------------------------------------------
(* The memory bus controller.                                               *)

Writes == up /\ ~bus.request /\ port.write = "mem" /\ wf.q # <<>>
Reads  == /\ up /\ ~bus.request /\ ~Writes
          /\ port.read = "mem" /\ Len(rf.q) < FifoWords /\ ctl.enabled

Starting == [space |-> port.space, word |-> line.data]

\* With a bug: writes go on where the words fetched ahead ended.
NextAddressGoesOn ==
  LET a == IF ctl.load THEN ctl.start ELSE bus.at
  IN  IF Ack THEN [a EXCEPT !.word = (bus.at.word + 1) % PageWords] ELSE a

\* Only the lower 17 bits of an address count.
NextAddress ==
  LET a == IF ctl.load \/ (Writes /\ ctl.first) THEN ctl.start ELSE bus.at
  IN  IF Ack THEN [a EXCEPT !.word = (bus.at.word + 1) % PageWords] ELSE a

BusController ==
  /\ ctl' = [start   |-> IF up /\ line.op = "alel" THEN Starting ELSE ctl.start,
             load    |-> up /\ line.op = "alel",
             enabled |-> /\ up /\ ~Writes /\ line.op # "end"
                         /\ line.op = "alel" \/ ctl.enabled,
             first   |-> /\ ~(Writes /\ ctl.first)
                         /\ ctl.first \/ (up /\ line.op = "alel")]
  /\ bus' = [request |-> up /\ ~Ack /\ (bus.request \/ Writes \/ Reads),
             write   |-> Writes \/ (bus.write /\ ~Reads),
             data    |-> IF Writes THEN Head(wf.q) ELSE bus.data,
             at      |-> IF up THEN NextAddress ELSE bus.at]
  /\ done' = (up /\ line.op = "end" /\ port.sram /\ ~ctl.first)

RegBus ==
  reg' = [word  |-> IF line.op = "alel" THEN line.data
                    ELSE IF reg.inc THEN reg.word + 1 ELSE reg.word,
          inc   |-> line.op \in {"read", "write"},
          write |-> line.op = "write" /\ port.write = "reg",
          data  |-> line.data]

Fpga == Decoder /\ ReadFifo /\ WriteFifo /\ BusController /\ RegBus /\ MemoryWork

-----------------------------------------------------------------------------
(* The console.                                                             *)

NotStarted == [phase |-> "idle", since |-> 0, window |-> "rom", word |-> 0, k |-> 0, n |-> 0,
               dir |-> "none"]

\* A while after an access.
Settled == con.phase = "idle" /\ con.since >= Rest

Later == con' = [con EXCEPT !.since = IF con.since < Rest THEN con.since + 1 ELSE con.since]
Moves(phase) == con' = [con EXCEPT !.phase = phase, !.since = 0]
Event(op, data) == line' = [op |-> op, data |-> data]
Silent == Event("none", IF con.phase = "strobe" THEN line.data ELSE 0)

Waits == Silent /\ Later /\ UNCHANGED <<up, piHist>>

\* What a write changes: nothing but memory of its own, or the ROM when the
\* controller allows it.
Writable(w, s) ==
  \/ w = "save" /\ "sram" \in s /\ "flashram" \notin s
  \/ w \in {"rom", "romEnd"} /\ "romWrite" \in s /\ "bootloader" \notin s
       /\ (w = "romEnd" => "shadow" \notin s)
  \/ w = "buffer" /\ "unlock" \in s
Place(w) == IF w \in {"save", "buffer"} THEN w ELSE "rom"

PutHigh ==
  /\ Settled /\ con.n < MaxAccesses
  /\ \E w \in Windows :
       /\ Event("aleh", 0)
       /\ con' = [con EXCEPT !.phase = "high", !.since = 0, !.n = con.n + 1, !.k = 0,
                             !.window = w, !.dir = "none"]
  /\ shadow' = IF torn THEN cells ELSE shadow
  /\ before' = shadow' /\ torn' = FALSE
  /\ UNCHANGED <<up, resets>>

PutLow ==
  /\ con.phase = "high" /\ con.since >= Gap
  /\ \E a \in Words :
       /\ Event("alel", a)
       /\ con' = [con EXCEPT !.phase = "low", !.since = 0, !.word = a]
  /\ UNCHANGED <<up, piHist>>

Here == con.word + con.k

Strobe(d) ==
  /\ con.phase = "low" /\ con.since >= Gap
  /\ con.dir \in {"none", d} /\ con.k < MaxBurst /\ Here < PageWords
  /\ LET p == IF d = "read" THEN port.read ELSE port.write
         word == MaxBurst * con.n + con.k
     IN  Event(IF p = "none" THEN "none" ELSE d, IF d = "write" THEN word ELSE 0)
  /\ con' = [con EXCEPT !.phase = "strobe", !.since = 0, !.dir = d]
  /\ shadow' = IF d = "write" /\ Writable(con.window, rights)
               THEN [shadow EXCEPT ![Place(con.window)][Here] = line'.data] ELSE shadow
  /\ UNCHANGED <<up, before, torn, resets>>

\* The end of a strobe, at which the console takes what it reads.
Release ==
  /\ con.phase = "strobe" /\ con.since >= Pulse
  /\ Event("none", 0)
  /\ con' = [con EXCEPT !.phase = "low", !.since = 0, !.k = con.k + 1]
  /\ UNCHANGED <<up, piHist>>

End ==
  /\ con.phase = "low" /\ con.since >= Gap
  /\ Event("end", 0) /\ Moves("idle") /\ UNCHANGED <<up, piHist>>

Reset ==
  /\ con.phase # "off" /\ resets < MaxResets
  /\ up' = FALSE /\ Event("none", 0) /\ Moves("off")
  /\ torn' = (torn \/ ~Settled) /\ resets' = resets + 1
  /\ UNCHANGED <<shadow, before>>

\* It starts up before it uses the bus.
PowerOn ==
  /\ con.phase = "off" /\ con.since >= Rest
  /\ up' = TRUE /\ Event("none", 0)
  /\ con' = [con EXCEPT !.phase = "idle", !.since = 0 - Rest] /\ UNCHANGED piHist

Console ==
  \/ Waits \/ PutHigh \/ PutLow \/ Release \/ End \/ Reset \/ PowerOn
  \/ \E d \in {"read", "write"} : Strobe(d)

Watch ==
  /\ rights' = IF line.op = "aleh" THEN scb ELSE rights
  /\ counted' = IF line.op = "aleh" THEN 0 ELSE IF done THEN counted + 1 ELSE counted

PiTick == Console /\ Fpga /\ Watch /\ UNCHANGED scb

\* Every word has a value of its own.
Initial(s, a) ==
  LET n == CHOOSE i \in 1 .. 7 :
             <<"rom", "save", "ddipl", "boot", "shadow", "extended", "buffer">>[i] = s
  IN  0 - PageWords * n - a

\* A switch changes, at any clock.
Switch ==
  /\ scb' \in Settings /\ scb' # scb
  /\ UNCHANGED <<up, line, piRegs, cells, work, con, piHist, rights, counted>>

PiInit ==
  /\ up = TRUE /\ line = [op |-> "none", data |-> 0] /\ scb \in Settings
  /\ port = NoPort /\ active = [m \in Memory |-> FALSE]
  /\ rf = [q |-> <<>>, pop |-> FALSE, wait |-> FALSE]
  /\ wf = [q |-> <<>>, push |-> FALSE, data |-> 0, wait |-> FALSE, pop |-> FALSE]
  /\ dq = 0
  /\ ctl = [start |-> [space |-> "rom", word |-> 0], load |-> FALSE, enabled |-> FALSE,
            first |-> FALSE]
  /\ bus = [request |-> FALSE, write |-> FALSE, data |-> 0, at |-> [space |-> "rom", word |-> 0]]
  /\ reg = [word |-> 0, inc |-> FALSE, write |-> FALSE, data |-> 0] /\ done = FALSE
  /\ cells = [s \in Spaces |-> [a \in Words |-> Initial(s, a)]]
  /\ work = [m \in Memory |-> Idle]
  /\ con = NotStarted
  /\ shadow = cells /\ before = cells /\ torn = FALSE /\ resets = 0
  /\ rights = {} /\ counted = 0

PiNext == PiTick \/ Switch
PiSpec == PiInit /\ [][PiNext]_piVars

-----------------------------------------------------------------------------
\* What the console takes at the end of a read strobe is the word at its address,
\* never one that was fetched ahead for the address before, and no word is
\* fetched that the FIFO has no room for (n64_pi.sv:303-355, 461-470).
ReadsTheWord ==
  /\ con.phase = "strobe" /\ con.dir = "read" /\ con.since >= Pulse =>
       CASE port.read = "mem" -> dq = cells[port.space][Here]
         [] port.read = "reg" -> dq = Register(Here)
         [] OTHER             -> TRUE
  /\ Len(rf.q) <= FifoWords

\* What a console that is not reset in between has written is in its place a
\* while later, and nothing else is changed.  A reset in an access, or in the
\* rest after it, may leave anything in the words which that access wrote, in
\* the ones before the reset too, but changes no other word.
InPlace ==
  Settled => \A s \in Spaces, a \in Words :
    cells[s][a] = shadow[s][a] \/ (torn /\ before[s][a] # shadow[s][a])

\* A register is written with the word of the strobe, at its address.
InRegister ==
  reg.write => \/ con.phase = "off"
               \/ con.phase = "strobe" /\ reg.word = Here /\ reg.data = line.data

\* The save counter counts an access that has written to the SRAM once, and no
\* other.
Counted ==
  Settled /\ ~torn =>
    counted = IF con.window = "save" /\ Writable("save", rights) /\ con.dir = "write" THEN 1 ELSE 0

\* A write takes effect once, where the console meant it to, though words are
\* fetched ahead until the first one comes, the memory is busy with others, or
\* the controller sets a switch in the middle (n64_pi.sv:370-484): its word gets
\* there and a save is reported.  Of an access that a reset falls in (torn) this
\* is not said, neither of its words nor of the report: only that it changes no
\* words but its own.
WritesTakeEffect == InPlace /\ InRegister /\ Counted /\ Len(wf.q) <= FifoWords
=============================================================================
