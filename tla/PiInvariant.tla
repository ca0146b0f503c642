---------------------------- MODULE PiInvariant ----------------------------
(***************************************************************************)
(* What has to hold between any two clock edges of N64Pi.tla for the       *)
(* console to read the word at its address and for its writes to get to    *)
(* their places: where the console is, what the memory does for the N64    *)
(* and how long that takes yet, which words have been fetched ahead, and   *)
(* which word waits to be written.                                         *)
(***************************************************************************)
EXTENDS N64Pi

Places   == [space : Spaces, word : Words]
At(c, p) == c[p.space][p.word]

PiTyped ==
  /\ up \in BOOLEAN /\ torn \in BOOLEAN /\ done \in BOOLEAN /\ counted \in Nat
  /\ port \in [read : {"mem", "reg", "none"}, write : {"mem", "reg", "none"},
               space : Spaces, sram : BOOLEAN]
  /\ active \in [Memory -> BOOLEAN]
  /\ rf \in [q : Seq(Int), pop : BOOLEAN, wait : BOOLEAN]
  /\ wf \in [q : Seq(Int), push : BOOLEAN, data : Int, wait : BOOLEAN, pop : BOOLEAN]
  /\ ctl \in [start : Places, load : BOOLEAN, enabled : BOOLEAN, first : BOOLEAN]
  /\ bus \in [request : BOOLEAN, write : BOOLEAN, data : Int, at : Places]
  /\ reg \in [word : Int, inc : BOOLEAN, write : BOOLEAN, data : Int]
  /\ work \in [Memory -> [who : {"none", "n64", "other"}, left : 0 .. Latency,
                          write : BOOLEAN, at : Places, data : Int]]
  /\ cells \in [Spaces -> [Words -> Int]]
  /\ shadow \in [Spaces -> [Words -> Int]]
  /\ before \in [Spaces -> [Words -> Int]]
  /\ line \in [op : {"none", "aleh", "alel", "read", "write", "end"}, data : Int]
  /\ con \in [phase : {"idle", "high", "low", "strobe", "off"}, since : Int,
              window : Windows \cup {"rom"}, word : Words, k : Nat, n : Nat,
              dir : {"none", "read", "write"}]

-----------------------------------------------------------------------------
(* The console, and what it has on the bus.                                 *)

ConsoleOk ==
  /\ 0 - Rest <= con.since /\ con.since <= Rest /\ (con.phase # "idle" => con.since >= 0)
  /\ up <=> con.phase # "off"
  /\ con.n = 0 \/ torn => con.phase \in {"off", "idle"}
  /\ con.n = 0 => con.dir = "none"
  /\ con.phase = "high" => con.k = 0 /\ con.dir = "none"
  /\ con.phase = "low" => /\ Here <= PageWords /\ con.k <= MaxBurst
                          /\ con.dir = "none" <=> con.k = 0
  /\ con.phase = "strobe" => con.dir # "none" /\ Here < PageWords /\ con.k < MaxBurst

\* Where the strobes of this access go.
Way == IF con.dir = "read" THEN port.read ELSE port.write

\* The lines say what the console has just done.
LineOk ==
  /\ line.op = "aleh" <=> con.phase = "high" /\ con.since = 0
  /\ line.op = "alel" <=> con.phase = "low" /\ con.since = 0 /\ con.dir = "none"
  /\ line.op = "alel" => line.data = con.word
  /\ line.op = "end" => con.phase = "idle" /\ con.since = 0
  /\ line.op \in {"read", "write"} <=> con.phase = "strobe" /\ con.since = 0 /\ Way # "none"
  /\ line.op \in {"read", "write"} => con.dir = line.op
  /\ con.phase = "strobe" /\ con.dir = "write" => line.data = MaxBurst * con.n + con.k

\* The address decoder knows the window, after it has looked at it.
PortOk ==
  IF con.n = 0 THEN port = NoPort
  ELSE line.op = "aleh" \/ port = Decode(con.window, rights)

\* The FPGA has the whole address, and the access goes on.
Open == con.phase = "strobe" \/ (con.phase = "low" /\ line.op # "alel")

Reading == Open /\ port.read = "mem" /\ con.dir # "write"
Writing == Open /\ port.write = "mem" /\ con.dir = "write"

-----------------------------------------------------------------------------
(* The memories.                                                            *)

\* What a memory does for the N64 is what the bus asks for, unless the console
\* has been reset since.
Held ==
  \A m \in Memory :
    /\ work[m].who = "n64" =>
         /\ m = MemoryOf(bus.at.space) /\ work[m].at = bus.at
         /\ work[m].write = bus.write /\ work[m].data = bus.data
         /\ bus.request \/ con.phase = "off"
         /\ con.phase = "off" => work[m].left + con.since <= Latency + 1
    /\ work[m].who = "other" => m \in Busy
    /\ work[m].who = "none" => work[m].left = 0

\* How long another client keeps a memory.
Keeps(w) == IF w.who = "other" THEN w.left + 1 ELSE 0
Taken(m) == Keeps(work[m])

\* The clocks until the request has been served.
Remaining ==
  LET m == MemoryOf(bus.at.space)
  IN  IF ~bus.request THEN 0
      ELSE IF work[m].who = "n64" THEN work[m].left + 1
      ELSE Taken(m) + Latency + 2

\* The others leave the memory that the N64 has an address of.
Alone ==
  LET m == MemoryOf(port.space)
  IN  port.read = "mem" /\ m # "bram" =>
        /\ con.phase = "high" /\ line.op # "aleh" =>
             active[m] /\ (Taken(m) = 0 \/ Taken(m) + con.since <= Latency + 2)
        /\ con.phase = "low" => active[m] /\ (Taken(m) = 0 \/ (con.k = 0 /\ Taken(m) + con.since <= 2))
        /\ con.phase = "strobe" \/ line.op = "end" => active[m] /\ Taken(m) = 0

\* How long an outstanding request may take.
Prompt ==
  /\ con.phase = "off" /\ con.since > 0 => ~bus.request
  /\ con.phase = "high" \/ line.op = "alel" => ~bus.request
  /\ Open /\ port.read # "mem" => ~bus.request
  /\ Open /\ bus.request => Remaining <= Serve
  /\ (Open \/ line.op = "end") /\ port.read = "mem" /\ ~ctl.load => bus.at.space = port.space
  /\ con.phase = "idle" /\ bus.request =>
       Remaining + con.since <= Rest + IF bus.write THEN 0 ELSE 1

\* The first word is taken from the address the console put there; fetching
\* goes on until the first write.
ControlOk ==
  /\ Open => /\ ctl.load <=> con.phase = "low" /\ con.dir = "none" /\ con.since = 1
             /\ ctl.start = [space |-> port.space, word |-> con.word]
             /\ IF Writing THEN ctl.enabled <=> ctl.first ELSE ctl.enabled /\ ctl.first
  /\ ~Open /\ up /\ line.op # "end" => ~ctl.enabled
  /\ ~Open /\ up => ~ctl.load
  /\ con.phase = "off" /\ con.since > 0 => ~ctl.enabled /\ ~ctl.load
  /\ line.op = "end" => (ctl.first <=> ~(port.write = "mem" /\ con.dir = "write"))

-----------------------------------------------------------------------------
(* The words fetched ahead.                                                 *)

Ahead == Popped(rf)

\* The console strobes, and has not got its word yet.
Untaken == line.op = "read" \/ rf.wait

\* The address of the oldest word that is still to be taken.
NextWord == Here + IF con.phase = "strobe" /\ ~Untaken THEN 1 ELSE 0

\* The clocks until a word has been fetched into an empty FIFO.
Until == IF bus.request THEN Remaining
         ELSE IF Len(rf.q) < FifoWords THEN Serve + 1 ELSE Serve + 2

FetchOk ==
  /\ Len(rf.q) + (IF bus.request /\ ~bus.write THEN 1 ELSE 0) <= FifoWords
  /\ rf.pop => \/ Reading /\ con.phase = "strobe" /\ ~Untaken /\ rf.q # <<>>
               \/ con.phase = "off" /\ con.since <= 1
  /\ rf.wait => \/ Reading /\ con.phase = "strobe" /\ con.since > 0
                \/ con.phase = "off" /\ con.since = 0
  /\ con.phase = "off" /\ con.since > 0 => rf.q = <<>>
  /\ up /\ con.phase # "idle" /\ con.dir # "write" => ~(bus.request /\ bus.write)
  /\ Reading =>
       /\ \A i \in 1 .. Len(Ahead) :
            NextWord + i - 1 < PageWords => Ahead[i] = cells[port.space][NextWord + i - 1]
       /\ NextWord + Len(Ahead) < PageWords /\ ~ctl.load =>
            bus.at = [space |-> port.space, word |-> NextWord + Len(Ahead)]
       /\ ctl.load => rf.q = <<>> /\ ~bus.request
       /\ con.phase = "low" /\ Ahead = <<>> => Until + con.since <= Serve + 2
       /\ con.phase = "strobe" /\ Untaken =>
            (IF rf.q = <<>> THEN Until ELSE 0) + con.since < Pulse

Got ==
  Open /\ con.phase = "strobe" /\ con.dir = "read" =>
    /\ port.read = "mem" /\ ~Untaken => dq = cells[port.space][Here]
    /\ port.read = "reg" /\ line.op # "read" => dq = Register(Here)

-----------------------------------------------------------------------------
(* The words to be written.                                                 *)

\* The address of the last word that the console has strobed.
Newest == [space |-> port.space,
           word |-> IF con.phase = "strobe" THEN Here ELSE Here - 1]

\* A word waits, and another is on the bus.
Queued   == (wf.q # <<>> /\ ~wf.pop) \/ wf.push
OnLine   == line.op = "write" /\ port.write = "mem"
InFlight == bus.request /\ bus.write
Owed     == (IF Queued \/ OnLine THEN 1 ELSE 0) + (IF InFlight THEN 1 ELSE 0)

\* The clocks until the word that waits in the FIFO is on the bus.
WaitLeft == IF bus.request THEN Remaining + 1 ELSE 1

QueueOk ==
  /\ ~wf.wait /\ Len(wf.q) + (IF wf.push THEN 1 ELSE 0) <= 1
  /\ wf.pop => wf.q # <<>> /\ InFlight
  /\ OnLine => wf.q = <<>> /\ ~wf.push
  /\ wf.q # <<>> \/ wf.push =>
       /\ port.write = "mem" /\ con.n > 0
       /\ \/ Writing
          \/ con.phase = "off"
          \/ wf.pop /\ con.phase = "idle"
          \/ con.phase = "idle" /\ con.since = 0 - Rest /\ ~bus.request /\ ~wf.push
  /\ con.phase = "off" /\ con.since > 0 => ~wf.pop /\ ~wf.push
  /\ Writing =>
       /\ wf.push => con.phase = "strobe" /\ con.since = 1
       /\ wf.q # <<>> /\ ~wf.pop /\ con.phase = "strobe" => WaitLeft + con.since <= Serve + 3
       /\ wf.q # <<>> /\ ~wf.pop /\ con.phase = "low" => WaitLeft + con.since + Pulse <= Serve + 2

\* Where the oldest word that is not written goes.
PlaceOk ==
  Writing =>
    /\ ctl.first => Newest = ctl.start /\ (Queued \/ OnLine)
    /\ ctl.first => ~InFlight
    /\ ~ctl.first => /\ bus.request => bus.write
                     /\ bus.at.space = port.space
                     /\ Newest.word + 1 - Owed < PageWords =>
                          bus.at.word = Newest.word + 1 - Owed

\* What is in the memories: all that was written, but for the words owed.
Written ==
  ~torn =>
    /\ \A p \in Places :
         \/ At(cells, p) = At(shadow, p)
         \/ InFlight /\ p = bus.at
         \/ (Queued \/ OnLine) /\ p = Newest
    /\ InFlight => bus.data = At(shadow, bus.at)
    /\ Queued => /\ wf.q # <<>> => Head(wf.q) = At(shadow, Newest)
                 /\ wf.push => wf.data = At(shadow, Newest)
    /\ OnLine => line.data = At(shadow, Newest)
    /\ con.phase \in {"off", "idle"} => ~Queued
    /\ con.phase = "off" => ~InFlight /\ \A m \in Memory : work[m].who # "n64" \/ ~work[m].write

\* A place that was written in this access.
Touched(p) == At(before, p) # At(shadow, p)

\* Words that are written after a reset go to such places.
Strays ==
  /\ \A p \in Places : At(cells, p) = At(shadow, p) \/ Touched(p)
  /\ InFlight => Touched(bus.at)
  /\ \A m \in Memory : work[m].who = "n64" /\ work[m].write => Touched(bus.at)
  /\ Queued /\ ~Writing => Touched(IF ctl.first THEN ctl.start ELSE bus.at)
  /\ Writing => Touched(Newest)

\* No word of the memory is as new as those of the next access.
Older(v) == v < MaxBurst * (con.n + 1)
Ages ==
  /\ \A p \in Places : /\ Older(At(cells, p)) /\ Older(At(shadow, p))
                       /\ At(before, p) < MaxBurst * con.n
  /\ wf.q # <<>> => Older(Head(wf.q))
  /\ wf.push => Older(wf.data)
  /\ InFlight => Older(bus.data)
  /\ \A m \in Memory : work[m].who = "n64" /\ work[m].write => Older(work[m].data)

-----------------------------------------------------------------------------
(* The registers, and the report of a save.                                 *)

RegOk ==
  /\ reg.write => con.phase = "off" \/ (con.phase = "strobe" /\ con.since = 1
                                        /\ reg.word = Here /\ reg.data = line.data)
  /\ Open => /\ reg.inc => con.phase = "strobe" /\ con.since = 1 /\ Way # "none"
             /\ IF con.dir = "none" \/ Way = "none" THEN reg.word = con.word
                ELSE reg.word + (IF reg.inc \/ line.op \in {"read", "write"} THEN 1 ELSE 0)
                       = Here + IF con.phase = "strobe" THEN 1 ELSE 0

\* This access is to be counted.
Saves == con.window = "save" /\ Writable("save", rights) /\ con.dir = "write"

CountOk ==
  /\ done => line.op # "end" /\ (con.phase = "off" \/ (con.phase = "idle" /\ con.since = 1))
  /\ Open \/ line.op = "alel" \/ (con.phase = "high" /\ line.op # "aleh") => counted = 0
  /\ con.phase \in {"off", "idle"} /\ ~torn =>
       IF line.op = "end" THEN counted = 0
       ELSE counted + (IF done THEN 1 ELSE 0) = (IF Saves THEN 1 ELSE 0)

\* All of it.
PiInv ==
  /\ PiTyped /\ ConsoleOk /\ LineOk /\ PortOk /\ Held /\ Alone /\ Prompt /\ ControlOk
  /\ FetchOk /\ Got /\ QueueOk /\ PlaceOk /\ Written /\ Strays /\ Ages /\ RegOk /\ CountOk
=============================================================================
