----------------------------- MODULE DiskDrive -----------------------------
(***************************************************************************)
(* The 64DD drive: sw/controller/src/dd.c with the registers of            *)
(* fw/rtl/n64/n64_dd.sv, a game that reads and writes blocks, and the      *)
(* medium: a disk image on the SD card, or in the PC tool, which answers   *)
(* requests that are sent as USB packets.                                  *)
(*                                                                         *)
(* A turn of dd_process is two steps: it reads the status register         *)
(* ("scan"), then does all its work and writes the register ("work"); the  *)
(* game, the timer and the PC act in between.                              *)
(*                                                                         *)
(* The game (external) looks at the status only when the buffer manager    *)
(* interrupts, seeks again after it has stopped the buffer manager, and    *)
(* takes longer to boot than a turn of dd_process.                         *)
(*                                                                         *)
(* A sector is <<disk, track, block, index, version>>, version 0 being     *)
(* what the disk came with.  disks, late, failed and lost are history of   *)
(* the running transfer: disks that were selected, an answer the PC still  *)
(* owed when it began, a failed write, a request a reset dropped.          *)
(***************************************************************************)
EXTENDS Integers, Sequences, FiniteSets

CONSTANTS DataSectors,  \* DD_BLOCK_DATA_SECTORS_NUM
          Jobs,         \* transfers of the game: [read, full, track, blk]
          Disks,        \* how many disks there are
          SdModes,      \* where disks may be: TRUE for the SD card
          MaxTransfers, \* transfers, of which
          MaxWrites,    \* writes
          MaxFaults     \* transfers given up, resets of the console or the link,
                        \* presses of the button, packets of others in the slot

ASSUME SizesAssumption == DataSectors \in Nat \ {0} /\ Disks \in Nat \ {0} /\ MaxWrites \in Nat
ASSUME SdModesAssumption == SdModes \subseteq BOOLEAN
ASSUME JobsAssumption  == Jobs \subseteq [read: BOOLEAN, full: BOOLEAN, track: Nat, blk: {0, 1}]

Tracks  == {0} \cup {j.track : j \in Jobs}   \* head and track
BlockSectors == DataSectors + 4    \* sectors_in_block
Index   == 0..DataSectors - 1
DiskId  == 0..Disks - 1
Places  == DiskId \X Tracks \X {0, 1} \X Index
Content == DiskId \X Tracks \X {0, 1} \X Index \X (0..MaxWrites)
Nothing == <<>>

VARIABLES reg,                       \* registers the game writes
          sec, buf,                  \* sector and block buffer
          drv, snap, turn, spin,     \* the controller, its timer
          slot, queue, host,         \* the way of a request to the PC
          sdMode, disk, medium,
          n64,                       \* the game
          used,                      \* of the bounds
          disks, late, failed, lost  \* history

ways    == <<slot, queue, host>>
history == <<disks, late, failed, lost>>
diskVars    == <<reg, sec, buf, drv, snap, turn, spin, ways, sdMode, disk, medium, n64, used, history>>

\* Between two turns the controller knows nothing of the status register.
Unread == [reset |-> FALSE, cmd |-> FALSE, stop |-> FALSE, start |-> FALSE, pend |-> FALSE,
           ack |-> FALSE, read |-> FALSE, full |-> FALSE]

DiskInit ==
  /\ reg = [reset |-> TRUE, cmdPending |-> FALSE, cmd |-> [op |-> "clear", track |-> 0],
            cmdIrq |-> FALSE, start |-> FALSE, stop |-> FALSE, pend |-> FALSE, ack |-> FALSE,
            irq |-> FALSE, read |-> FALSE, full |-> FALSE, blk |-> 0]
  /\ drv = [state |-> "idle", delayed |-> FALSE, spinning |-> FALSE, running |-> FALSE,
            read |-> FALSE, full |-> FALSE, blk |-> 0, track |-> 0, cur |-> 0,
            ready |-> FALSE, valid |-> FALSE, data |-> FALSE, c2 |-> FALSE, err |-> FALSE,
            irq |-> FALSE, inserted |-> TRUE, changed |-> TRUE]
  /\ sec = Nothing /\ buf = [k \in Index |-> Nothing]
  /\ snap = Unread /\ turn = "scan" /\ spin = FALSE /\ slot = Nothing /\ queue = <<>> /\ host = "idle"
  /\ sdMode \in SdModes /\ disk = 0 /\ medium = [x \in Places |-> Append(x, 0)]
  /\ n64 = [phase |-> "off", read |-> FALSE, track |-> 0, blk |-> 0, k |-> 0, left |-> 0, ver |-> 0]
  /\ used = [transfers |-> 0, writes |-> 0, faults |-> 0]
  /\ disks = {0} /\ late = FALSE /\ failed = FALSE /\ lost = FALSE

-----------------------------------------------------------------------------
\* The controller.  Scan takes the status register, the turn works on it.
Scan ==
  /\ turn = "scan" /\ turn' = "work"
  /\ snap' = [reset |-> reg.reset, cmd |-> reg.cmdPending, stop |-> reg.stop, start |-> reg.start,
              pend |-> reg.pend, ack |-> reg.ack, read |-> reg.read, full |-> reg.full]
  /\ UNCHANGED <<reg, sec, buf, drv, spin, ways, sdMode, disk, medium, n64, used, history>>

AfterReset ==
  IF snap.reset
    THEN [drv EXCEPT !.state = "idle", !.delayed = FALSE, !.spinning = FALSE, !.running = FALSE,
                     !.track = 0, !.changed = FALSE, !.irq = FALSE]
    ELSE [drv EXCEPT !.irq = FALSE]

\* A seek is answered when the disk is up to speed, anything else at once.
AfterCommand ==
  LET d == AfterReset
  IN  IF ~snap.cmd THEN d
      ELSE IF d.delayed THEN [d EXCEPT !.delayed = spin]
      ELSE CASE reg.cmd.op = "seek" ->
                  [d EXCEPT !.delayed = TRUE, !.spinning = TRUE, !.track = reg.cmd.track]
             [] reg.cmd.op = "clear" -> [d EXCEPT !.changed = FALSE]
             [] OTHER -> d

Answered   == snap.cmd /\ IF AfterReset.delayed THEN ~spin ELSE reg.cmd.op # "seek"
ClearReset == Answered /\ ~AfterReset.delayed /\ reg.cmd.op = "clear"
SpinUp     == AfterCommand.spinning /\ ~AfterReset.spinning
Starts     == snap.start /\ ~snap.stop

\* Bug: a request is not answered from scratch.
EnqueueKeepsReady(d, isRead, next) ==
  /\ slot' = IF slot = Nothing THEN <<isRead, d.track, d.blk, late>> ELSE slot
  /\ UNCHANGED <<buf, medium, failed>>
  /\ drv' = [d EXCEPT !.state = IF slot = Nothing THEN next ELSE @]

\* Bug: a full slot is not noticed.
EnqueueOnce(d, isRead, next) ==
  /\ slot' = IF slot = Nothing THEN <<isRead, d.track, d.blk, late>> ELSE slot
  /\ UNCHANGED <<buf, medium, failed>>
  /\ drv' = [d EXCEPT !.state = next, !.ready = FALSE]

\* A request by USB: again in the next turn as long as the slot is taken.  Its
\* last field is history: the request of a transfer that was late.
Enqueue(d, isRead, next) ==
  /\ slot' = IF slot = Nothing THEN <<isRead, d.track, d.blk, late>> ELSE slot
  /\ drv' = [d EXCEPT !.state = IF slot = Nothing THEN next ELSE @, !.ready = FALSE]
  /\ UNCHANGED <<buf, medium, failed>>

\* On the SD card the sectors are moved here and now; it may fail half way.
SdRequest(d, isRead, next) ==
  \E n \in 0..DataSectors :
    LET at(k) == <<disk, d.track, d.blk, k>>
    IN  /\ drv' = [d EXCEPT !.state = next, !.ready = TRUE, !.valid = (n = DataSectors)]
        /\ IF isRead
             THEN /\ buf' = [k \in Index |-> IF k < n THEN medium[at(k)] ELSE buf[k]]
                  /\ UNCHANGED medium
             ELSE /\ medium' = [x \in Places |-> IF \E k \in 0..n - 1 : x = at(k) THEN buf[x[4]]
                                                 ELSE medium[x]]
                  /\ UNCHANGED buf
        /\ UNCHANGED <<slot, failed>>

Request(d, isRead, next) ==
  \/ sdMode /\ SdRequest(d, isRead, next)
  \/ ~sdMode /\ Enqueue(d, isRead, next)

Still(d) == drv' = d /\ UNCHANGED <<slot, buf, medium, failed>>

\* The game has read or written the last word of the sector or C2 buffer.
OnPending(d) ==
  IF ~snap.pend THEN d
  ELSE IF d.cur < DataSectors THEN [d EXCEPT !.state = IF d.read THEN "sectorRead" ELSE "sectorWrite"]
  ELSE IF ~d.read THEN d
  ELSE IF d.cur = DataSectors THEN [d EXCEPT !.cur = @ + 1, !.data = FALSE, !.irq = TRUE]
  ELSE IF d.cur >= BlockSectors THEN [d EXCEPT !.state = "nextBlock"]
  ELSE d

\* The game has looked at the status: after the data come four sectors without
\* any, then C2; after a write, nothing.
OnAck(d) ==
  IF ~snap.ack THEN d
  ELSE IF ~d.read THEN [d EXCEPT !.running = @ /\ d.cur # DataSectors]
  ELSE IF d.cur <= DataSectors \/ d.cur > BlockSectors THEN d
  ELSE [d EXCEPT !.cur = @ + 1, !.irq = TRUE, !.c2 = @ \/ d.cur = BlockSectors]

\* Bug: the second block of a track is the first one again.
AfterBlockSame(d) ==
  IF d.full THEN [d EXCEPT !.state = "start", !.full = FALSE, !.c2 = FALSE]
  ELSE IF d.read THEN [d EXCEPT !.running = FALSE]
  ELSE [d EXCEPT !.state = "idle", !.c2 = FALSE, !.data = FALSE, !.irq = TRUE]

\* Bug: the game is told before the block is on the disk.
AfterFillEarly(d) ==
  IF d.cur < DataSectors THEN [d EXCEPT !.state = "idle", !.irq = TRUE]
  ELSE [d EXCEPT !.state = "nextBlock"]

AfterFill(d) ==
  IF d.cur < DataSectors THEN [d EXCEPT !.state = "idle", !.irq = TRUE]
  ELSE [d EXCEPT !.state = "blockWrite"]

AfterRead(d) ==
  LET e == IF d.valid THEN [d EXCEPT !.data = TRUE] ELSE [d EXCEPT !.err = TRUE]
  IN  IF d.read THEN [e EXCEPT !.state = "sectorRead"] ELSE [e EXCEPT !.state = "idle", !.irq = TRUE]

AfterBlock(d) ==
  IF d.full THEN [d EXCEPT !.state = "start", !.full = FALSE, !.blk = 1 - @, !.c2 = FALSE]
  ELSE IF d.read THEN [d EXCEPT !.running = FALSE]
  ELSE [d EXCEPT !.state = "idle", !.c2 = FALSE, !.data = FALSE, !.irq = TRUE]

\* The switch over the state.
Machine(d) ==
  \/ /\ d.state = "idle" \/ (d.state \in {"readWait", "writeWait"} /\ ~d.ready)
     /\ Still(d) /\ UNCHANGED sec
  \/ d.state = "start" /\ Request([d EXCEPT !.cur = 0], TRUE, "readWait") /\ UNCHANGED sec
  \/ d.state = "readWait" /\ d.ready /\ Still(AfterRead(d)) /\ UNCHANGED sec
  \/ /\ d.state = "sectorRead"
     /\ sec' = buf[d.cur] /\ Still([d EXCEPT !.state = "idle", !.cur = @ + 1, !.irq = TRUE])
  \/ /\ d.state = "sectorWrite"
     /\ buf' = [buf EXCEPT ![d.cur] = sec] /\ drv' = AfterFill([d EXCEPT !.cur = @ + 1])
     /\ UNCHANGED <<sec, slot, medium, failed>>
  \/ d.state = "blockWrite" /\ Request(d, FALSE, "writeWait") /\ UNCHANGED sec
  \/ /\ d.state = "writeWait" /\ d.ready
     /\ drv' = [d EXCEPT !.state = "nextBlock"] /\ failed' = (failed \/ ~d.valid)
     /\ UNCHANGED <<sec, buf, slot, medium>>
  \/ d.state = "nextBlock" /\ Still(AfterBlock(d)) /\ UNCHANGED sec

Stopped(d) == [d EXCEPT !.running = FALSE, !.data = FALSE, !.c2 = FALSE, !.err = FALSE]

Started(d) ==
  [d EXCEPT !.running = TRUE, !.state = "start", !.read = snap.read, !.full = snap.full,
            !.blk = reg.blk, !.data = FALSE, !.c2 = FALSE, !.err = FALSE]

\* The rest of dd_process, up to the write of the status register.
Work ==
  LET d == AfterCommand
  IN  /\ turn = "work" /\ turn' = "scan"
      /\ \/ snap.stop /\ Still(Stopped(d)) /\ UNCHANGED sec
         \/ Starts /\ Still(Started(d)) /\ UNCHANGED sec
         \/ ~snap.stop /\ ~snap.start /\ d.running /\ Machine(OnAck(OnPending(d)))
         \/ ~snap.stop /\ ~snap.start /\ ~d.running /\ Still(d) /\ UNCHANGED sec
      /\ reg' = [reg EXCEPT !.reset = @ /\ ~ClearReset,
                            !.cmdPending = @ /\ ~Answered, !.cmdIrq = @ \/ Answered,
                            !.stop = @ /\ ~snap.stop, !.start = @ /\ ~Starts,
                            !.pend = @ /\ ~(Starts \/ (snap.pend /\ d.running /\ ~snap.stop)),
                            !.ack = @ /\ ~(Starts \/ (snap.ack /\ d.running /\ ~snap.stop)),
                            !.irq = @ \/ drv'.irq]
      /\ spin' = (spin \/ SpinUp)
      /\ snap' = Unread /\ UNCHANGED <<queue, host, sdMode, disk, n64, used, disks, late, lost>>

\* The timer of the spin-up.
SpinsUp ==
  /\ spin /\ spin' = FALSE
  /\ UNCHANGED <<reg, sec, buf, drv, snap, turn, ways, sdMode, disk, medium, n64, used, history>>

-----------------------------------------------------------------------------
\* The way to the PC and back.  Of the packets of other components only the
\* slot is seen.  Data of a write leave the buffer when the packet is sent.
others == <<reg, sec, snap, turn, spin, sdMode, n64>>
Fault == used.faults < MaxFaults /\ used' = [used EXCEPT !.faults = @ + 1]

OtherPacket ==
  /\ ~sdMode /\ slot = Nothing /\ slot' = <<"other">> /\ Fault
  /\ UNCHANGED <<others, buf, drv, queue, host, disk, medium, history>>

Transmit ==
  /\ slot # Nothing /\ slot' = Nothing
  /\ queue' = IF slot = <<"other">> THEN queue ELSE Append(queue, Append(slot, buf))
  /\ UNCHANGED <<others, buf, drv, host, disk, medium, used, history>>

\* The PC tool serves the oldest request; it moves the data before it answers.
HostServes ==
  /\ queue # <<>> /\ host = "idle"
  /\ LET r == Head(queue)
         at(k) == <<disk, r[2], r[3], k>>
     IN  \/ /\ drv.inserted /\ r[1] /\ buf' = [k \in Index |-> medium[at(k)]]
            /\ host' = "done" /\ UNCHANGED medium
         \/ /\ drv.inserted /\ ~r[1] /\ host' = "done" /\ UNCHANGED buf
            /\ medium' = [x \in Places |-> IF x = at(x[4]) THEN r[5][x[4]] ELSE medium[x]]
         \/ host' = "failed" /\ UNCHANGED <<buf, medium>>
  /\ UNCHANGED <<others, drv, slot, queue, disk, used, history>>

\* DD_SET_BLOCK_READY says nothing of the request it answers.
HostAnswers ==
  /\ host # "idle" /\ turn = "scan"
  /\ drv' = [drv EXCEPT !.ready = TRUE, !.valid = (host = "done")]
  /\ queue' = Tail(queue) /\ host' = "idle"
  /\ UNCHANGED <<others, buf, slot, disk, medium, used, history>>

LinkReset ==
  /\ ~sdMode /\ Fault
  /\ slot' = Nothing /\ queue' = <<>> /\ host' = "idle"
  /\ lost' = (lost \/ Len(slot) > 1 \/ queue # <<>>)
  /\ UNCHANGED <<others, buf, drv, disk, medium, disks, late, failed>>

\* The button: out, then in again with the next disk.  dd_handle_button names
\* the next disk when it ejects, the PC tool when it inserts.
Button ==
  /\ turn = "scan" /\ host = "idle" /\ Fault
  /\ drv' = [drv EXCEPT !.inserted = ~@]
  /\ disk' = IF drv.inserted = sdMode THEN (disk + 1) % Disks ELSE disk
  /\ disks' = disks \cup {disk'}
  /\ UNCHANGED <<others, buf, ways, medium, late, failed, lost>>

-----------------------------------------------------------------------------
\* The game.  phase: "off", "boot", "idle", "cmd", "ready" to start, "wait" for
\* an interrupt, "data" and "c2" to move, "err", and "written" after a write.
machine == <<sec, buf, drv, snap, turn, spin, ways, sdMode, disk, medium>>
Moving  == n64.phase \in {"wait", "data", "c2"}

Reset ==
  [reg EXCEPT !.reset = TRUE, !.cmdPending = FALSE, !.cmdIrq = FALSE, !.start = FALSE,
              !.stop = FALSE, !.pend = FALSE, !.irq = FALSE]

ConsoleReset ==
  /\ Fault /\ reg' = Reset
  /\ n64' = [n64 EXCEPT !.phase = "off"] /\ UNCHANGED <<machine, history>>

Boot ==
  /\ n64.phase = "off" /\ turn = "scan"
  /\ n64' = [n64 EXCEPT !.phase = "boot"] /\ UNCHANGED <<reg, machine, used, history>>

Command(op, track) ==
  /\ n64.phase \in IF op = "clear" THEN {"boot"} ELSE {"idle", "ready", "written"}
  /\ reg' = [reg EXCEPT !.cmdPending = TRUE, !.cmdIrq = FALSE, !.cmd = [op |-> op, track |-> track]]
  /\ n64' = [n64 EXCEPT !.phase = "cmd", !.track = IF op = "seek" THEN track ELSE @]
  /\ UNCHANGED <<machine, used, history>>

CommandDone ==
  /\ n64.phase = "cmd" /\ reg.cmdIrq /\ reg' = [reg EXCEPT !.cmdIrq = FALSE]
  /\ n64' = [n64 EXCEPT !.phase = IF reg.cmd.op = "seek" THEN "ready" ELSE "idle"]
  /\ UNCHANGED <<machine, used, history>>

StartTransfer(job) ==
  /\ n64.phase \in {"ready", "written"} /\ n64.track = job.track /\ ~reg.irq
  /\ used.transfers < MaxTransfers /\ (job.read \/ used.writes < MaxWrites)
  /\ used' = [used EXCEPT !.transfers = @ + 1, !.writes = IF job.read THEN @ ELSE @ + 1]
  /\ reg' = [reg EXCEPT !.start = TRUE, !.stop = FALSE, !.read = job.read, !.full = job.full,
                        !.blk = job.blk]
  /\ n64' = [n64 EXCEPT !.phase = "wait", !.read = job.read, !.blk = job.blk, !.k = 0,
                        !.left = IF job.full THEN 1 ELSE 0, !.ver = used'.writes]
  /\ disks' = {disk} /\ late' = (queue # <<>> \/ Len(slot) > 1) /\ failed' = FALSE /\ lost' = FALSE
  /\ UNCHANGED machine

\* A look at the status takes the interrupt back.
Look ==
  /\ reg.irq /\ reg' = [reg EXCEPT !.irq = FALSE, !.ack = TRUE]
  /\ n64' = [n64 EXCEPT !.phase =
               CASE @ # "wait"                              -> @
                 [] @ = "wait" /\ drv.err                   -> "err"
                 [] @ = "wait" /\ ~drv.err /\ drv.data /\ n64.k < DataSectors -> "data"
                 [] @ = "wait" /\ ~drv.err /\ ~drv.data /\ drv.c2 -> "c2"
                 [] @ = "wait" /\ ~drv.err /\ ~drv.data /\ ~n64.read /\ n64.k = DataSectors -> "written"
                 [] OTHER -> @]
  /\ UNCHANGED <<machine, used, history>>

Tag == <<disk, n64.track, n64.blk, n64.k, n64.ver>>

\* The block is through: on to the other one of the track, or done.
Through(n, done) ==
  IF n.left = 1 THEN [n EXCEPT !.phase = "wait", !.blk = 1 - @, !.k = 0, !.left = 0]
  ELSE [n EXCEPT !.phase = done]

MoveSector ==
  /\ n64.phase = "data" /\ reg' = [reg EXCEPT !.pend = TRUE]
  /\ LET next == [n64 EXCEPT !.phase = "wait", !.k = @ + 1]
     IN  n64' = IF ~n64.read /\ next.k = DataSectors THEN Through(next, "wait") ELSE next
  /\ sec' = IF n64.read THEN sec ELSE Tag
  /\ UNCHANGED <<buf, drv, snap, turn, spin, ways, sdMode, disk, medium, used, history>>

MoveC2 ==
  /\ n64.phase = "c2" /\ reg' = [reg EXCEPT !.pend = TRUE]
  /\ n64' = Through(n64, "ready") /\ UNCHANGED <<machine, used, history>>

\* The buffer manager is stopped, after an error or in the middle.
StopTransfer ==
  /\ \/ n64.phase = "err" /\ UNCHANGED used
     \/ Moving /\ Fault
  /\ reg' = [reg EXCEPT !.start = FALSE, !.stop = TRUE, !.read = FALSE, !.full = FALSE,
                        !.pend = FALSE, !.irq = FALSE]
  /\ n64' = [n64 EXCEPT !.phase = "idle"] /\ UNCHANGED <<machine, history>>

GameStep ==
  \/ ConsoleReset \/ Boot \/ CommandDone \/ Look \/ MoveSector \/ MoveC2 \/ StopTransfer
  \/ \E op \in {"clear", "other"} : Command(op, 0)
  \/ \E t \in Tracks : Command("seek", t)
  \/ \E job \in Jobs : StartTransfer(job)

DiskNext ==
  \/ Scan \/ Work \/ SpinsUp
  \/ OtherPacket \/ Transmit \/ HostServes \/ HostAnswers \/ LinkReset \/ Button
  \/ GameStep

\* The controller, the timer, the PC and the game all go on; the main loop
\* serves a command of the PC in every turn, between two calls of dd_process.
DiskFairness ==
  /\ WF_diskVars(Scan \/ Work) /\ WF_diskVars(SpinsUp)
  /\ WF_diskVars(Transmit \/ HostServes) /\ SF_diskVars(HostAnswers)
  /\ WF_diskVars(Look \/ MoveSector \/ MoveC2 \/ CommandDone \/ (n64.phase = "err" /\ StopTransfer))

DiskSpec == DiskInit /\ [][DiskNext]_diskVars /\ DiskFairness

-----------------------------------------------------------------------------
Buffers == [Index -> Content \cup {Nothing}]

\* A request to read (TRUE) or write a block of a track, and what is sent with it.
Requests == BOOLEAN \X Tracks \X {0, 1} \X BOOLEAN
Packets  == BOOLEAN \X Tracks \X {0, 1} \X BOOLEAN \X Buffers

RegType ==
  reg \in [reset: BOOLEAN, cmdPending: BOOLEAN,
           cmd: [op: {"clear", "seek", "other"}, track: Tracks], cmdIrq: BOOLEAN,
           start: BOOLEAN, stop: BOOLEAN, pend: BOOLEAN, ack: BOOLEAN, irq: BOOLEAN,
           read: BOOLEAN, full: BOOLEAN, blk: {0, 1}]

States == {"idle", "start", "readWait", "sectorRead", "sectorWrite", "blockWrite", "writeWait",
           "nextBlock"}
Curs == 0..BlockSectors + 1
Drives ==
  [state: States,
   delayed: BOOLEAN, spinning: BOOLEAN, running: BOOLEAN, read: BOOLEAN, full: BOOLEAN,
   blk: {0, 1}, track: Tracks, cur: Curs, ready: BOOLEAN, valid: BOOLEAN,
   data: BOOLEAN, c2: BOOLEAN, err: BOOLEAN, irq: BOOLEAN, inserted: BOOLEAN, changed: BOOLEAN]

SnapType ==
  /\ snap \in [reset: BOOLEAN, cmd: BOOLEAN, stop: BOOLEAN, start: BOOLEAN, pend: BOOLEAN,
               ack: BOOLEAN, read: BOOLEAN, full: BOOLEAN]
  /\ turn \in {"scan", "work"} /\ spin \in BOOLEAN

GameType ==
  /\ n64 \in [phase: {"off", "boot", "idle", "cmd", "ready", "wait", "data", "c2", "err", "written"},
              read: BOOLEAN, track: Tracks, blk: {0, 1}, k: 0..DataSectors, left: {0, 1},
              ver: 0..MaxWrites]
  /\ used \in [transfers: Nat, writes: 0..MaxWrites, faults: Nat]

WayType ==
  /\ slot \in Requests \cup {Nothing, <<"other">>} /\ queue \in Seq(Packets)
  /\ host \in {"idle", "done", "failed"} /\ sdMode \in BOOLEAN

DataType ==
  /\ sec \in Content \cup {Nothing} /\ buf \in Buffers /\ medium \in [Places -> Content]
  /\ disk \in disks /\ disks \subseteq DiskId /\ late \in BOOLEAN /\ failed \in BOOLEAN

ControlType == RegType /\ drv \in Drives /\ SnapType /\ GameType

\* Every variable has its type: no sector is taken from, or put, outside the
\* block buffer, and none that the game never wrote reaches the medium.
DiskTypeOK == ControlType /\ WayType /\ DataType

\* A game that is told of a sector finds that sector of the block it asked for
\* in the buffer, as it is on a disk that was selected since it asked, unless
\* the PC still owed an answer to an older request then (dd.c, dd_process).
ReadsTheBlock ==
  n64.phase = "data" /\ n64.read /\ ~late =>
    \E d \in disks : sec = medium[<<d, n64.track, n64.blk, n64.k>>]

\* When a game is told that its write is over, the last block it wrote is on
\* the disk, unless the request failed, the disk was changed meanwhile, or an
\* older answer was taken for that of the write (dd.c, BLOCK_WRITE_WAIT).
WritesReachTheDisk ==
  n64.phase = "written" /\ ~late /\ ~failed /\ disks = {disk} =>
    \A k \in Index :
      medium[<<disk, n64.track, n64.blk, k>>] = <<disk, n64.track, n64.blk, k, n64.ver>>

\* Nothing is written but what a game wrote for that place, and for that disk
\* when none was changed: not even by the write of a transfer given up.  Only a
\* transfer that began while the PC owed an answer may send other sectors
\* (dd.c, dd_track_head_block and sd_current_disk).
WritesStayInPlace ==
  [][\A x \in Places :
       medium'[x] # medium[x] =>
         \/ queue # <<>> /\ Head(queue)[4]
         \/ /\ \A i \in 2..4 : medium'[x][i] = x[i]
            /\ medium'[x][1] = x[1] \/ late \/ Cardinality(disks) > 1]_diskVars

\* A command is answered and a transfer ends, whatever the disk does, as long
\* as no reset of the USB link drops its request (dd.c, the retry of a request
\* that finds the slot taken).
DriveAnswers ==
  n64.phase \in {"cmd", "wait", "data", "c2", "err"} ~>
    (n64.phase \in {"off", "idle", "ready", "written"} \/ lost)
=============================================================================
