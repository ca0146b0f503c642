--------------------------- MODULE DiskInvariant ---------------------------
(***************************************************************************)
(* The inductive invariant of DiskDrive.tla, from which MediaProofs.tla    *)
(* proves its properties.                                                  *)
(*                                                                         *)
(* The handshake: Noted (the snapshot against the registers), AtRest and   *)
(* InTransfer (the game against the drive, phase by phase) and Shaped (the *)
(* cursor of the drive in each of its states).                             *)
(*                                                                         *)
(* The data: Filled (what the game wrote, up to the block buffer), Owed    *)
(* and Sent (the requests on their way to the PC), Read (from the medium   *)
(* to the sector buffer) and Wrote (from the block buffer to the medium).  *)
(***************************************************************************)
EXTENDS DiskDrive

\* The game has moved the buffer and the controller has not yet served it.
Pend == reg.pend \/ snap.pend

\* The game has looked at the status and the controller has not yet noted it.
Ack  == reg.ack \/ snap.ack

\* Nothing to look at, nothing moved, nothing looked at.
Silent == ~reg.irq /\ ~Pend /\ ~Ack

\* A drive that still runs but has no block left to move.
Calm == drv.running => /\ drv.state = "idle"
                       /\ IF drv.read THEN drv.cur = BlockSectors + 1 /\ ~drv.full
                          ELSE drv.cur = DataSectors

\* What the snapshot says is still so in the registers, or the game has gone
\* back to the start of a command or of a boot.
Noted ==
  /\ turn = "scan" => snap = Unread
  /\ snap.cmd \/ snap.start => snap.stop \/ snap.reset \/ Calm
  /\ snap.start => Calm
  /\ snap.cmd => n64.phase = "off" \/ (n64.phase = "cmd" /\ reg.cmdPending)
  /\ snap.start => ~snap.stop /\ ~snap.reset
  /\ snap.cmd => ~snap.start
  /\ snap.stop => n64.phase = "off" \/ reg.stop
  /\ snap.pend => n64.phase = "off" \/ reg.stop \/ reg.pend
  /\ reg.stop => ~reg.pend /\ ~reg.start
  /\ drv.running /\ Pend => drv.state = "idle"
  /\ n64.phase = "off" /\ snap.cmd /\ reg.cmd.op = "clear" =>
       snap.reset \/ (~drv.running /\ ~drv.delayed)

\* Nothing runs and nothing is asked for.
Dead == ~drv.running /\ ~drv.delayed /\ ~snap.start /\ ~snap.cmd
Phase(S) == n64.phase \in S

\* While the console is off or boots the reset is pending or done with.
Off ==
  Phase({"off", "boot"}) =>
    /\ ~reg.start /\ ~reg.stop /\ ~reg.cmdPending /\ ~reg.pend
    /\ reg.reset \/ Dead
    /\ Phase({"boot"}) => ~snap.cmd /\ ~snap.start /\ ~snap.stop

\* The first command of a boot waits until the reset has been served.
Clearing ==
  Phase({"cmd"}) /\ reg.cmd.op = "clear" =>
    /\ ~reg.start /\ ~reg.stop /\ ~reg.pend /\ ~snap.start /\ ~snap.stop
    /\ reg.cmdPending <=> ~reg.cmdIrq
    /\ reg.reset \/ (~drv.running /\ ~drv.delayed)
    /\ snap.cmd /\ reg.reset => snap.reset
    /\ reg.cmdIrq => ~reg.reset /\ ~snap.reset

\* A later command finds the buffer manager stopped, or without a block.
Commanding ==
  Phase({"cmd"}) /\ reg.cmd.op # "clear" =>
    /\ ~reg.start /\ ~reg.reset /\ ~snap.reset
    /\ reg.cmdPending <=> ~reg.cmdIrq
    /\ reg.stop \/ (Calm /\ ~snap.start /\ ~snap.stop)
    /\ snap.cmd /\ reg.stop => snap.stop
    /\ reg.cmdIrq => ~reg.stop
    /\ drv.delayed => reg.cmd.op = "seek" /\ reg.cmdPending
    /\ reg.cmd.op = "seek" =>
         /\ reg.cmd.track = n64.track
         /\ drv.delayed \/ reg.cmdIrq => drv.track = n64.track

\* Between a stop and the next seek.
Idle ==
  Phase({"idle"}) =>
    /\ ~reg.start /\ ~reg.reset /\ ~snap.reset /\ ~reg.cmdPending /\ ~drv.delayed
    /\ reg.stop \/ (Calm /\ ~snap.start /\ ~snap.stop)

\* Between a seek and the start, and between two transfers of one track.
Ready ==
  Phase({"ready", "written"}) =>
    /\ ~reg.start /\ ~snap.start /\ Calm

\* The head is where the game has put it until the game moves it.
Going ==
  Phase({"ready", "written", "wait", "data", "c2", "err"}) =>
    /\ ~reg.stop /\ ~reg.reset /\ ~reg.cmdPending /\ ~snap.stop /\ ~snap.reset
    /\ ~drv.delayed /\ drv.track = n64.track

\* The handshake outside a transfer, one part for each phase of the game.
AtRest == Off /\ Clearing /\ Commanding /\ Idle /\ Ready /\ Going

\* Game and drive are at the same block.
Same  == drv.blk = n64.blk /\ (drv.full <=> n64.left = 1)

\* The game has turned to the second block, the drive is still at the first.
Ahead == drv.blk = 1 - n64.blk /\ drv.full /\ n64.left = 0 /\ n64.k = 0

\* In a transfer one of these holds.  The drive fetches the block,
Loading ==
  /\ n64.phase = "wait" /\ Silent /\ n64.k = 0 /\ Same /\ ~drv.c2
  /\ \/ drv.state = "start" /\ ~drv.err
     \/ drv.state = "readWait" /\ drv.cur = 0 /\ ~drv.err
     \/ drv.state = "sectorRead" /\ drv.cur = 0 /\ drv.read /\ (drv.data \/ drv.err)

\* (the sector the game may move now)
AtSector == drv.data /\ n64.k < DataSectors /\ drv.cur = (IF drv.read THEN n64.k + 1 ELSE n64.k)

\* has raised an interrupt,
Told ==
  /\ n64.phase = "wait" /\ reg.irq /\ ~Pend /\ ~Ack /\ drv.state = "idle"
  /\ \/ drv.err /\ drv.cur = (IF drv.read THEN 1 ELSE 0)
     \/ ~drv.err /\ Same /\ ~drv.c2 /\ AtSector
     \/ ~drv.err /\ Same /\ ~drv.data /\ drv.read /\ n64.k = DataSectors /\ drv.cur \in DataSectors + 1..BlockSectors + 1
        /\ (drv.c2 <=> drv.cur = BlockSectors + 1)
     \/ ~drv.err /\ Same /\ ~drv.data /\ ~drv.read /\ ~drv.c2 /\ n64.k = DataSectors /\ drv.cur = DataSectors /\ ~drv.full

\* passes the four sectors between the data and C2,
Gap ==
  /\ n64.phase = "wait" /\ ~reg.irq /\ ~Pend /\ Ack /\ drv.state = "idle" /\ ~drv.err /\ Same
  /\ drv.read /\ ~drv.data /\ ~drv.c2 /\ n64.k = DataSectors /\ drv.cur \in DataSectors + 1..BlockSectors

\* waits for the game to move a buffer,
AtGame ==
  /\ ~reg.irq /\ ~Pend /\ drv.state = "idle"
  /\ \/ n64.phase = "data" /\ ~drv.err /\ Same /\ ~drv.c2 /\ AtSector
     \/ n64.phase = "c2" /\ ~drv.err /\ Same /\ drv.read /\ ~drv.data /\ n64.k = DataSectors /\ drv.cur = BlockSectors + 1
     \/ n64.phase = "err" /\ drv.cur = (IF drv.read THEN 1 ELSE 0)

\* has a buffer to take,
Moved ==
  /\ n64.phase = "wait" /\ ~reg.irq /\ reg.pend /\ (snap.pend /\ reg.ack => snap.ack)
  /\ drv.state = "idle" /\ ~drv.err
  /\ \/ Same /\ ~drv.c2 /\ drv.read /\ n64.k > 0 /\ drv.cur = n64.k /\ drv.data
     \/ Ahead /\ drv.read /\ drv.cur = BlockSectors + 1 /\ ~drv.data
     \/ Same /\ ~drv.c2 /\ ~drv.read /\ n64.k > 0 /\ drv.cur = n64.k - 1 /\ drv.data /\ (n64.k = DataSectors => n64.left = 0)
     \/ Ahead /\ ~drv.c2 /\ ~drv.read /\ drv.cur = DataSectors - 1 /\ drv.data

\* or puts a full block onto the disk.
Writing ==
  /\ n64.phase = "wait" /\ Silent /\ ~drv.err /\ ~drv.c2 /\ ~drv.read /\ drv.cur = DataSectors
  /\ drv.state \in {"blockWrite", "writeWait", "nextBlock"}
  /\ (Same /\ n64.k = DataSectors /\ n64.left = 0) \/ Ahead
Live == /\ ~snap.start /\ drv.running /\ drv.read = n64.read
        /\ Loading \/ Told \/ Gap \/ AtGame \/ Moved \/ Writing

\* The start is in the register, and perhaps in the snapshot.
Fresh ==
  /\ n64.phase = "wait" /\ ~reg.irq /\ n64.k = 0 /\ n64.read = reg.read /\ n64.blk = reg.blk
  /\ reg.full <=> n64.left = 1
  /\ Calm /\ (snap.start => snap.read = reg.read /\ snap.full = reg.full)
InTransfer ==
  n64.phase \in {"wait", "data", "c2", "err"} => IF reg.start THEN Fresh ELSE Live

\* Where the cursor is in each state of a drive that runs.
Shaped ==
  drv.running =>
    /\ drv.state # "sectorWrite"
    /\ drv.state \in {"blockWrite", "writeWait"} => ~drv.read /\ drv.cur = DataSectors
    /\ drv.state = "sectorRead" => drv.read /\ drv.cur = 0
    /\ drv.state = "readWait" => drv.cur = 0
    /\ drv.state = "nextBlock" => ~drv.read /\ drv.cur = DataSectors

\* Sector k of the buffer is the one the game wrote for this block.
Tagged(k) == \E d \in disks : buf[k] = <<d, drv.track, drv.blk, k, n64.ver>>

\* The sectors the game has written so far are in the block buffer.
Filled ==
  drv.running /\ ~drv.read =>
    /\ Pend /\ drv.cur < DataSectors =>
         \E d \in disks : sec = <<d, drv.track, drv.blk, drv.cur, n64.ver>>
    /\ drv.state = "idle" /\ drv.cur < DataSectors =>
         \A k \in 0..drv.cur - 1 : buf[k] # Nothing /\ (~late => Tagged(k))
    /\ drv.state = "blockWrite" => \A k \in Index : buf[k] # Nothing /\ (~late => Tagged(k))

\* A request is in the slot; it, or one before it, is not answered.
Asked  == Len(slot) = 4
Outstanding == queue # <<>> \/ Asked
Oldest == IF queue # <<>> THEN Head(queue) ELSE slot

\* Who owes what: in a transfer that began with nothing owed there is at most
\* one request on its way, that for which the drive waits.
Owed ==
  /\ host # "idle" => queue # <<>>
  /\ sdMode => slot = Nothing /\ queue = <<>> /\ host = "idle" /\ ~late
  /\ Asked /\ ~slot[4] =>
       /\ queue = <<>>
       /\ drv.running => drv.state = "start" \/ (~late /\ drv.state \in {"readWait", "writeWait"})
  /\ ~late =>
       /\ Len(queue) <= 1 /\ (queue # <<>> => ~Asked)
       /\ Outstanding => ~Oldest[4]
       /\ reg.start \/ snap.start \/ n64.phase = "written" => ~Outstanding
       /\ drv.running /\ Outstanding =>
            /\ drv.state = (IF Oldest[1] THEN "readWait" ELSE "writeWait") /\ ~drv.ready
            /\ Oldest[2] = drv.track /\ Oldest[3] = drv.blk

\* A write request has a sector of its own block at every place, and only those
\* of a late transfer may be others.
InPlace(b, r) ==
  \A k \in Index :
    /\ b[k] # Nothing
    /\ ~r[4] => /\ b[k][2] = r[2] /\ b[k][3] = r[3] /\ b[k][4] = k
                /\ ~late => b[k][1] \in disks /\ b[k][5] = n64.ver

\* So it is of the buffer while the request is in the slot, then of its copy.
Sent ==
  /\ Asked /\ ~slot[1] => InPlace(buf, slot)
  /\ \A i \in 1..Len(queue) : ~queue[i][1] => InPlace(queue[i][5], queue[i])

\* The block buffer is the block, each sector as it is on a selected disk.
Loaded == \A k \in Index : \E d \in disks : buf[k] = medium[<<d, drv.track, drv.blk, k>>]

\* What a read has fetched stays what is on the disk.
Read ==
  drv.running /\ ~late =>
    /\ drv.state = "readWait" /\ ((drv.ready /\ drv.valid) \/ host = "done") => Loaded
    /\ drv.read /\ ~drv.err /\ (drv.state = "sectorRead" \/ (drv.state = "idle" /\ drv.cur <= DataSectors)) => Loaded
    /\ drv.read /\ drv.state = "idle" /\ drv.cur \in 1..DataSectors => sec = buf[drv.cur - 1]

\* The block is on the disk as the game wrote it.
Has(t, b) == \A k \in Index : medium[<<disk, t, b, k>>] = <<disk, t, b, k, n64.ver>>

\* The write is over, as the drive knows and then the game.
WriteEnd ==
  \/ n64.phase = "written"
  \/ n64.phase = "wait" /\ ~reg.start /\ ~n64.read /\ drv.state = "idle" /\ drv.cur = DataSectors /\ drv.running

\* A write that did not fail is on the disk from the answer on.
Wrote ==
  ~late /\ disks = {disk} =>
    /\ drv.running /\ drv.state = "writeWait" /\ ((drv.ready /\ drv.valid) \/ host = "done") => Has(drv.track, drv.blk)
    /\ drv.running /\ drv.state = "nextBlock" /\ ~failed => Has(drv.track, drv.blk)
    /\ WriteEnd /\ ~failed => Has(n64.track, n64.blk)

\* The two halves, each with the types it rests on.
ControlInv == ControlType /\ Noted /\ AtRest /\ InTransfer /\ Shaped
DataInv == WayType /\ DataType /\ Filled /\ Owed /\ Sent /\ Read /\ Wrote
DiskInv == ControlInv /\ DataInv
=============================================================================
