------------------------------- MODULE Update -------------------------------
(***************************************************************************)
(* The firmware update: commands 'f' and 'F' of sw/controller/src/usb.c,   *)
(* update.c that they call, the reset and the loader that carry the update *)
(* over, and the programming of the three chips, with the host of the PC   *)
(* tool at one end of the USB FIFO and a game that writes to the cartridge *)
(* at any time.  The power may fail at any step.                           *)
(*                                                                         *)
(* An image is a version.  A chip is programmed block by block, and a      *)
(* block may be erased or "bad", when it did not take its data.  A chunk   *)
(* of the file has the image its checksum was made from, "sum", and the    *)
(* one that is in memory now, "img", which is Junk after the game wrote to *)
(* it.  "ragged" chunks have a length the FPGA's pages do not divide,      *)
(* "long" ones do not fit into their chip.                                 *)
(***************************************************************************)
EXTENDS Naturals, Sequences, FiniteSets, SequencesExt, FiniteSetsExt

CONSTANTS
  Versions,      \* images there are
  Old,           \* the one the board starts with
  Files,         \* update files of the host
  Blocks,        \* blocks of each chip
  Rooms,         \* status packets the USB FIFO may have room for
  MaxFaults,     \* operations of the chips that fail
  MaxUpdates,    \* update commands the host sends
  MaxWrites      \* times the game writes to the file

ASSUME UpdateAssumption ==
  /\ Blocks \in Nat \ {0} /\ MaxFaults \in Nat /\ MaxUpdates \in Nat /\ MaxWrites \in Nat
  /\ Rooms \subseteq Nat \ {0}

\* The chips in the order of update_perform, as the status packets name them.
Parts == <<"mcu", "fpga", "bootloader">>
Part  == ToSet(Parts)
Junk  == "junk"
Cells == 1..Blocks
Image == Versions \cup {Junk, "erased", "bad"}

\* A chunk, and a file in the memory of the cartridge.
Chunks == [id : Part \cup {"info", "unknown"}, sum : Image, img : Image,
           size : {"fine", "ragged", "long"}]
File   == [token : BOOLEAN, chunks : Seq(Chunks)]

ASSUME ImagesAssumption == Old \in Versions /\ Files \subseteq File

VARIABLES
  chip,          \* what each block of each chip holds
  file,          \* the file in memory
  writable,      \* CFG_SCR_ROM_WRITE_ENABLED
  response,      \* the response to 'F' that update_start is the callback of
  params, tamp,  \* update.c's parameters, and the copy that survives a reset
  at, part, block,   \* where the controller is
  sent, room, told,  \* status packets in the FIFO, its room, the last one read
  gone,          \* the host has stopped reading
  checked,       \* images update_prepare accepted, per part
  disturbed,     \* a command of the game got at the memory since then
  broken,        \* chips that were not whole when the update was asked for
  faults, updates, writes

hostVars == <<sent, room, told, gone>>
runVars  == <<at, part, block>>
history  == <<checked, disturbed, broken>>
counts   == <<faults, updates, writes>>
updVars  == <<chip, file, writable, response, params, tamp, runVars, hostVars, history, counts>>

NoFile     == [token |-> FALSE, chunks |-> <<>>]
NoParams   == [p \in Part |-> 0]
NoTamp     == [magic |-> FALSE, chunks |-> NoParams]
Tamp(c)    == [magic |-> TRUE, chunks |-> c]
NothingYet == [p \in Part |-> "none"]

\* Every block of the chip holds v.
Holds(p, v) == \A b \in Cells : chip[p][b] = v
Whole(p)    == chip[p][1] \notin {"erased", "bad", Junk} /\ Holds(p, chip[p][1])

UpdInit ==
  /\ chip = [p \in Part |-> [b \in Cells |-> Old]]
  /\ file = NoFile /\ writable = FALSE /\ response = "none"
  /\ params = NoParams /\ tamp = NoTamp
  /\ at = "app" /\ part = 0 /\ block = 0
  /\ sent = <<>> /\ room = 0 /\ told = "none" /\ gone = FALSE
  /\ checked = NothingYet /\ disturbed = FALSE /\ broken = {}
  /\ faults = 0 /\ updates = 0 /\ writes = 0

-----------------------------------------------------------------------------
(* The application.                                                         *)

Turn == at = "app" /\ response = "none"

\* The host resets the state and writes a file into memory.
LoadFile(f) ==
  /\ Turn /\ ~gone /\ file' = f /\ writable' = FALSE
  /\ UNCHANGED <<chip, response, params, tamp, runVars, hostVars, history, counts>>

Chunk(p, v) == [id |-> p, sum |-> v, img |-> v, size |-> "fine"]

\* 'f', update_backup, of a board whose chips are whole: they are read into
\* memory as a file, unless the FPGA does not open its flash.
Backup ==
  /\ Turn /\ ~gone /\ writable' = FALSE
  /\ \A p \in Part : Whole(p)
  /\ \/ /\ file' = [token |-> TRUE, chunks |-> [i \in 1..3 |-> Chunk(Parts[i], chip[Parts[i]][1])]]
        /\ UNCHANGED faults
     \/ /\ faults < MaxFaults /\ faults' = faults + 1
        /\ file' = [token |-> TRUE, chunks |-> <<Chunk("mcu", chip["mcu"][1]),
                                                 [Chunk("fpga", Junk) EXCEPT !.sum = Old]>>]
  /\ UNCHANGED <<chip, response, params, tamp, runVars, hostVars, history, updates, writes>>

Refused(c) ==
  \/ c.sum # c.img \/ c.id = "unknown"
  \/ c.id \in Part /\ c.size = "long"

\* update_prepare goes through the chunks up to the first one it refuses; of
\* two chunks for one chip it takes the second.
Read     == IF \E i \in DOMAIN file.chunks : Refused(file.chunks[i])
            THEN Min({i \in DOMAIN file.chunks : Refused(file.chunks[i])}) - 1
            ELSE Len(file.chunks)
Found(p) == Max({i \in 1..Read : file.chunks[i].id = p} \cup {0})
Accepted == file.token /\ Read = Len(file.chunks)

\* Bug: the game may go on writing to the file that was checked.
UpdateCommandOpen ==
  /\ Turn /\ ~gone /\ updates < MaxUpdates /\ updates' = updates + 1
  /\ disturbed' = FALSE /\ told' = "none"
  /\ params' = IF file.token THEN [p \in Part |-> Found(p)] ELSE params
  /\ response' = IF Accepted THEN "pending" ELSE "none"
  /\ checked' = [p \in Part |-> IF Accepted /\ Found(p) # 0 THEN file.chunks[Found(p)].sum ELSE "none"]
  /\ broken' = {p \in Part : ~Whole(p)}
  /\ UNCHANGED <<chip, file, writable, tamp, runVars, sent, room, gone, faults, writes>>

\* 'F'.  A range outside of the memory is refused before the parameters change,
\* as is a file without its token, for which it stands as well.
UpdateCommand ==
  /\ Turn /\ ~gone /\ updates < MaxUpdates /\ updates' = updates + 1
  /\ writable' = FALSE /\ disturbed' = FALSE /\ told' = "none"
  /\ params' = IF file.token THEN [p \in Part |-> Found(p)] ELSE params
  /\ response' = IF Accepted THEN "pending" ELSE "none"
  /\ checked' = [p \in Part |-> IF Accepted /\ Found(p) # 0 THEN file.chunks[Found(p)].sum ELSE "none"]
  /\ broken' = {p \in Part : ~Whole(p)}
  /\ UNCHANGED <<chip, file, tamp, runVars, sent, room, gone, faults, writes>>

\* usb_tx_process takes the response when it has sent what came before.
SendResponse ==
  /\ at = "app" /\ response = "pending" /\ response' = "sending"
  /\ UNCHANGED <<chip, file, writable, params, tamp, runVars, hostVars, history, counts>>

\* update_start, called when the response has been sent, or by
\* usb_flush_packet when the link is lost meanwhile.
UpdateStart ==
  /\ at = "app" /\ response = "sending" /\ response' = "none"
  /\ tamp' = Tamp(params) /\ params' = NoParams
  /\ at' = "loader" /\ room' \in Rooms
  /\ UNCHANGED <<chip, file, writable, part, block, sent, told, gone, history, counts>>

\* A reset of the link drops a response that is not being sent yet.
LinkLost ==
  /\ at = "app" /\ response = "pending" /\ response' = "none"
  /\ UNCHANGED <<chip, file, writable, params, tamp, runVars, hostVars, history, counts>>

\* The game sets ROM_WRITE_ENABLE through cfg_process.
GameOpens ==
  /\ at = "app" /\ ~writable /\ writable' = TRUE /\ disturbed' = TRUE
  /\ UNCHANGED <<chip, file, response, params, tamp, runVars, hostVars, checked, broken, counts>>

Spoil(i) ==
  /\ writes < MaxWrites /\ writes' = writes + 1
  /\ file' = [file EXCEPT !.chunks[i].img = Junk]

\* Or has the controller read the SD card into memory.
GameLoads(i) ==
  /\ at = "app" /\ Spoil(i) /\ disturbed' = TRUE
  /\ UNCHANGED <<chip, writable, response, params, tamp, runVars, hostVars, checked, broken,
                 faults, updates>>

\* Or writes to the cartridge itself, at any time.
GameWrites(i) ==
  /\ at # "off" /\ writable /\ Spoil(i)
  /\ UNCHANGED <<chip, writable, response, params, tamp, runVars, hostVars, history, faults, updates>>

-----------------------------------------------------------------------------
(* The loader.                                                              *)

\* update_check takes the parameters out of the registers that survive a
\* reset; without an update the application is started, if it is there.  It
\* waits forever for an FPGA that has no configuration.
Loader ==
  /\ at = "loader" /\ tamp' = NoTamp
  /\ IF tamp.magic THEN at' = "next" /\ part' = 1 /\ params' = tamp.chunks
     ELSE /\ at' = IF Whole("mcu") /\ Whole("fpga") THEN "app" ELSE "dead"
          /\ UNCHANGED <<part, params>>
  /\ UNCHANGED <<chip, file, writable, response, block, hostVars, history, counts>>

This    == Parts[part]
Source  == file.chunks[params[This]]
Data    == Source.img

\* update_perform: a part that is not in the file is left out.
Skip ==
  /\ at = "next" /\ part <= 3 /\ params[This] = 0 /\ part' = part + 1
  /\ UNCHANGED <<chip, file, writable, response, params, tamp, at, block, hostVars, history, counts>>

\* Bug: it waits until the FIFO is empty.
NotifyEmpty(status, then) ==
  /\ sent = <<>> /\ sent' = Append(sent, status) /\ at' = then
  /\ UNCHANGED <<chip, file, writable, response, params, tamp, part, block, room, told, gone,
                 history, counts>>

\* update_status_notify waits for room in the FIFO.
Notify(status, then) ==
  /\ Len(sent) < room /\ sent' = Append(sent, status) /\ at' = then
  /\ UNCHANGED <<chip, file, writable, response, params, tamp, part, block, room, told, gone,
                 history, counts>>

NotifyPart  == at = "next" /\ part <= 3 /\ params[This] # 0 /\ Notify(This, "erase")
NotifyDone  == at = "next" /\ part = 4 /\ Notify("done", "reconfigure")
NotifyError == at = "fail" /\ Notify("error", "halt")

Fault == faults < MaxFaults /\ faults' = faults + 1

\* vendor_update looks at the length first, and takes 0 for one that is ragged; its enable or its erase may fail.
EraseFails ==
  /\ at = "erase" /\ This = "fpga" /\ at' = "fail"
  /\ \/ Source.size = "ragged" /\ UNCHANGED <<chip, faults>>
     \/ /\ Source.size # "ragged" /\ Fault
        /\ \/ UNCHANGED chip
           \/ chip' = [chip EXCEPT ![This] = [b \in Cells |-> "bad"]]
  /\ UNCHANGED <<file, writable, response, params, tamp, part, block, hostVars, history, updates, writes>>

Erase ==
  /\ at = "erase" /\ (This = "fpga" => Source.size # "ragged")
  /\ chip' = [chip EXCEPT ![This] = [b \in Cells |-> "erased"]]
  /\ at' = "program" /\ block' = 1
  /\ UNCHANGED <<file, writable, response, params, tamp, part, hostVars, history, counts>>

Write(v) == chip' = [chip EXCEPT ![This][block] = v]

\* The block is programmed; the last one of the MCU ends its update, the other
\* chips are verified then.
ProgramBlock ==
  /\ at = "program" /\ Write(Data)
  /\ IF block < Blocks THEN block' = block + 1 /\ UNCHANGED <<at, part>>
     ELSE /\ block' = 0
          /\ IF This = "mcu" THEN at' = "next" /\ part' = part + 1
             ELSE at' = "verify" /\ UNCHANGED part
  /\ UNCHANGED <<file, writable, response, params, tamp, hostVars, history, counts>>

\* Bug: the words of the MCU are not read back.
ProgramBlockFailsUnseen ==
  /\ at = "program" /\ Fault /\ Write("bad")
  /\ IF block < Blocks THEN block' = block + 1 /\ UNCHANGED <<at, part>>
     ELSE /\ block' = 0
          /\ IF This = "mcu" THEN at' = "next" /\ part' = part + 1
             ELSE at' = "verify" /\ UNCHANGED part
  /\ UNCHANGED <<file, writable, response, params, tamp, hostVars, history, updates, writes>>

\* The block does not take its data.  mcu_update reads every word back, the
\* FPGA may say so in its status; else it is for the verification to find.
ProgramBlockFails ==
  /\ at = "program" /\ Fault /\ Write("bad")
  /\ \/ This \in {"mcu", "fpga"} /\ at' = "fail" /\ UNCHANGED block
     \/ /\ This # "mcu"
        /\ IF block < Blocks THEN block' = block + 1 /\ UNCHANGED at
           ELSE block' = 0 /\ at' = "verify"
  /\ UNCHANGED <<file, writable, response, params, tamp, part, hostVars, history, updates, writes>>

Verify ==
  /\ at = "verify"
  /\ IF Holds(This, Data) THEN at' = "next" /\ part' = part + 1 ELSE at' = "fail" /\ UNCHANGED part
  /\ UNCHANGED <<chip, file, writable, response, params, tamp, block, hostVars, history, counts>>

\* vendor_reconfigure: the FPGA starts again, without what was in its FIFO, its
\* registers and its memory; then hw_reset with no magic.
Reconfigure ==
  /\ at = "reconfigure" /\ at' = "loader" /\ part' = 0
  /\ file' = NoFile /\ writable' = FALSE /\ sent' = <<>> /\ room' = 0
  /\ tamp' = [NoTamp EXCEPT !.chunks = params]
  /\ UNCHANGED <<chip, response, params, block, told, gone, history, counts>>

\* The host of the next start is another run of the tool.
PowerFails ==
  /\ at # "off" /\ at' = "off" /\ part' = 0 /\ block' = 0
  /\ file' = NoFile /\ writable' = FALSE /\ response' = "none" /\ params' = NoParams
  /\ tamp' = NoTamp /\ sent' = <<>> /\ room' = 0 /\ gone' = FALSE
  /\ UNCHANGED <<chip, told, history, counts>>

\* An MCU that was erased has no loader either.
PowerReturns ==
  /\ at = "off" /\ at' = IF chip["mcu"][1] \in {"erased", "bad", Junk} THEN "dead" ELSE "loader"
  /\ UNCHANGED <<chip, file, writable, response, params, tamp, part, block, hostVars, history, counts>>

-----------------------------------------------------------------------------
(* The host, update_firmware of the PC tool.                                *)

HostReads ==
  /\ ~gone /\ sent # <<>> /\ told' = Head(sent) /\ sent' = Tail(sent)
  /\ UNCHANGED <<chip, file, writable, response, params, tamp, runVars, room, gone, history, counts>>

HostLeaves ==
  /\ at \notin {"app", "off", "dead"} /\ ~gone /\ gone' = TRUE
  /\ UNCHANGED <<chip, file, writable, response, params, tamp, runVars, sent, room, told, history, counts>>

Perform ==
  \/ Loader \/ Skip \/ NotifyPart \/ NotifyDone \/ NotifyError
  \/ Erase \/ EraseFails \/ ProgramBlock \/ ProgramBlockFails \/ Verify \/ Reconfigure

App ==
  \/ \E f \in Files : LoadFile(f)
  \/ Backup \/ UpdateCommand \/ SendResponse \/ UpdateStart \/ LinkLost \/ GameOpens
  \/ \E i \in DOMAIN file.chunks : GameLoads(i)

UpdNext ==
  \/ App \/ Perform \/ PowerFails \/ PowerReturns \/ HostReads \/ HostLeaves
  \/ \E i \in DOMAIN file.chunks : GameWrites(i)

UpdSpec == UpdInit /\ [][UpdNext]_updVars

\* The loader runs on, and the host reads until it leaves.
UpdFairness == WF_updVars(Perform) /\ WF_updVars(HostReads)

-----------------------------------------------------------------------------
UpdTypeOK ==
  /\ chip \in [Part -> [Cells -> Image]] /\ file \in File /\ writable \in BOOLEAN
  /\ response \in {"none", "pending", "sending"}
  /\ params \in [Part -> Nat] /\ tamp \in [magic : BOOLEAN, chunks : [Part -> Nat]]
  /\ at \in {"app", "loader", "next", "erase", "program", "verify", "fail", "halt",
            "reconfigure", "dead", "off"}
  /\ part \in 0..4 /\ block \in 0..Blocks
  /\ (at \in {"erase", "program", "verify", "fail"} => part \in 1..3)
  /\ (at = "next" => part \in 1..4) /\ (at = "program" => block # 0)
  /\ sent \in Seq(Part \cup {"done", "error"}) /\ room \in Nat /\ gone \in BOOLEAN
  /\ told \in Part \cup {"done", "error", "none"}
  /\ checked \in [Part -> Image \cup {"none"}] /\ disturbed \in BOOLEAN /\ broken \subseteq Part
  /\ faults \in 0..MaxFaults /\ updates \in 0..MaxUpdates /\ writes \in 0..MaxWrites

\* An update breaks one chip at a time: it goes to the next one only when the
\* chips before hold what the file has for them, so that whatever fails, and
\* whenever, one chip is to be repaired at most (update.c:293-336).
OneAtRisk ==
  ~disturbed => \A i, j \in 1..3 :
    /\ i < j /\ ~Whole(Parts[j]) /\ Parts[j] \notin broken /\ checked[Parts[i]] # "none"
    => Holds(Parts[i], checked[Parts[i]])

\* When the host reads that the update is done, every chip holds the image
\* that was checked, whatever the game wrote meanwhile and whichever blocks
\* failed (usb.c:547-558, update.c:159-196, 225-336, lcmxo2.c:287-335).
DoneIsTrue ==
  told = "done" /\ ~disturbed =>
    \A p \in Part : checked[p] # "none" => Holds(p, checked[p])

Performing == at \in {"next", "erase", "program", "verify", "fail", "reconfigure"}

\* An update ends, done or with an error, also without a host that reads,
\* unless the FIFO then has no room for the status packets (update.c:135-150).
UpdateEnds == Performing ~> ~Performing \/ (gone /\ Len(sent) = room)
=============================================================================
