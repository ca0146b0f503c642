------------------------------- MODULE SdCard -------------------------------
(***************************************************************************)
(* The SD card driver, sw/controller/src/sd.c, with the card and with the  *)
(* timer that ends its waits (Timer.tla).                                  *)
(*                                                                         *)
(* The driver is synchronous: a request of a client runs through it step   *)
(* by step, one command to the card at a time ("at" says which), and only  *)
(* the user, the card and the timer act in between.  Clients hold the lock *)
(* (SaveWriteback.tla).  A command may not reach the card, its response    *)
(* may be lost, and a sector may go wrong on the way.                      *)
(*                                                                         *)
(* The card (external) follows the states of the SD specification; one     *)
(* that has just been put in is idle.  Addresses of the card (RCA), clock  *)
(* rates, the bus width and byte swapping are left out.                    *)
(*                                                                         *)
(* ident, stuck and faults are history: the card that was identified last, *)
(* whether the answer to a command that moves data got lost since, faults. *)
(***************************************************************************)
EXTENDS Timer, Sequences

CONSTANTS Cards,       \* cards of the user
          BlockCards,  \* those that are addressed by sector: SDHC
          Sector,      \* SD_SECTOR_SIZE
          LastSector,  \* of every card
          MaxBlocks,   \* DAT_BLOCK_MAX_COUNT
          InitMs, DataMs,     \* TIMEOUT_INIT_MS, TIMEOUT_DATA_MS
          Tables,      \* sector tables of the clients
          MaxFaults    \* faults, and cards put in or pulled out

ASSUME SdAssumption ==
  /\ BlockCards \subseteq Cards /\ Sector \in Nat \ {0, 1} /\ MaxBlocks \in Nat \ {0}
  /\ LastSector \in Nat /\ Tables \subseteq Seq(0..LastSector)
  /\ "sd" \in TimerId /\ {InitMs, DataMs} \subseteq Nat

Nothing == "nothing"
ASSUME NothingAssumption == Nothing \notin Cards

VARIABLES at, op, mem,           \* the driver, its request, the memory
          init, block, hcs,      \* struct process, the argument of ACMD41
          card, medium,          \* in the slot, on the cards
          ident, stuck, faults

driver == <<at, op, mem, init, block, hcs>>
sdVars == <<driver, card, medium, ident, stuck, faults, vars>>

\* What the cards hold is named afresh at every request.
Fresh  == [x \in Cards \X (0..LastSector) |-> x]
Empty  == [id |-> Nothing, state |-> "none", pos |-> 0, busy |-> FALSE]

SdInit ==
  /\ Init /\ at = "idle" /\ mem = <<>>
  /\ op = [kind |-> "none", table |-> <<>>, i |-> 1, run |-> 0, left |-> 0, bad |-> FALSE, result |-> "none"]
  /\ init = FALSE /\ block = FALSE /\ hcs = FALSE
  /\ card \in {Empty} \cup {[Empty EXCEPT !.id = c, !.state = "idle"] : c \in Cards}
  /\ medium = Fresh
  /\ ident = Nothing /\ stuck = FALSE /\ faults = 0

-----------------------------------------------------------------------------
\* Commands: the states in which a card takes them and where they lead.
Takes ==
  [cmd0  |-> {"idle", "ready", "ident", "stby", "tran", "data", "rcv"},
   cmd8  |-> {"idle"},  acmd41 |-> {"idle"}, cmd2  |-> {"ready"}, cmd3  |-> {"ident"},
   cmd7  |-> {"stby"},  acmd6  |-> {"tran"}, cmd6  |-> {"tran"},  desel |-> {"tran", "data"},
   cmd9  |-> {"stby"},  cmd10  |-> {"stby"}, again |-> {"stby"},
   cmd18 |-> {"tran"},  cmd25  |-> {"tran"}, cmd12 |-> {"data", "rcv"}]

Leads ==
  [cmd0  |-> "idle",  cmd8   |-> "idle", acmd41 |-> "ready", cmd2  |-> "ident", cmd3 |-> "stby",
   cmd7  |-> "tran",  acmd6  |-> "tran", cmd6   |-> "tran",  desel |-> "stby",
   cmd9  |-> "stby",  cmd10  |-> "stby", again  |-> "tran",
   cmd18 |-> "data",  cmd25  |-> "rcv",  cmd12  |-> "tran"]

Heard(cmd) == card.state \in Takes[cmd]

\* Bug: an old card is given sectors.
ArgumentBlock(s) == s

\* The argument of a data command is a sector or, without CCS, a byte; the card
\* takes it for what its own kind says.
Argument(s) == IF block THEN s ELSE s * Sector
Position(a) == IF card.id \in BlockCards THEN a ELSE a \div Sector

After(cmd, arg) ==
  [card EXCEPT !.state = Leads[cmd], !.pos = IF cmd \in {"cmd18", "cmd25"} THEN Position(arg) ELSE 0,
               !.busy = (cmd = "cmd12" /\ card.state = "rcv")]

\* sd_cmd: the command is answered (yes) or not (no).
Send(cmd, arg, yes, no) ==
  \/ /\ Heard(cmd) /\ card' = After(cmd, arg) /\ yes /\ UNCHANGED faults
  \/ /\ ~Heard(cmd) /\ UNCHANGED <<card, faults>> /\ no
  \/ /\ Heard(cmd) /\ faults < MaxFaults /\ faults' = faults + 1
     /\ card' \in {card, After(cmd, arg)} /\ no

\* Bug: a table is taken for one run.
RunFromAll(t, i) == Len(t) - i + 1

\* The neighbouring sectors from entry i of a table on.
RunFrom(t, i) ==
  CHOOSE n \in 1..Len(t) - i + 1 :
    /\ \A k \in i..i + n - 2 : t[k + 1] = t[k] + 1
    /\ i + n - 1 = Len(t) \/ t[i + n] # t[i + n - 1] + 1

Chunk == IF op.run > MaxBlocks THEN MaxBlocks ELSE op.run
Finish(result) == at' = "idle" /\ op' = [op EXCEPT !.result = result]
-----------------------------------------------------------------------------
\* Requests of the clients, with the error path of sd_card_init, which goes
\* through sd_card_deinit.
Request(kind, table) ==
  /\ at = "idle"
  /\ mem' = [k \in 1..Len(table) |-> IF kind = "write" THEN <<Nothing, k>> ELSE Nothing]
  /\ op' = [kind |-> kind, table |-> table, i |-> 1, run |-> 0, left |-> 0, bad |-> FALSE,
            result |-> "none"]
  /\ at' = CASE kind = "init"   -> IF init \/ card.id = Nothing THEN "idle" ELSE "cmd0"
             [] kind = "deinit" -> IF init THEN "deinit" ELSE "idle"
             [] OTHER           -> "run"
  /\ init' = (init \/ at' = "cmd0")
  /\ medium' = Fresh /\ UNCHANGED <<block, hcs, card, ident, stuck, faults, vars>>

Failing == at' = "deinit" /\ UNCHANGED <<op, mem, init, block, hcs, ident, stuck, vars>>
Passing(next) == at' = next /\ UNCHANGED <<op, mem, init, block, stuck>>

Reset ==
  /\ at = "cmd0"
  /\ LET go == Passing("cmd8") /\ UNCHANGED <<hcs, ident, vars>>
     IN  Send("cmd0", 0, go, go)
  /\ UNCHANGED medium

\* A card that does not answer CMD8 gets no HCS; then the wait of ACMD41.  One
\* that answers with another voltage or pattern is given up.
Voltage ==
  /\ at = "cmd8" /\ UNCHANGED medium
  /\ \/ LET go(h) == Passing("acmd41") /\ hcs' = h /\ Start("sd", InitMs) /\ UNCHANGED ident
        IN  Send("cmd8", 0, go(TRUE), go(FALSE))
     \/ /\ Heard("cmd8") /\ faults < MaxFaults /\ faults' = faults + 1
        /\ card' = After("cmd8", 0) /\ Failing

\* Bug: the wait has no timeout.
PowerUpForever ==
  /\ at = "acmd41" /\ UNCHANGED medium
  /\ \/ /\ card.id \in BlockCards => hcs
        /\ Send("acmd41", 0,
                /\ at' = "cmd2" /\ block' = (card.id \in BlockCards)
                /\ UNCHANGED <<op, mem, init, hcs, ident, stuck, vars>>,
                Failing)
     \/ Heard("acmd41") /\ UNCHANGED <<driver, card, ident, stuck, faults, vars>>

\* The card is busy until it has powered up; an SDHC card for ever without HCS.
PowerUp ==
  /\ at = "acmd41" /\ UNCHANGED medium
  /\ \/ Elapsed("sd") /\ Failing /\ UNCHANGED <<card, faults>>
     \/ /\ ~Elapsed("sd") /\ card.id \in BlockCards => hcs
        /\ Send("acmd41", 0,
                /\ at' = "cmd2" /\ block' = (card.id \in BlockCards)
                /\ UNCHANGED <<op, mem, init, hcs, ident, stuck, vars>>,
                Failing)
     \/ /\ ~Elapsed("sd") /\ Heard("acmd41")
        /\ UNCHANGED <<driver, card, ident, stuck, faults, vars>>

Order == [cmd2 |-> "cmd3", cmd3 |-> "cmd7", cmd7 |-> "acmd6", acmd6 |-> "check",
          cmd9 |-> "cmd10", cmd10 |-> "again", again |-> "idle"]

\* The commands that must be answered; CMD3 names the card, the last CMD7 ends
\* the initialization.
Identify ==
  /\ at \in DOMAIN Order
  /\ Send(at, 0,
          /\ at' = Order[at] /\ op' = IF at = "again" THEN [op EXCEPT !.result = "ok"] ELSE op
          /\ ident' = IF at = "cmd3" THEN card.id ELSE ident
          /\ stuck' = (stuck /\ at # "again")
          /\ UNCHANGED <<mem, init, block, hcs, vars>>,
          Failing)
  /\ UNCHANGED medium

\* sd_cmd6, for the check and for the switch to high speed, with its block of
\* data; a card that does not know the command goes on at its speed.
Speed ==
  /\ at \in {"check", "switch"} /\ UNCHANGED medium
  /\ \/ \E next \in {"desel"} \cup IF at = "check" THEN {"switch"} ELSE {} :
          Send("cmd6", 0, Passing(next) /\ UNCHANGED <<hcs, ident, vars>>, Failing)
     \/ /\ Heard("cmd6") /\ faults < MaxFaults /\ faults' = faults + 1
        /\ Failing /\ UNCHANGED card

\* CMD7 to no card has no response.
Deselect ==
  /\ at = "desel"
  /\ LET go == Passing("cmd9") /\ UNCHANGED <<hcs, ident, vars>>
     IN  Send("desel", 0, go, go)
  /\ UNCHANGED medium

\* sd_card_deinit
Deinit ==
  /\ at = "deinit" /\ init' = FALSE /\ block' = FALSE
  /\ LET go == Finish(IF op.kind = "deinit" THEN "ok" ELSE "error")
               /\ UNCHANGED <<mem, hcs, ident, stuck, vars>>
     IN  Send("cmd0", 0, go, go)
  /\ UNCHANGED medium

\* sd_process
Poll ==
  /\ at = "idle" /\ init /\ card.id = Nothing /\ at' = "deinit"
  /\ op' = [op EXCEPT !.kind = "deinit"]
  /\ UNCHANGED <<mem, init, block, hcs, card, medium, ident, stuck, faults, vars>>

-----------------------------------------------------------------------------
\* sd_optimize_sectors: the next run of the table, through sd_read_sectors or
\* sd_write_sectors.
NextRun ==
  /\ at = "run"
  /\ \/ op.i > Len(op.table) /\ Finish(IF op.table = <<>> THEN "error" ELSE "ok")
     \/ /\ op.i <= Len(op.table) /\ (op.table[op.i] = 0 \/ ~init) /\ Finish("error")
     \/ /\ op.i <= Len(op.table) /\ op.table[op.i] # 0 /\ init
        /\ op' = [op EXCEPT !.run = RunFrom(op.table, op.i)]
        /\ at' = IF op.kind = "read" THEN "cmd18" ELSE "cmd25"
  /\ UNCHANGED <<mem, init, block, hcs, card, medium, ident, stuck, faults, vars>>

\* CMD18 or CMD25 for a chunk; without an answer there is no CMD12.
Adrift == stuck' = (stuck \/ card'.state \in {"data", "rcv"})

BeginChunk ==
  /\ at \in {"cmd18", "cmd25"} /\ UNCHANGED <<mem, init, block, hcs, medium, ident>>
  /\ Send(at, Argument(op.table[op.i]),
          /\ op' = [op EXCEPT !.left = Chunk, !.bad = FALSE] /\ at' = "sync"
          /\ Start("sd", DataMs) /\ UNCHANGED stuck,
          Finish("error") /\ Adrift /\ UNCHANGED vars)

\* A sector goes between the card and the memory.
MoveSector ==
  /\ at = "sync" /\ op.left > 0 /\ card.pos <= LastSector
  /\ card.state = (IF op.kind = "read" THEN "data" ELSE "rcv")
  /\ \E good \in BOOLEAN :
       /\ IF good THEN UNCHANGED faults ELSE faults < MaxFaults /\ faults' = faults + 1
       /\ op' = [op EXCEPT !.i = @ + 1, !.run = @ - 1, !.left = @ - 1, !.bad = @ \/ ~good]
       /\ mem' = IF op.kind = "read" /\ good
                   THEN [mem EXCEPT ![op.i] = medium[<<card.id, card.pos>>]] ELSE mem
       /\ medium' = IF op.kind = "write" /\ good
                      THEN [medium EXCEPT ![<<card.id, card.pos>>] = mem[op.i]] ELSE medium
  /\ card' = [card EXCEPT !.pos = @ + 1]
  /\ UNCHANGED <<at, init, block, hcs, ident, stuck, vars>>

\* Bug: a wait that ends in a timeout leaves the card in the transfer.
SyncEndsAbort ==
  /\ at = "sync" /\ (op.left = 0 \/ Elapsed("sd"))
  /\ IF op.left = 0 THEN at' = "cmd12" /\ UNCHANGED op ELSE Finish("error")
  /\ UNCHANGED <<mem, init, block, hcs, card, medium, ident, stuck, faults, vars>>

\* sd_sync returns, then CMD12 and, as long as the card is busy, a wait that no
\* timer ends.
SyncEnds ==
  /\ at = "sync" /\ at' = "cmd12"
  /\ \/ op.left = 0 /\ UNCHANGED op
     \/ op.left > 0 /\ Elapsed("sd") /\ op' = [op EXCEPT !.left = 0, !.bad = TRUE]
  /\ UNCHANGED <<mem, init, block, hcs, card, medium, ident, stuck, faults, vars>>

StopTransfer ==
  /\ at = "cmd12"
  /\ LET go == at' = "busy" /\ Adrift
     IN  Send("cmd12", 0, go, go)
  /\ UNCHANGED <<op, mem, init, block, hcs, medium, ident, vars>>

EndChunk ==
  /\ at = "busy" /\ ~card.busy
  /\ IF op.bad THEN Finish("error")
     ELSE /\ UNCHANGED op
          /\ at' = IF op.run = 0 THEN "run" ELSE IF op.kind = "read" THEN "cmd18" ELSE "cmd25"
  /\ UNCHANGED <<mem, init, block, hcs, card, medium, ident, stuck, faults, vars>>

-----------------------------------------------------------------------------
\* The card, the user, and the timers.
Programmed ==
  /\ card.busy /\ card' = [card EXCEPT !.busy = FALSE]
  /\ UNCHANGED <<driver, medium, ident, stuck, faults, vars>>

Move ==
  /\ faults < MaxFaults /\ faults' = faults + 1
  /\ \/ card.id # Nothing /\ card' = Empty /\ UNCHANGED stuck
     \/ /\ card.id = Nothing /\ stuck' = (stuck \/ init)
        /\ \E c \in Cards : card' = [Empty EXCEPT !.id = c, !.state = "idle"]
  /\ UNCHANGED <<driver, medium, ident, vars>>

Timers ==
  /\ \/ Tick
     \/ \E id \in TimerId \ {"sd"} :
          IF running[id] THEN Abort(id) ELSE \E ms \in Durations : Start(id, ms)
  /\ UNCHANGED <<driver, card, medium, ident, stuck, faults>>

Step ==
  \/ Reset \/ Voltage \/ Identify \/ Speed \/ Deselect \/ Deinit
  \/ NextRun \/ BeginChunk \/ SyncEnds \/ StopTransfer \/ EndChunk

SdNext ==
  \/ \E kind \in {"init", "deinit"} : Request(kind, <<>>)
  \/ \E kind \in {"read", "write"}, t \in Tables : Request(kind, t)
  \/ Step \/ PowerUp \/ Poll \/ MoveSector \/ Programmed \/ Move \/ Timers

\* Nothing is asked of a card but that it ends its busy time.
SdSpec ==
  /\ SdInit /\ [][SdNext]_sdVars
  /\ WF_sdVars(Step \/ (PowerUp /\ Elapsed("sd")))
  /\ WF_sdVars(Timers /\ Tick) /\ WF_sdVars(Programmed)

-----------------------------------------------------------------------------
\* Entry k of the first n is not written over by a later one.
Lasting(k, n) == op.kind = "write" => \A j \in k+1..n : op.table[j] # op.table[k]

\* After a request that succeeds, every sector of its table is the same in its
\* place in the memory and on the card that was identified, whatever the kind
\* of the card, its chunks and its gaps; when a table to be written names a
\* sector twice, the last one counts (sd.c:533-629).
TransfersAreRight ==
  op.result = "ok" /\ op.kind \in {"read", "write"} =>
    \A k \in 1..Len(op.table) :
      Lasting(k, Len(op.table)) => mem[k] = medium[<<ident, op.table[k]>>]

\* Whatever is lost and whichever card is put in meanwhile, no sector is
\* written but those of the table, on the card that was identified.
OnlyTheTableIsWritten ==
  [][\A x \in DOMAIN medium :
       at # "idle" /\ medium'[x] # medium[x] =>
         /\ op.kind = "write" /\ x[1] = ident
         /\ \E k \in 1..Len(op.table) : x[2] = op.table[k]]_sdVars

\* Between two requests an initialized card is ready for data, also after a
\* request that failed, unless it was changed or the answer to one of CMD18,
\* CMD25 and CMD12 got lost: nothing brings it back then (sd.c:547-556).
CardIsSelected ==
  at = "idle" /\ init /\ ~stuck /\ card.id # Nothing =>
    card.id = ident /\ card.state = "tran" /\ ~card.busy

\* Every request comes to an end, whatever the card answers: the waits for it
\* end in a timeout, except for its busy time (sd.c:152-156).
RequestsEnd == at # "idle" ~> at = "idle"
=============================================================================
