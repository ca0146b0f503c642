----------------------------- MODULE LoopProofs -----------------------------
(***************************************************************************)
(* Proofs about what the main loop calls in every turn: Timer.tla, for     *)
(* every set of timers and of durations; SdCard.tla, whose waits the       *)
(* timers end, for any cards, tables, sizes of chunks and faults; Isv.tla, *)
(* for any buffers, text and losses of the link.  The invariant of the     *)
(* timers is TypeOK /\ Countdown: the value of a running timer is exactly  *)
(* what is left of its duration.  SdInv and IsvInv come with their parts.  *)
(***************************************************************************)
EXTENDS SdCard, Isv, TLAPS, WellFoundedInduction

Inv == TypeOK /\ Countdown

\* Rounding up: PeriodsFor(ms) periods cover ms milliseconds, one less does
\* not (timer.c:36).
LEMMA PeriodsForBounds ==
  ASSUME NEW ms \in Nat, ms > 0
  PROVE  /\ PeriodsFor(ms) \in Nat
         /\ PeriodsFor(ms) > 0
         /\ PeriodsFor(ms) * PeriodMs >= ms
         /\ (PeriodsFor(ms) - 1) * PeriodMs < ms
BY SMT DEF PeriodsFor, PeriodMs

\* A tick leaves a natural number, one less unless it was 0 (timer.c:21-23).
LEMMA CountedNat ==
  ASSUME NEW v \in Nat
  PROVE  Counted(v) \in Nat /\ (v > 0 => Counted(v) = v - 1) /\ (v = 0 => Counted(v) = 0)
BY DEF Counted

\* One lemma per action: each keeps the invariant.
LEMMA StartStep ==
  ASSUME Inv, NEW id \in TimerId, NEW ms \in Nat, Start(id, ms)
  PROVE  Inv'
<1>1. CASE ~(ms > 0)
  BY <1>1 DEF Start, vars, Inv, TypeOK, Countdown
<1>2. CASE ms > 0
  <2>1. ms \in Nat /\ PeriodsFor(ms) \in Nat /\ PeriodsFor(ms) > 0
    BY <1>2, PeriodsForBounds
  <2>2. TypeOK'
    <3>1. pending' \in [TimerId -> BOOLEAN] /\ running' \in [TimerId -> BOOLEAN]
      BY <1>2, Zenon DEF Start, Inv, TypeOK
    <3>2. value' \in [TimerId -> Nat] /\ asked' \in [TimerId -> Nat] /\ ticks' \in [TimerId -> Nat]
      BY <1>2, <2>1 DEF Start, Inv, TypeOK
    <3>3. QED BY <3>1, <3>2 DEF TypeOK
  <2>3. Countdown'
    BY <1>2, <2>1 DEF Start, Inv, TypeOK, Countdown
  <2>4. QED BY <2>2, <2>3 DEF Inv
<1>3. QED BY <1>1, <1>2

LEMMA AbortStep ==
  ASSUME Inv, NEW id \in TimerId, Abort(id)
  PROVE  Inv'
<1>1. TypeOK'    BY DEF Abort, Inv, TypeOK
<1>2. Countdown' BY DEF Abort, Inv, TypeOK, Countdown
<1>3. QED        BY <1>1, <1>2 DEF Inv

LEMMA TickStep ==
  ASSUME Inv, Tick
  PROVE  Inv'
<1>1. TypeOK'
  BY CountedNat DEF Tick, StillRunning, Inv, TypeOK
<1>2. ASSUME NEW id \in TimerId
      PROVE  /\ running'[id] => /\ value'[id] = IF ticks'[id] < PeriodsFor(asked'[id])
                                                  THEN PeriodsFor(asked'[id]) - ticks'[id] ELSE 0
                                /\ asked'[id] > 0
                                /\ pending'[id] <=> ticks'[id] = 0
                                /\ ticks'[id] >= 2 => value'[id] > 0
             /\ ~running'[id] => value'[id] = 0 /\ ~pending'[id]
  <2> DEFINE n == PeriodsFor(asked[id])
  <2>1. /\ value[id] \in Nat /\ ticks[id] \in Nat /\ asked[id] \in Nat
        /\ asked'[id] = asked[id]
        /\ value'[id] = Counted(value[id])
        /\ running'[id] = StillRunning(id)
        /\ pending'[id] = FALSE
        /\ ticks'[id] = IF running[id] THEN ticks[id] + 1 ELSE ticks[id]
    BY DEF Tick, Inv, TypeOK
  <2>2. CASE ~running[id]
    BY <2>1, <2>2, CountedNat DEF StillRunning, Inv, Countdown
  <2>3. CASE running[id]
    <3>1. /\ value[id] = IF ticks[id] < n THEN n - ticks[id] ELSE 0
          /\ asked[id] > 0
          /\ pending[id] <=> ticks[id] = 0
          /\ ticks[id] >= 2 => value[id] > 0
      BY <2>3 DEF Inv, Countdown
    <3>2. n \in Nat /\ n > 0
      BY <2>1, <3>1, PeriodsForBounds
    <3>3. Counted(value[id]) = IF ticks[id] + 1 < n THEN n - (ticks[id] + 1) ELSE 0
      BY <2>1, <3>1, <3>2, CountedNat
    <3>4. running'[id] => (pending[id] \/ Counted(value[id]) > 0)
      BY <2>1 DEF StillRunning
    <3>5. ~running'[id] => Counted(value[id]) = 0
      <4>1. ~running'[id] => ~(Counted(value[id]) > 0)
        BY <2>1, <2>3, Zenon DEF StillRunning
      <4>2. QED BY <2>1, <4>1, CountedNat
    <3>6. QED
      BY <2>1, <2>3, <3>1, <3>2, <3>3, <3>4, <3>5
  <2>4. QED BY <2>2, <2>3
<1>3. Countdown' BY <1>2 DEF Countdown
<1>4. QED        BY <1>1, <1>3 DEF Inv

\* Every state of the timers is well typed, and the value of a running timer
\* is what is left of the duration it was started with.
THEOREM CountdownCorrect == Spec => [](TypeOK /\ Countdown)
<1>1. Init => Inv
  BY DEF Init, Inv, TypeOK, Countdown
<1>2. Inv /\ [Next]_vars => Inv'
  <2> SUFFICES ASSUME Inv, [Next]_vars PROVE Inv'
    OBVIOUS
  <2>1. ASSUME NEW id \in TimerId, NEW ms \in Durations, Start(id, ms) PROVE Inv'
    BY <2>1, StartStep, DurationsAssumption
  <2>2. ASSUME NEW id \in TimerId, Abort(id) PROVE Inv'
    BY <2>2, AbortStep
  <2>3. CASE Tick
    BY <2>3, TickStep
  <2>4. CASE UNCHANGED vars
    BY <2>4 DEF vars, Inv, TypeOK, Countdown
  <2>5. QED BY <2>1, <2>2, <2>3, <2>4 DEF Next
<1>3. QED BY <1>1, <1>2, PTL DEF Spec, Inv

\* No running timer is overdue.
THEOREM TimersNeverOverdue == Spec => []NeverOverdue
<1>1. Inv => NeverOverdue
  <2> SUFFICES ASSUME Inv, NEW id \in TimerId, running[id], ticks[id] >= 2
               PROVE  ticks[id] * PeriodMs < asked[id]
    BY DEF NeverOverdue, Inv, TypeOK
  <2>1. asked[id] \in Nat /\ ticks[id] \in Nat /\ asked[id] > 0
    BY DEF Inv, TypeOK, Countdown
  <2>2. /\ PeriodsFor(asked[id]) \in Nat
        /\ (PeriodsFor(asked[id]) - 1) * PeriodMs < asked[id]
    BY <2>1, PeriodsForBounds
  <2>3. ticks[id] < PeriodsFor(asked[id])
    BY DEF Inv, Countdown
  <2>4. QED BY <2>1, <2>2, <2>3 DEF PeriodMs
<1>2. QED BY <1>1, CountdownCorrect, PTL DEF Inv

\* A countdown that ends by itself has lasted long enough.
InTime ==
  \A id \in TimerId :
    Tick /\ running[id] /\ ~running'[id] => ticks'[id] >= 2 /\ ticks'[id] * PeriodMs >= asked[id]

LEMMA EndsInTime ==
  ASSUME Inv
  PROVE  InTime
<1> SUFFICES ASSUME Tick, NEW id \in TimerId, running[id], ~running'[id]
             PROVE  ticks'[id] >= 2 /\ ticks'[id] * PeriodMs >= asked[id]
  BY DEF InTime
<1>1. /\ asked[id] \in Nat /\ ticks[id] \in Nat /\ value[id] \in Nat /\ asked[id] > 0
      /\ value[id] = IF ticks[id] < PeriodsFor(asked[id])
                       THEN PeriodsFor(asked[id]) - ticks[id] ELSE 0
      /\ pending[id] <=> ticks[id] = 0
  BY DEF Inv, TypeOK, Countdown
<1>2. ticks'[id] = ticks[id] + 1
  BY DEF Tick
<1>3. ~pending[id] /\ Counted(value[id]) = 0
  <2>1. ~StillRunning(id)  BY DEF Tick
  <2>2. QED BY <1>1, <2>1, CountedNat DEF StillRunning
<1>4. /\ PeriodsFor(asked[id]) \in Nat
      /\ PeriodsFor(asked[id]) * PeriodMs >= asked[id]
  BY <1>1, PeriodsForBounds
<1>5. ticks[id] + 1 >= PeriodsFor(asked[id])
  BY <1>1, <1>3, <1>4, CountedNat
<1> QED BY <1>1, <1>2, <1>3, <1>4, <1>5 DEF PeriodMs

\* A timer that runs out by itself lasted its duration, less at most a period.
THEOREM TimersElapseInTime == Spec => ElapsesInTime
<1>1. Inv /\ [Next]_vars => [InTime]_vars
  BY EndsInTime
<1> QED BY <1>1, CountdownCorrect, PTL DEF Spec, Inv, ElapsesInTime, InTime

-----------------------------------------------------------------------------
(* The driver.  What it knows of the card holds from the moment the card    *)
(* has powered up for it, and is about the card in the slot only as long as *)
(* that card still answers as one that was identified; where the card is in *)
(* the table, and that what remains of a run is neighbours, makes the       *)
(* sector that moves the one the table names.                               *)

Starting == {"cmd0", "cmd8", "acmd41"}
Naming == {"cmd2", "cmd3", "cmd7", "acmd6", "check", "switch", "desel", "cmd9", "cmd10", "again"}
Moving == {"run", "cmd18", "cmd25", "sync", "cmd12", "busy"}
Transfers == {"read", "write"}

States == {"none", "idle", "ready", "ident", "stby", "tran", "data", "rcv"}
CardType == [id : Cards \cup {Nothing}, pos : Nat, busy : BOOLEAN, state : States]

OpType ==
  [kind : {"none", "init", "deinit"} \cup Transfers, table : Tables \cup {<<>>}, i : Nat \ {0},
   run : Nat, left : Nat, bad : BOOLEAN, result : {"none", "ok", "error"}]

SdType ==
  /\ at \in {"idle", "deinit"} \cup Starting \cup Naming \cup Moving
  /\ op \in OpType
  /\ init \in BOOLEAN /\ block \in BOOLEAN /\ hcs \in BOOLEAN /\ stuck \in BOOLEAN
  /\ card \in CardType
  /\ mem = [k \in 1..Len(op.table) |-> mem[k]]
  /\ medium = [x \in Cards \X (0..LastSector) |-> medium[x]]

\* What the driver is doing, for whom.
Doing ==
  /\ at \notin {"idle", "run"} => init
  /\ at \in Starting \cup Naming => op.kind = "init"
  /\ at = "deinit" => op.kind \in {"init", "deinit"}
  /\ at \in Moving => op.kind \in Transfers /\ op.result = "none"
  /\ at = "cmd18" => op.kind = "read"
  /\ at = "cmd25" => op.kind = "write"
  /\ card.id = Nothing <=> card.state = "none"

Identified == {"stby", "tran", "data", "rcv"}

\* Once a card has powered up for the driver, it is addressed in its own way,
\* and once it has its address it is the one that was identified.
Known ==
  init /\ at \notin Starting \cup {"deinit"} =>
    /\ card.state \in {"ready", "ident"} \cup Identified => (block <=> card.id \in BlockCards)
    /\ card.state \in Identified => card.id = ident

\* What is left of a run is neighbours in the table.
Running ==
  /\ at \in Moving => op.i <= Len(op.table) + 1
  /\ at \in Moving \ {"sync"} => op.left = 0
  /\ at \in Moving \ {"run"} =>
       /\ op.i + op.run <= Len(op.table) + 1 /\ op.left <= op.run
       /\ \A k \in op.i..op.i + op.run - 2 : op.table[k + 1] = op.table[k] + 1
  /\ at \in {"cmd18", "cmd25"} => op.run > 0

\* The card is where the table is.
Aligned ==
  at = "sync" /\ op.left > 0 /\ card.state \in {"data", "rcv"} => card.pos = op.table[op.i]

\* What has been moved is in place, unless the chunk is known to be bad.
SoFar ==
  at \in Moving =>
    \/ op.bad /\ at \in {"sync", "cmd12", "busy"}
    \/ \A k \in 1..Len(op.table) :
         k < op.i /\ Lasting(k, op.i - 1) => mem[k] = medium[<<ident, op.table[k]>>]

\* The state in which a card that answers is found.
Selected ==
  init /\ ~stuck /\ card.id # Nothing =>
    /\ at \in {"idle", "run", "cmd18", "cmd25"} => card.state = "tran" /\ ~card.busy
    /\ at \in {"sync", "cmd12"} => card.state \in {"data", "rcv"}
    /\ at = "busy" => card.state = "tran"

SdInv == SdType /\ Doing /\ Known /\ Running /\ Aligned /\ SoFar /\ Selected /\ TransfersAreRight

\* A set of numbers that is not empty has a least one.
LEMMA LeastNat ==
  ASSUME NEW T \in SUBSET Nat, T # {}
  PROVE  \E x \in T : \A y \in T : x <= y
<1>1. PICK x \in T : \A y \in T : ~(<<y, x>> \in OpToRel(<, Nat))
  BY WFMin, NatLessThanWellFounded
<1>2. \A y \in T : ~(y < x)
  BY <1>1 DEF OpToRel
<1> QED BY <1>2

\* An entry of a table is a sector.
LEMMA TableEntry ==
  ASSUME NEW S, NEW t \in Seq(S), NEW k \in 1..Len(t)
  PROVE  t[k] \in S
OBVIOUS

\* sd_optimize_sectors finds a run: the shortest stretch that does not go on
\* (sd.c:611-618).
LEMMA RunIsNeighbours ==
  ASSUME NEW t \in Seq(0..LastSector), NEW i \in 1..Len(t)
  PROVE  /\ RunFrom(t, i) \in 1..Len(t) - i + 1
         /\ \A k \in i..i + RunFrom(t, i) - 2 : t[k + 1] = t[k] + 1
<1> DEFINE Ends == {n \in 1..Len(t) - i + 1 : i + n - 1 = Len(t) \/ t[i + n] # t[i + n - 1] + 1}
<1>1. Len(t) \in Nat /\ i \in Nat /\ i >= 1 /\ i <= Len(t)
  OBVIOUS
<1>2. Len(t) - i + 1 \in Ends
  BY <1>1
<1>3. Ends \in SUBSET Nat /\ Ends # {}
  <2>1. \A n \in Ends : n \in Nat
    BY <1>1
  <2> HIDE DEF Ends
  <2> QED BY <1>2, <2>1
<1>4. PICK n \in Ends : \A y \in Ends : n <= y
  BY <1>3, LeastNat
<1>5. n \in 1..Len(t) - i + 1
  BY <1>4
<1>6. ASSUME NEW k \in i..i + n - 2 PROVE t[k + 1] = t[k] + 1
  <2>1. k - i + 1 \in 1..Len(t) - i + 1 /\ k - i + 1 < n /\ i + (k - i + 1) = k + 1
        /\ i + (k - i + 1) - 1 = k /\ k # Len(t)
    BY <1>1, <1>5
  <2>2. k - i + 1 \notin Ends
    <3> HIDE DEF Ends
    <3>1. ~(n <= k - i + 1)
      BY <1>1, <1>5, <2>1
    <3> QED BY <1>4, <3>1
  <2> QED BY <2>1, <2>2
<1>7. \E m \in 1..Len(t) - i + 1 :
        /\ \A k \in i..i + m - 2 : t[k + 1] = t[k] + 1
        /\ i + m - 1 = Len(t) \/ t[i + m] # t[i + m - 1] + 1
  BY <1>4, <1>5, <1>6
<1> QED BY <1>7 DEF RunFrom

\* What a command makes of a card that takes it.
LEMMA AfterIs ==
  ASSUME SdType, NEW cmd \in DOMAIN Leads, NEW arg \in Nat, Heard(cmd)
  PROVE  /\ After(cmd, arg) \in CardType
         /\ After(cmd, arg).id = card.id
         /\ After(cmd, arg).state = Leads[cmd]
         /\ After(cmd, arg).busy = (cmd = "cmd12" /\ card.state = "rcv")
         /\ card.state # "none" /\ After(cmd, arg).state # "none"
         /\ cmd \in {"cmd18", "cmd25"} => After(cmd, arg).pos = Position(arg)
<1>1. Leads[cmd] \in States \ {"none"}
  BY DEF Leads, States
<1>2. card.state # "none"
  BY DEF Heard, Takes, Leads
<1>3. Position(arg) \in Nat
  BY SdAssumption DEF Position
<1>4. PICK b \in BOOLEAN : b = (cmd = "cmd12" /\ card.state = "rcv")
  OBVIOUS
<1>5. PICK p \in Nat : p = IF cmd \in {"cmd18", "cmd25"} THEN Position(arg) ELSE 0
  BY <1>3
<1>6. After(cmd, arg) = [card EXCEPT !.state = Leads[cmd], !.pos = p, !.busy = b]
  BY <1>4, <1>5 DEF After
<1> QED BY <1>1, <1>2, <1>4, <1>5, <1>6 DEF SdType, CardType

\* The commands of the initialization, from the states that take them.
LEMMA Commands ==
  /\ \A cmd \in DOMAIN Order : cmd \in DOMAIN Leads
  /\ {"cmd0", "cmd8", "acmd41", "cmd6", "desel", "cmd18", "cmd25", "cmd12"} \subseteq DOMAIN Leads
  /\ Heard("cmd0") => card.state \in States \ {"none"}
  /\ Leads["cmd0"] = "idle" /\ Leads["cmd8"] = "idle" /\ Leads["acmd41"] = "ready"
  /\ Heard("cmd6") => card.state = "tran"
  /\ Leads["cmd6"] = "tran" /\ Leads["desel"] = "stby"
  /\ Heard("desel") => card.state \in {"tran", "data"}
  /\ Heard("cmd18") => card.state = "tran"
  /\ Heard("cmd25") => card.state = "tran"
  /\ Heard("cmd12") <=> card.state \in {"data", "rcv"}
  /\ Leads["cmd18"] = "data" /\ Leads["cmd25"] = "rcv" /\ Leads["cmd12"] = "tran"
  /\ \A cmd \in DOMAIN Order :
       Heard(cmd) => /\ Leads[cmd] \in {"ident", "stby", "tran"}
                     /\ card.state \in {"ready", "ident"} \cup Identified
                     /\ card.state \notin Identified /\ Leads[cmd] \in Identified => cmd = "cmd3"
  /\ Order["again"] = "idle" /\ Leads["again"] = "tran"
  /\ \A cmd \in DOMAIN Order : Order[cmd] \in Naming \cup {"idle"} /\ (Order[cmd] = "idle" <=> cmd = "again")
  /\ DOMAIN Order \subseteq Naming
BY DEF Leads, Takes, Heard, Order, States, Identified, Naming

\* A card stays where it is or goes where the command leads it.
LEMMA CardAnswers ==
  ASSUME SdType, card.id = Nothing <=> card.state = "none", NEW cmd \in DOMAIN Leads, NEW arg \in Nat,
         card' = card \/ (Heard(cmd) /\ card' = After(cmd, arg))
  PROVE  /\ card' \in CardType /\ (card'.id = Nothing <=> card'.state = "none")
         /\ card'.id = card.id
<1>1. CASE card' = card
  BY <1>1 DEF SdType
<1>2. CASE Heard(cmd) /\ card' = After(cmd, arg)
  BY <1>2, AfterIs
<1> QED BY <1>1, <1>2

\* The byte or the sector a data command asks for is the one of the table
\* (sd.c:542-544, 578-580).
LEMMA AskedFor ==
  ASSUME NEW s \in Nat, block \in BOOLEAN, block <=> card.id \in BlockCards
  PROVE  Argument(s) \in Nat /\ Position(Argument(s)) = s
<1>1. Sector \in Nat /\ Sector > 0
  BY SdAssumption
<1>2. s * Sector \in Nat /\ (s * Sector) \div Sector = s
  BY <1>1
<1> QED BY <1>2 DEF Argument, Position

\* A step away from the transfers.
LEMMA Apart ==
  ASSUME at' \notin Moving, op'.kind \notin Transfers
  PROVE  Running' /\ Aligned' /\ SoFar' /\ TransfersAreRight'
BY DEF Running, Aligned, SoFar, TransfersAreRight, Moving, Transfers

\* One lemma per action: each keeps the invariant.  First the requests.
LEMMA RequestStep ==
  ASSUME SdInv, NEW kind \in {"init", "deinit"} \cup Transfers, NEW table \in Tables \cup {<<>>},
         kind \notin Transfers => table = <<>>, Request(kind, table)
  PROVE  SdInv'
<1> USE DEF SdInv
<1>1. /\ at = "idle" /\ UNCHANGED <<block, hcs, card, ident, stuck>>
      /\ op' = [kind |-> kind, table |-> table, i |-> 1, run |-> 0, left |-> 0, bad |-> FALSE,
                result |-> "none"]
      /\ op'.kind = kind /\ op'.table = table /\ op'.i = 1 /\ op'.result = "none"
  BY DEF Request
<1>2. /\ kind = "init" => IF init \/ card.id = Nothing THEN at' = "idle" /\ init' = init
                          ELSE at' = "cmd0" /\ init' = TRUE
      /\ kind = "deinit" => at' = (IF init THEN "deinit" ELSE "idle") /\ init' = init
      /\ kind \in Transfers => at' = "run" /\ init' = init
  BY DEF Request, Transfers, SdType
<1>3. SdType'
  <2>1. op' \in OpType
    BY <1>1 DEF OpType
  <2>2. mem' = [k \in 1..Len(op'.table) |-> mem'[k]]
    BY <1>1 DEF Request
  <2>3. medium' = [x \in Cards \X (0..LastSector) |-> medium'[x]]
    BY DEF Request, Fresh
  <2>4. at' \in {"idle", "deinit"} \cup Starting \cup Naming \cup Moving /\ init' \in BOOLEAN
    BY <1>2 DEF Starting, Moving, SdType, Transfers
  <2> QED BY <1>1, <2>1, <2>2, <2>3, <2>4 DEF SdType
<1>4. Doing'
  BY <1>1, <1>2 DEF Doing, Starting, Naming, Moving, Transfers
<1>5. Known' /\ Selected'
  BY <1>1, <1>2 DEF Known, Selected, Starting, Naming, Moving, Transfers
<1>6. Running' /\ Aligned' /\ SoFar' /\ TransfersAreRight'
  <2>1. at' \in {"idle", "cmd0", "deinit", "run"}
    BY <1>2 DEF Transfers
  <2>2. Running' /\ Aligned' /\ TransfersAreRight'
    BY <1>1, <2>1 DEF Running, Aligned, TransfersAreRight, Moving
  <2>3. ASSUME NEW k \in 1..Len(table) PROVE ~(k < op'.i)
    BY <1>1
  <2> QED BY <1>1, <2>2, <2>3 DEF SoFar
<1> QED BY <1>3, <1>4, <1>5, <1>6

\* A step of an initialization or of its end keeps the request apart from data.
LEMMA ApartType ==
  ASSUME SdType, UNCHANGED <<mem, medium>>, op'.table = op.table, op' \in OpType,
         at' \in {"idle", "deinit"} \cup Starting \cup Naming, card' \in CardType,
         init' \in BOOLEAN, block' \in BOOLEAN, hcs' \in BOOLEAN, stuck' \in BOOLEAN
  PROVE  SdType'
BY DEF SdType

\* The commands before the card is known.
LEMMA ResetStep ==
  ASSUME SdInv, Reset
  PROVE  SdInv'
<1> USE DEF SdInv
<1>1. /\ at = "cmd0" /\ at' = "cmd8" /\ UNCHANGED <<op, mem, init, block, stuck, hcs, ident, medium>>
      /\ card' = card \/ (Heard("cmd0") /\ card' = After("cmd0", 0))
  BY DEF Reset, Send, Passing
<1>2. card' \in CardType /\ (card'.id = Nothing <=> card'.state = "none")
  BY <1>1, CardAnswers, Commands DEF Doing
<1>3. op.kind = "init"
  BY <1>1 DEF Doing, Starting
<1>4. SdType'
  BY <1>1, <1>2, ApartType DEF SdType, Starting
<1>5. Doing' /\ Known' /\ Selected'
  BY <1>1, <1>2, <1>3 DEF Doing, Known, Selected, Starting, Naming, Moving
<1>6. Running' /\ Aligned' /\ SoFar' /\ TransfersAreRight'
  BY <1>1, <1>3, Apart DEF Moving, Transfers
<1> QED BY <1>4, <1>5, <1>6

LEMMA VoltageStep ==
  ASSUME SdInv, Voltage
  PROVE  SdInv'
<1> USE DEF SdInv
<1>1. /\ at = "cmd8" /\ at' \in {"acmd41", "deinit"}
      /\ UNCHANGED <<op, mem, init, block, stuck, ident, medium>>
      /\ hcs' \in BOOLEAN
      /\ card' = card \/ (Heard("cmd8") /\ card' = After("cmd8", 0))
  BY DEF Voltage, Send, Passing, Failing, SdType
<1>2. card' \in CardType /\ (card'.id = Nothing <=> card'.state = "none")
  BY <1>1, CardAnswers, Commands DEF Doing
<1>3. op.kind = "init"
  BY <1>1 DEF Doing, Starting
<1>4. SdType'
  BY <1>1, <1>2, ApartType DEF SdType, Starting
<1>5. Doing' /\ Known' /\ Selected'
  BY <1>1, <1>2, <1>3 DEF Doing, Known, Selected, Starting, Naming, Moving
<1>6. Running' /\ Aligned' /\ SoFar' /\ TransfersAreRight'
  BY <1>1, <1>3, Apart DEF Moving, Transfers
<1> QED BY <1>4, <1>5, <1>6

LEMMA PowerUpStep ==
  ASSUME SdInv, PowerUp
  PROVE  SdInv'
<1> USE DEF SdInv
<1>1. /\ at = "acmd41" /\ UNCHANGED <<op, mem, init, hcs, stuck, ident, medium>>
      /\ card' = card \/ (Heard("acmd41") /\ card' = After("acmd41", 0))
      /\ \/ at' \in {"deinit", "acmd41"} /\ block' = block
         \/ /\ at' = "cmd2" /\ block' = (card.id \in BlockCards)
            /\ Heard("acmd41") /\ card' = After("acmd41", 0)
  BY DEF PowerUp, Send, Failing, driver
<1> DEFINE b == card.id \in BlockCards
<1>2. /\ card' \in CardType /\ (card'.id = Nothing <=> card'.state = "none")
      /\ at' = "cmd2" => card'.id = card.id /\ card'.state = "ready"
  <2>1. "acmd41" \in DOMAIN Leads /\ Leads["acmd41"] = "ready"
    BY Commands
  <2>2. card' \in CardType /\ (card'.id = Nothing <=> card'.state = "none")
    BY <1>1, <2>1, CardAnswers DEF Doing
  <2>3. at' = "cmd2" => card'.id = card.id /\ card'.state = "ready"
    BY <1>1, <2>1, AfterIs
  <2> QED BY <2>2, <2>3
<1>3. op.kind = "init" /\ init
  BY <1>1 DEF Doing, Starting
<1>4. SdType'
  <2>1. at' \in {"idle", "deinit"} \cup Starting \cup Naming
    BY <1>1 DEF Starting, Naming
  <2>2. b \in BOOLEAN
    OBVIOUS
  <2>3. block' = block \/ block' = b
    BY <1>1
  <2>4. block' \in BOOLEAN
    <3> HIDE DEF b
    <3> QED BY <2>2, <2>3 DEF SdType
  <2> QED BY <1>1, <1>2, <2>1, <2>4, ApartType DEF SdType
<1>5. Doing' /\ Selected'
  BY <1>1, <1>2, <1>3 DEF Doing, Selected, Starting, Naming, Moving
<1>6. Known'
  <2>1. CASE at' # "cmd2"
    BY <1>1, <2>1 DEF Known, Starting
  <2>2. CASE at' = "cmd2"
    <3>1. block' <=> card'.id \in BlockCards
      BY <1>1, <1>2, <2>2
    <3> QED BY <1>2, <2>2, <3>1 DEF Known, Identified
  <2> QED BY <2>1, <2>2
<1>7. Running' /\ Aligned' /\ SoFar' /\ TransfersAreRight'
  BY <1>1, <1>3, Apart DEF Moving, Transfers
<1> QED BY <1>4, <1>5, <1>6, <1>7

\* The commands that name the card and select it.
LEMMA IdentifyStep ==
  ASSUME SdInv, Identify
  PROVE  SdInv'
<1> USE DEF SdInv
<1>1. /\ at \in DOMAIN Order /\ UNCHANGED <<mem, init, block, hcs, medium>>
      /\ \/ /\ at' = "deinit" /\ UNCHANGED <<op, ident, stuck>>
            /\ card' = card \/ (Heard(at) /\ card' = After(at, 0))
         \/ /\ at' = Order[at] /\ op' = IF at = "again" THEN [op EXCEPT !.result = "ok"] ELSE op
            /\ ident' = (IF at = "cmd3" THEN card.id ELSE ident)
            /\ stuck' = (stuck /\ at # "again")
            /\ Heard(at) /\ card' = After(at, 0)
  BY DEF Identify, Send, Failing
<1>2. at \in Naming /\ at \in DOMAIN Leads /\ op.kind = "init" /\ init
  BY <1>1, Commands DEF Doing, Starting, Naming
<1>3. /\ card' \in CardType /\ (card'.id = Nothing <=> card'.state = "none")
      /\ at' # "deinit" => card'.id = card.id /\ card'.state = Leads[at] /\ ~card'.busy
  <2>1. card' \in CardType /\ (card'.id = Nothing <=> card'.state = "none")
    BY <1>1, <1>2, CardAnswers DEF Doing
  <2>2. at' # "deinit" => card'.id = card.id /\ card'.state = Leads[at] /\ card'.busy = (at = "cmd12" /\ card.state = "rcv")
    BY <1>1, <1>2, AfterIs
  <2>3. at # "cmd12"
    BY <1>2 DEF Naming
  <2> QED BY <2>1, <2>2, <2>3
<1>4. at' \in {"deinit", "idle"} \cup Naming /\ (at' = "idle" => at = "again" /\ ~stuck')
  BY ZenonT(30), <1>1, Commands DEF Naming
<1>5. op' \in OpType /\ op'.kind = "init" /\ op'.table = op.table
  BY <1>1, <1>2 DEF SdType, OpType
<1>6. SdType'
  <2>1. stuck' \in BOOLEAN
    BY <1>1 DEF SdType
  <2> QED BY <1>1, <1>3, <1>4, <1>5, <2>1, ApartType DEF SdType
<1>7. Doing'
  BY <1>1, <1>2, <1>3, <1>4, <1>5 DEF Doing, Starting, Naming, Moving
<1>8. Known'
  <2>1. CASE at' = "deinit"
    BY <2>1 DEF Known
  <2>2. CASE at' # "deinit"
    <3>1. block' <=> card'.id \in BlockCards
      BY <1>1, <1>2, <1>3, <2>2, Commands DEF Known, Starting, Naming
    <3>2. card'.state \in Identified => card'.id = ident'
      BY <1>1, <1>2, <1>3, <2>2, Commands DEF Known, Starting, Naming
    <3> QED BY <3>1, <3>2 DEF Known
  <2> QED BY <2>1, <2>2
<1>9. Selected'
  <2>1. CASE at' # "idle"
    BY <1>4, <2>1 DEF Selected, Naming
  <2>2. CASE at' = "idle"
    BY <1>3, <1>4, <2>2, Commands DEF Selected
  <2> QED BY <2>1, <2>2
<1>10. Running' /\ Aligned' /\ SoFar' /\ TransfersAreRight'
  BY <1>4, <1>5, Apart DEF Moving, Naming, Transfers
<1> QED BY <1>6, <1>7, <1>8, <1>9, <1>10

LEMMA SpeedStep ==
  ASSUME SdInv, Speed
  PROVE  SdInv'
<1> USE DEF SdInv
<1>1. /\ at \in {"check", "switch"} /\ UNCHANGED <<op, mem, init, block, hcs, stuck, ident, medium>>
      /\ at' \in {"deinit", "desel", "switch"}
      /\ card' = card \/ (Heard("cmd6") /\ card' = After("cmd6", 0))
  BY DEF Speed, Send, Passing, Failing
<1>2. at \in Naming /\ op.kind = "init" /\ init
  BY <1>1 DEF Doing, Starting, Naming
<1>3. "cmd6" \in DOMAIN Leads /\ Leads["cmd6"] = "tran" /\ (Heard("cmd6") => card.state = "tran")
  BY Commands
<1>4. /\ card' \in CardType /\ (card'.id = Nothing <=> card'.state = "none")
      /\ card'.id = card.id
  BY <1>1, <1>3, CardAnswers DEF Doing
<1>5. card'.state = card.state
  BY <1>1, <1>3, AfterIs
<1>6. SdType'
  BY <1>1, <1>4, ApartType DEF SdType, Naming
<1>7. Doing' /\ Selected'
  BY <1>1, <1>2, <1>4 DEF Doing, Selected, Starting, Naming, Moving
<1>8. Known'
  BY <1>1, <1>2, <1>4, <1>5 DEF Known, Starting
<1>9. Running' /\ Aligned' /\ SoFar' /\ TransfersAreRight'
  BY <1>1, <1>2, Apart DEF Moving, Transfers
<1> QED BY <1>6, <1>7, <1>8, <1>9

LEMMA DeselectStep ==
  ASSUME SdInv, Deselect
  PROVE  SdInv'
<1> USE DEF SdInv
<1>1. /\ at = "desel" /\ at' = "cmd9"
      /\ UNCHANGED <<op, mem, init, block, hcs, stuck, ident, medium>>
      /\ card' = card \/ (Heard("desel") /\ card' = After("desel", 0))
  BY DEF Deselect, Send, Passing
<1>2. at \in Naming /\ op.kind = "init" /\ init
  BY <1>1 DEF Doing, Starting, Naming
<1>3. "desel" \in DOMAIN Leads /\ Leads["desel"] = "stby" /\ (Heard("desel") => card.state \in {"tran", "data"})
  BY Commands
<1>4. /\ card' \in CardType /\ (card'.id = Nothing <=> card'.state = "none")
      /\ card'.id = card.id
  BY <1>1, <1>3, CardAnswers DEF Doing
<1>5. card' = card \/ (card.state \in Identified /\ card'.state \in Identified)
  BY <1>1, <1>3, AfterIs DEF Identified
<1>6. SdType'
  BY <1>1, <1>4, ApartType DEF SdType, Naming
<1>7. Doing' /\ Selected'
  BY <1>1, <1>2, <1>4 DEF Doing, Selected, Starting, Naming, Moving
<1>8. Known'
  BY <1>1, <1>2, <1>4, <1>5 DEF Known, Starting
<1>9. Running' /\ Aligned' /\ SoFar' /\ TransfersAreRight'
  BY <1>1, <1>2, Apart DEF Moving, Transfers
<1> QED BY <1>6, <1>7, <1>8, <1>9

LEMMA DeinitStep ==
  ASSUME SdInv, Deinit
  PROVE  SdInv'
<1> USE DEF SdInv
<1>1. /\ at = "deinit" /\ at' = "idle" /\ init' = FALSE /\ block' = FALSE
      /\ UNCHANGED <<mem, hcs, stuck, ident, medium>>
      /\ op' \in {[op EXCEPT !.result = "ok"], [op EXCEPT !.result = "error"]}
      /\ card' = card \/ (Heard("cmd0") /\ card' = After("cmd0", 0))
  BY DEF Deinit, Send, Finish
<1>2. op.kind \in {"init", "deinit"} /\ op' \in OpType /\ op'.kind = op.kind /\ op'.table = op.table
  BY <1>1 DEF Doing, SdType, OpType
<1>3. card' \in CardType /\ (card'.id = Nothing <=> card'.state = "none")
  BY <1>1, CardAnswers, Commands DEF Doing
<1>4. SdType'
  BY <1>1, <1>2, <1>3, ApartType DEF SdType
<1>5. Doing' /\ Known' /\ Selected'
  BY <1>1, <1>2, <1>3 DEF Doing, Known, Selected, Starting, Naming, Moving
<1>6. Running' /\ Aligned' /\ SoFar' /\ TransfersAreRight'
  BY <1>1, <1>2, Apart DEF Moving, Transfers
<1> QED BY <1>4, <1>5, <1>6

LEMMA PollStep ==
  ASSUME SdInv, Poll
  PROVE  SdInv'
<1> USE DEF SdInv
<1>1. /\ at = "idle" /\ at' = "deinit" /\ init /\ op' = [op EXCEPT !.kind = "deinit"]
      /\ UNCHANGED <<mem, init, block, hcs, card, stuck, ident, medium>>
  BY DEF Poll
<1>2. op' \in OpType /\ op'.kind = "deinit" /\ op'.table = op.table
  BY <1>1 DEF SdType, OpType
<1>3. SdType'
  BY <1>1, <1>2, ApartType DEF SdType
<1>4. Doing' /\ Known' /\ Selected'
  BY <1>1, <1>2 DEF Doing, Known, Selected, Starting, Naming, Moving
<1>5. Running' /\ Aligned' /\ SoFar' /\ TransfersAreRight'
  BY <1>1, <1>2, Apart DEF Moving, Transfers
<1> QED BY <1>3, <1>4, <1>5

\* The next run of the table, and the end of the request.
LEMMA NextRunStep ==
  ASSUME SdInv, NextRun
  PROVE  SdInv'
<1> USE DEF SdInv
<1>1. at = "run" /\ UNCHANGED <<mem, init, block, hcs, card, medium, ident, stuck>>
      /\ op.kind \in Transfers /\ op.result = "none"
  BY DEF NextRun, Doing, Moving
<1>2. op.table \in Seq(0..LastSector) /\ op.i \in Nat /\ op.i >= 1
  BY SdAssumption DEF SdType, OpType
<1>3. ASSUME NEW result \in {"ok", "error"}, Finish(result),
             result = "ok" => op.i > Len(op.table)
      PROVE  SdInv'
  <2>1. /\ at' = "idle" /\ op' = [op EXCEPT !.result = result] /\ op' \in OpType
        /\ op'.table = op.table /\ op'.kind = op.kind /\ op'.result = result
    BY <1>3 DEF Finish, SdType, OpType
  <2>2. SdType'
    BY <1>1, <2>1, ApartType DEF SdType
  <2>3. Doing' /\ Known' /\ Selected' /\ Running' /\ Aligned' /\ SoFar'
    BY <1>1, <2>1 DEF Doing, Known, Selected, Running, Aligned, SoFar, Starting, Naming, Moving
  <2>4. TransfersAreRight'
    <3>1. CASE result = "error"
      BY <2>1, <3>1 DEF TransfersAreRight
    <3>2. CASE result = "ok"
      <4>1. \A k \in 1..Len(op.table) :
              k < op.i /\ Lasting(k, op.i - 1) => mem[k] = medium[<<ident, op.table[k]>>]
        BY <1>1 DEF SoFar, Moving
      <4>2. ASSUME NEW k \in 1..Len(op.table), Lasting(k, Len(op.table))'
            PROVE  mem[k] = medium[<<ident, op.table[k]>>]
        <5>1. op.i = Len(op.table) + 1
          BY <1>1, <1>2, <1>3, <3>2 DEF Running, Moving
        <5>2. k < op.i /\ op.i - 1 = Len(op.table)
          BY <1>2, <5>1
        <5>3. Lasting(k, Len(op.table))
          BY <2>1, <4>2 DEF Lasting
        <5> QED BY <4>1, <5>2, <5>3
      <4> QED BY <1>1, <2>1, <4>2 DEF TransfersAreRight
    <3> QED BY <3>1, <3>2
  <2> QED BY <2>2, <2>3, <2>4
<1>4. ASSUME op.i <= Len(op.table), init, op' = [op EXCEPT !.run = RunFrom(op.table, op.i)],
             at' = IF op.kind = "read" THEN "cmd18" ELSE "cmd25"
      PROVE  SdInv'
  <2>1. op.i \in 1..Len(op.table)
    BY <1>2, <1>4
  <2>2. PICK run \in 1..Len(op.table) - op.i + 1 :
          run = RunFrom(op.table, op.i) /\ \A k \in op.i..op.i + run - 2 : op.table[k + 1] = op.table[k] + 1
    BY <1>2, <2>1, RunIsNeighbours
  <2>3. /\ op' = [op EXCEPT !.run = run] /\ op' \in OpType /\ run \in Nat /\ run > 0
        /\ op'.run = run /\ op'.i = op.i /\ op'.table = op.table /\ op'.kind = op.kind
        /\ op'.left = op.left /\ op'.bad = op.bad /\ op'.result = op.result
    <3>1. run \in Nat /\ run > 0 /\ op' = [op EXCEPT !.run = run]
      BY <1>2, <1>4, <2>2
    <3> QED BY <3>1 DEF SdType, OpType
  <2>4. SdType'
    BY <1>1, <1>4, <2>3 DEF SdType, Moving
  <2>5. Doing' /\ Known' /\ Selected'
    BY <1>1, <1>4, <2>3 DEF Doing, Known, Selected, Starting, Naming, Moving, Transfers
  <2>6. Running'
    <3>1. op.left = 0 /\ op.i + run <= Len(op.table) + 1 /\ op.i <= Len(op.table) + 1
      BY <1>1, <1>2, <2>2 DEF Running, Moving
    <3> QED BY <1>4, <2>2, <2>3, <3>1 DEF Running
  <2>7. Aligned' /\ TransfersAreRight'
    BY <1>1, <1>4, <2>3 DEF Aligned, TransfersAreRight
  <2>8. SoFar'
    <3>1. \A k \in 1..Len(op.table) :
            k < op.i /\ Lasting(k, op.i - 1) => mem[k] = medium[<<ident, op.table[k]>>]
      BY <1>1 DEF SoFar, Moving
    <3> QED BY <1>1, <2>3, <3>1 DEF SoFar, Lasting
  <2> QED BY <2>4, <2>5, <2>6, <2>7, <2>8
<1> QED BY <1>1, <1>3, <1>4 DEF NextRun

\* A chunk begins.
LEMMA BeginChunkStep ==
  ASSUME SdInv, BeginChunk
  PROVE  SdInv'
<1> USE DEF SdInv
<1>1. /\ at \in {"cmd18", "cmd25"} /\ UNCHANGED <<mem, init, block, hcs, medium, ident>>
      /\ op.kind \in Transfers /\ op.result = "none" /\ init
  BY DEF BeginChunk, Doing, Starting, Moving
<1>2. op.table \in Seq(0..LastSector) /\ op.i \in Nat /\ op.i >= 1 /\ op.run \in Nat /\ op.run > 0
      /\ op.i + op.run <= Len(op.table) + 1 /\ op.left = 0
  BY <1>1, SdAssumption DEF SdType, OpType, Running, Moving
<1>3. op.i \in 1..Len(op.table) /\ op.table[op.i] \in Nat
  <2>1. op.i <= Len(op.table) /\ Len(op.table) \in Nat
    BY <1>2
  <2>2. op.i \in 1..Len(op.table)
    BY <1>2, <2>1
  <2>3. op.table[op.i] \in 0..LastSector
    BY <1>2, <2>2, TableEntry
  <2> QED BY <2>2, <2>3, SdAssumption
<1>4. /\ at \in DOMAIN Leads /\ Leads[at] \in {"data", "rcv"}
      /\ Heard(at) => card.state = "tran"
  BY <1>1, Commands
<1>5. Argument(op.table[op.i]) \in Nat
  BY <1>3, SdAssumption DEF Argument
<1>6. /\ card' = card \/ (Heard(at) /\ card' = After(at, Argument(op.table[op.i])))
      /\ \/ /\ Heard(at) /\ card' = After(at, Argument(op.table[op.i]))
            /\ op' = [op EXCEPT !.left = Chunk, !.bad = FALSE] /\ at' = "sync" /\ stuck' = stuck
         \/ /\ at' = "idle" /\ op' = [op EXCEPT !.result = "error"]
            /\ stuck' = (stuck \/ card'.state \in {"data", "rcv"})
            /\ ~Heard(at) => card' = card
  BY DEF BeginChunk, Send, Finish, Adrift
<1>7. card' \in CardType /\ (card'.id = Nothing <=> card'.state = "none") /\ card'.id = card.id
  BY <1>4, <1>5, <1>6, CardAnswers DEF Doing
<1>8. card'.state = card.state \/ (card.state = "tran" /\ card'.state \in {"data", "rcv"})
  BY <1>4, <1>5, <1>6, AfterIs
<1>9. Known'
  BY <1>1, <1>6, <1>7, <1>8 DEF Known, Starting, Identified
<1>10. CASE /\ Heard(at) /\ card' = After(at, Argument(op.table[op.i]))
            /\ op' = [op EXCEPT !.left = Chunk, !.bad = FALSE] /\ at' = "sync" /\ stuck' = stuck
  <2>1. PICK left \in 1..op.run : left = Chunk
    BY <1>2, SdAssumption DEF Chunk
  <2>2. /\ op' \in OpType /\ op'.left = left /\ op'.i = op.i /\ op'.run = op.run
        /\ op'.table = op.table /\ op'.kind = op.kind /\ op'.result = op.result /\ op'.bad = FALSE
    <3>1. left \in Nat /\ op' = [op EXCEPT !.left = left, !.bad = FALSE]
      BY <1>2, <1>10, <2>1
    <3> QED BY <3>1 DEF SdType, OpType
  <2>3. SdType' /\ Doing'
    BY <1>1, <1>7, <1>10, <2>2 DEF SdType, Doing, Starting, Naming, Moving
  <2>4. Running'
    <3>1. /\ \A k \in op.i..op.i + op.run - 2 : op.table[k + 1] = op.table[k] + 1
          /\ op.i <= Len(op.table) + 1
      BY <1>1 DEF Running, Moving
    <3>2. left <= op.run
      BY <1>2, <2>1
    <3> QED BY <1>2, <1>10, <2>2, <3>1, <3>2 DEF Running, Moving
  <2>5. Aligned'
    <3>1. card.state = "tran"
      BY <1>4, <1>10
    <3>2. block \in BOOLEAN /\ (block <=> card.id \in BlockCards)
      BY <1>1, <3>1 DEF Known, Starting, Identified, SdType
    <3>3. card'.pos = op.table[op.i]
      BY <1>1, <1>3, <1>4, <1>5, <1>10, <3>2, AskedFor, AfterIs
    <3> QED BY <2>2, <3>3 DEF Aligned
  <2>6. SoFar'
    <3>1. \A k \in 1..Len(op.table) :
            k < op.i /\ Lasting(k, op.i - 1) => mem[k] = medium[<<ident, op.table[k]>>]
      BY <1>1 DEF SoFar, Moving
    <3> QED BY SMTT(30), <1>1, <2>2, <3>1 DEF SoFar, Lasting
  <2>7. Selected' /\ TransfersAreRight'
    <3>1. card'.state \in {"data", "rcv"}
      BY <1>4, <1>5, <1>10, AfterIs
    <3> QED BY <1>1, <1>10, <2>2, <3>1 DEF Selected, TransfersAreRight
  <2> QED BY <1>9, <2>3, <2>4, <2>5, <2>6, <2>7
<1>11. CASE /\ at' = "idle" /\ op' = [op EXCEPT !.result = "error"]
            /\ stuck' = (stuck \/ card'.state \in {"data", "rcv"})
            /\ ~Heard(at) => card' = card
  <2>1. op' \in OpType /\ op'.table = op.table /\ op'.result = "error"
    BY <1>11 DEF SdType, OpType
  <2>2. stuck' \in BOOLEAN
    BY <1>11
  <2>3. SdType' /\ Doing'
    BY <1>1, <1>7, <1>11, <2>1, <2>2 DEF SdType, Doing, Starting, Naming, Moving
  <2>4. Running' /\ Aligned' /\ SoFar' /\ TransfersAreRight'
    BY <1>11, <2>1 DEF Running, Aligned, SoFar, TransfersAreRight, Moving
  <2>5. Selected'
    <3>1. ASSUME ~stuck', card'.id # Nothing PROVE card'.state = "tran" /\ ~card'.busy
      <4>1. card.state = "tran" /\ ~card.busy
        BY <1>1, <1>7, <1>11, <3>1 DEF Selected
      <4>2. card' = card \/ card'.state \in {"data", "rcv"}
        BY <1>4, <1>5, <1>6, AfterIs
      <4> QED BY <1>11, <3>1, <4>1, <4>2
    <3> QED BY <1>1, <1>11, <3>1 DEF Selected
  <2> QED BY <1>9, <2>3, <2>4, <2>5
<1> QED BY <1>6, <1>10, <1>11

\* A sector moves.
LEMMA MoveSectorStep ==
  ASSUME SdInv, MoveSector
  PROVE  SdInv'
<1> USE DEF SdInv
<1>1. /\ at = "sync" /\ op.left > 0 /\ UNCHANGED <<at, init, block, hcs, ident, stuck>>
      /\ card.state \in {"data", "rcv"} /\ card.pos <= LastSector
      /\ card' = [card EXCEPT !.pos = @ + 1]
      /\ op.kind \in Transfers /\ op.result = "none" /\ init
  BY DEF MoveSector, Doing, Starting, Moving
<1>2. PICK good \in BOOLEAN :
        /\ op' = [op EXCEPT !.i = @ + 1, !.run = @ - 1, !.left = @ - 1, !.bad = @ \/ ~good]
        /\ mem' = IF op.kind = "read" /\ good
                    THEN [mem EXCEPT ![op.i] = medium[<<card.id, card.pos>>]] ELSE mem
        /\ medium' = IF op.kind = "write" /\ good
                       THEN [medium EXCEPT ![<<card.id, card.pos>>] = mem[op.i]] ELSE medium
  BY DEF MoveSector
<1>3. /\ op.table \in Seq(0..LastSector) /\ op.i \in Nat /\ op.i >= 1 /\ op.run \in Nat
      /\ op.left \in Nat /\ op.left <= op.run /\ op.i + op.run <= Len(op.table) + 1
      /\ Len(op.table) \in Nat
      /\ \A k \in op.i..op.i + op.run - 2 : op.table[k + 1] = op.table[k] + 1
  BY <1>1, SdAssumption DEF SdType, OpType, Running, Moving
<1>4. op.i \in 1..Len(op.table) /\ op.table[op.i] \in 0..LastSector /\ op.run >= 1
  <2>1. op.run >= 1
    BY <1>1, <1>3
  <2>2. op.i <= Len(op.table)
    BY <1>3, <2>1
  <2>3. op.i \in 1..Len(op.table)
    BY <1>3, <2>2
  <2>4. op.table[op.i] \in 0..LastSector
    BY <1>3, <2>3, TableEntry
  <2> QED BY <2>1, <2>3, <2>4
<1>5. /\ card' \in CardType /\ card'.id = card.id /\ card'.state = card.state
      /\ card'.pos = card.pos + 1 /\ card'.busy = card.busy
  <2>1. card \in CardType /\ card.pos + 1 \in Nat
    BY DEF SdType, CardType
  <2>2. card' = [card EXCEPT !.pos = card.pos + 1]
    BY <1>1
  <2> QED BY <2>1, <2>2 DEF CardType
<1>6. /\ op' \in OpType /\ op'.i = op.i + 1 /\ op'.run = op.run - 1 /\ op'.left = op.left - 1
      /\ op'.bad = (op.bad \/ ~good)
      /\ op'.table = op.table /\ op'.kind = op.kind /\ op'.result = op.result
  <2>1. op.i + 1 \in Nat \ {0} /\ op.run - 1 \in Nat /\ op.left - 1 \in Nat
    BY <1>1, <1>3
  <2>2. PICK b \in BOOLEAN : b = (op.bad \/ ~good)
    OBVIOUS
  <2>3. op' = [op EXCEPT !.i = op.i + 1, !.run = op.run - 1, !.left = op.left - 1, !.bad = b]
    BY <1>2, <2>2 DEF SdType, OpType
  <2> QED BY <2>1, <2>2, <2>3 DEF SdType, OpType
<1>7. card.id \in Cards /\ card.id = ident /\ card.pos = op.table[op.i]
  <2>1. card.id = ident /\ card.pos = op.table[op.i]
    BY <1>1 DEF Known, Starting, Identified, Aligned
  <2>2. card.id # Nothing
    BY <1>1 DEF Doing
  <2> QED BY <2>1, <2>2 DEF SdType, CardType
<1>8. SdType'
  <2>1. mem' = [k \in 1..Len(op'.table) |-> mem'[k]]
    BY <1>2, <1>4, <1>6 DEF SdType
  <2>2. medium' = [x \in Cards \X (0..LastSector) |-> medium'[x]]
    BY <1>2, <1>4, <1>7 DEF SdType
  <2> QED BY <1>1, <1>5, <1>6, <2>1, <2>2 DEF SdType
<1>9. Doing' /\ Known' /\ Selected' /\ TransfersAreRight'
  <2>1. Doing'
    BY <1>1, <1>5, <1>6 DEF Doing, Starting, Naming, Moving
  <2>2. Known' /\ Selected'
    BY <1>1, <1>5 DEF Known, Selected, Starting, Identified
  <2>3. TransfersAreRight'
    BY <1>1, <1>6 DEF TransfersAreRight
  <2> QED BY <2>1, <2>2, <2>3
<1>10. Running'
  <2>1. /\ op'.i <= Len(op.table) + 1 /\ op'.i + op'.run <= Len(op.table) + 1 /\ op'.left <= op'.run
    BY SMTT(30), <1>1, <1>3, <1>6
  <2>2. ASSUME NEW k \in op'.i..op'.i + op'.run - 2 PROVE op.table[k + 1] = op.table[k] + 1
    <3>1. k \in op.i + 1..op.i + 1 + (op.run - 1) - 2
      BY <1>6
    <3>2. k \in op.i..op.i + op.run - 2
      BY SMTT(30), <1>3, <3>1
    <3> QED BY <1>3, <3>2
  <2> QED BY <1>1, <1>6, <2>1, <2>2 DEF Running, Moving
<1>11. Aligned'
  <2>1. ASSUME op'.left > 0 PROVE op.table[op.i + 1] = op.table[op.i] + 1
    <3>1. op.left - 1 > 0
      BY <1>6, <2>1
    <3>2. op.i <= op.i + op.run - 2
      BY <1>3, <3>1
    <3>3. op.i \in op.i..op.i + op.run - 2
      BY <1>3, <3>2
    <3> QED BY <1>3, <3>3
  <2> QED BY <1>1, <1>5, <1>6, <1>7, <2>1 DEF Aligned
<1>12. SoFar'
  <2>1. CASE op'.bad
    BY <1>1, <2>1 DEF SoFar
  <2>2. CASE ~op'.bad
    <3>1. ~op.bad /\ good
      BY <1>6, <2>2
    <3>2. \A k \in 1..Len(op.table) :
            k < op.i /\ Lasting(k, op.i - 1) => mem[k] = medium[<<ident, op.table[k]>>]
      BY <1>1, <3>1 DEF SoFar, Moving
    <3>3. ASSUME NEW k \in 1..Len(op.table), k < op'.i, Lasting(k, op.i - 1)'
          PROVE  mem'[k] = medium'[<<ident, op.table[k]>>]
      <4> DEFINE x == <<ident, op.table[op.i]>>
                 y == <<ident, op.table[k]>>
      <4>1. x \in Cards \X (0..LastSector) /\ y \in Cards \X (0..LastSector)
        <5>1. op.table[k] \in 0..LastSector
          BY <1>3, <3>3, TableEntry
        <5> QED BY <1>4, <1>7, <5>1
      <4>2. CASE op.kind = "read"
        <5>1. mem' = [mem EXCEPT ![op.i] = medium[x]] /\ medium' = medium
          BY <1>2, <1>7, <3>1, <4>2
        <5>2. CASE k = op.i
          BY <1>4, <5>1, <5>2 DEF SdType
        <5>3. CASE k # op.i
          <6>1. k < op.i
            BY <1>3, <1>6, <3>3, <5>3
          <6>2. Lasting(k, op.i - 1)
            BY <4>2 DEF Lasting
          <6>3. mem'[k] = mem[k]
            BY <5>1, <5>3, <3>3 DEF SdType
          <6> QED BY <3>2, <3>3, <5>1, <6>1, <6>2, <6>3
        <5> QED BY <5>2, <5>3
      <4>3. CASE op.kind = "write"
        <5>1. mem' = mem /\ medium' = [medium EXCEPT ![x] = mem[op.i]]
          BY <1>2, <1>7, <3>1, <4>3
        <5>2. CASE k = op.i
          <6>1. medium'[x] = mem[op.i]
            BY <4>1, <5>1 DEF SdType
          <6> QED BY <5>1, <5>2, <6>1
        <5>3. CASE k # op.i
          <6>1. k < op.i /\ op.i \in k+1..op.i
            BY <1>3, <1>6, <3>3, <5>3
          <6>2. \A j \in k+1..op.i : op.table[j] # op.table[k]
            <7>1. op'.i - 1 = op.i
              BY <1>3, <1>6
            <7> QED BY <1>6, <3>3, <4>3, <7>1 DEF Lasting
          <6>3. Lasting(k, op.i - 1)
            BY <1>3, <3>3, <6>2 DEF Lasting
          <6>4. x # y
            BY <6>1, <6>2
          <6>5. medium'[y] = medium[y]
            BY <4>1, <5>1, <6>4 DEF SdType
          <6> QED BY <3>2, <3>3, <5>1, <6>1, <6>3, <6>5
        <5> QED BY <5>2, <5>3
      <4> QED BY <1>1, <4>2, <4>3 DEF Transfers
    <3> QED BY <1>1, <1>6, <3>3 DEF SoFar
  <2>3. op'.bad \in BOOLEAN
    BY <1>6 DEF OpType
  <2> QED BY <2>1, <2>2, <2>3
<1> QED BY <1>8, <1>9, <1>10, <1>11, <1>12

\* The end of a chunk: the wait, the stop, and the card's busy time.
LEMMA SyncEndsStep ==
  ASSUME SdInv, SyncEnds
  PROVE  SdInv'
<1> USE DEF SdInv
<1>1. /\ at = "sync" /\ at' = "cmd12"
      /\ UNCHANGED <<mem, init, block, hcs, card, medium, ident, stuck>>
      /\ \/ op.left = 0 /\ op' = op
         \/ op' = [op EXCEPT !.left = 0, !.bad = TRUE]
      /\ op.kind \in Transfers /\ op.result = "none" /\ init
  BY DEF SyncEnds, Doing, Starting, Moving
<1>2. /\ op' \in OpType /\ op'.left = 0 /\ op'.i = op.i /\ op'.run = op.run
      /\ op'.table = op.table /\ op'.kind = op.kind /\ op'.result = op.result
      /\ op' = op \/ op'.bad
  <2>1. op \in OpType
    BY DEF SdType
  <2>2. CASE op.left = 0 /\ op' = op
    BY <2>1, <2>2
  <2>3. CASE op' = [op EXCEPT !.left = 0, !.bad = TRUE]
    BY <2>1, <2>3 DEF OpType
  <2> QED BY <1>1, <2>2, <2>3
<1>3. SdType' /\ Doing' /\ Known' /\ Selected' /\ Aligned' /\ TransfersAreRight'
  BY <1>1, <1>2 DEF SdType, Doing, Known, Selected, Aligned, TransfersAreRight, Starting, Naming,
                    Moving
<1>4. Running'
  <2>1. op.run \in Nat
    BY DEF SdType, OpType
  <2> QED BY <1>1, <1>2, <2>1 DEF Running, Moving
<1>5. SoFar'
  BY <1>1, <1>2 DEF SoFar, Lasting, Moving
<1> QED BY <1>3, <1>4, <1>5

LEMMA StopTransferStep ==
  ASSUME SdInv, StopTransfer
  PROVE  SdInv'
<1> USE DEF SdInv
<1>1. /\ at = "cmd12" /\ at' = "busy" /\ UNCHANGED <<op, mem, init, block, hcs, medium, ident>>
      /\ stuck' = (stuck \/ card'.state \in {"data", "rcv"})
      /\ \/ Heard("cmd12") /\ card' = After("cmd12", 0)
         \/ card' = card
      /\ op.kind \in Transfers /\ op.result = "none" /\ init
  BY DEF StopTransfer, Send, Adrift, Doing, Starting, Moving
<1>2. "cmd12" \in DOMAIN Leads /\ Leads["cmd12"] = "tran" /\ (Heard("cmd12") <=> card.state \in {"data", "rcv"})
  BY Commands
<1>3. card' \in CardType /\ (card'.id = Nothing <=> card'.state = "none") /\ card'.id = card.id
  BY <1>1, <1>2, CardAnswers DEF Doing
<1>4. card' = card \/ (card.state \in {"data", "rcv"} /\ card'.state = "tran")
  BY <1>1, <1>2, AfterIs
<1>5. SdType' /\ Doing'
  <2>1. stuck' \in BOOLEAN
    BY <1>1
  <2> QED BY <1>1, <1>3, <2>1 DEF SdType, Doing, Starting, Naming, Moving
<1>6. Known'
  BY <1>1, <1>3, <1>4 DEF Known, Starting, Identified
<1>7. Selected'
  BY <1>1, <1>3, <1>4 DEF Selected
<1>8. Running' /\ Aligned' /\ SoFar' /\ TransfersAreRight'
  BY <1>1 DEF Running, Aligned, SoFar, Lasting, TransfersAreRight, Moving
<1> QED BY <1>5, <1>6, <1>7, <1>8

LEMMA EndChunkStep ==
  ASSUME SdInv, EndChunk
  PROVE  SdInv'
<1> USE DEF SdInv
<1>1. /\ at = "busy" /\ ~card.busy
      /\ UNCHANGED <<mem, init, block, hcs, card, medium, ident, stuck>>
      /\ \/ op.bad /\ at' = "idle" /\ op' = [op EXCEPT !.result = "error"]
         \/ /\ ~op.bad /\ op' = op
            /\ at' = IF op.run = 0 THEN "run" ELSE IF op.kind = "read" THEN "cmd18" ELSE "cmd25"
      /\ op.kind \in Transfers /\ op.result = "none" /\ init
  BY DEF EndChunk, Finish, Doing, Starting, Moving
<1>2. CASE op.bad /\ at' = "idle" /\ op' = [op EXCEPT !.result = "error"]
  <2>1. op' \in OpType /\ op'.table = op.table /\ op'.result = "error"
    BY <1>2 DEF SdType, OpType
  <2>2. SdType' /\ Doing' /\ Known' /\ Selected'
    BY <1>1, <1>2, <2>1 DEF SdType, Doing, Known, Selected, Starting, Naming, Moving
  <2>3. Running' /\ Aligned' /\ SoFar' /\ TransfersAreRight'
    BY <1>2, <2>1 DEF Running, Aligned, SoFar, TransfersAreRight, Moving
  <2> QED BY <2>2, <2>3
<1>3. CASE /\ ~op.bad /\ op' = op
           /\ at' = IF op.run = 0 THEN "run" ELSE IF op.kind = "read" THEN "cmd18" ELSE "cmd25"
  <2>1. SdType' /\ Doing' /\ Known' /\ Selected'
    BY <1>1, <1>3 DEF SdType, Doing, Known, Selected, Starting, Naming, Moving, Transfers
  <2>2. Running'
    <3>1. op.run \in Nat
      BY DEF SdType, OpType
    <3> QED BY <1>1, <1>3, <3>1 DEF Running, Moving
  <2>3. Aligned' /\ SoFar' /\ TransfersAreRight'
    BY <1>1, <1>3 DEF Aligned, SoFar, Lasting, TransfersAreRight, Moving
  <2> QED BY <2>1, <2>2, <2>3
<1> QED BY <1>1, <1>2, <1>3

\* The card and the user.
LEMMA CardSteps ==
  ASSUME SdInv, Programmed \/ Move
  PROVE  SdInv'
<1> USE DEF SdInv, driver
<1>1. UNCHANGED <<at, op, mem, init, block, hcs, medium, ident>>
  BY DEF Programmed, Move
<1>2. Running' /\ SoFar' /\ TransfersAreRight'
  BY <1>1 DEF Running, SoFar, Lasting, TransfersAreRight
<1>3. CASE Programmed
  <2>1. /\ card' \in CardType /\ card'.id = card.id /\ card'.state = card.state /\ card'.pos = card.pos
        /\ ~card'.busy /\ stuck' = stuck
    BY <1>3 DEF Programmed, SdType, CardType
  <2> QED BY <1>1, <1>2, <2>1 DEF SdType, Doing, Known, Selected, Aligned, Starting, Naming, Moving
<1>4. CASE Move
  <2>1. CASE card.id # Nothing /\ card' = Empty /\ stuck' = stuck
    <3>1. card' \in CardType /\ card'.id = Nothing /\ card'.state = "none"
      BY <2>1 DEF Empty, CardType, States
    <3> QED BY <1>1, <1>2, <2>1, <3>1 DEF SdType, Doing, Known, Selected, Aligned, Starting, Naming,
                                          Moving, Identified
  <2>2. ASSUME NEW c \in Cards, card' = [Empty EXCEPT !.id = c, !.state = "idle"],
               stuck' = (stuck \/ init)
        PROVE  SdInv'
    <3>1. card' \in CardType /\ card'.id # Nothing /\ card'.state = "idle"
      BY <2>2, NothingAssumption DEF Empty, CardType, States
    <3>2. stuck' \in BOOLEAN
      BY <2>2
    <3>3. SdType' /\ Doing' /\ Known' /\ Aligned'
      BY <1>1, <3>1, <3>2 DEF SdType, Doing, Known, Aligned, Starting, Naming, Moving, Identified
    <3>4. Selected'
      BY <1>1, <2>2 DEF Selected
    <3> QED BY <1>2, <3>3, <3>4
  <2> QED BY <1>4, <2>1, <2>2 DEF Move
<1> QED BY <1>3, <1>4

LEMMA SdStays ==
  ASSUME SdInv, UNCHANGED <<driver, card, medium, ident, stuck>>
  PROVE  SdInv'
<1> USE DEF SdInv, driver
<1>1. SdType' /\ Doing' /\ Known'
  BY DEF SdType, Doing, Known
<1>2. Running' /\ Aligned' /\ Selected'
  BY DEF Running, Aligned, Selected
<1>3. SoFar' /\ TransfersAreRight'
  BY DEF SoFar, Lasting, TransfersAreRight
<1> QED BY <1>1, <1>2, <1>3

LEMMA InitSd == SdInit => SdInv
<1> SUFFICES ASSUME SdInit PROVE SdInv
  OBVIOUS
<1>1. /\ at = "idle" /\ mem = <<>> /\ init = FALSE /\ block = FALSE /\ hcs = FALSE /\ stuck = FALSE
      /\ op = [kind |-> "none", table |-> <<>>, i |-> 1, run |-> 0, left |-> 0, bad |-> FALSE, result |-> "none"]
      /\ medium = [x \in Cards \X (0..LastSector) |-> x]
  BY DEF SdInit, Fresh
<1>2. card \in CardType /\ (card.id = Nothing <=> card.state = "none")
  <2>1. CASE card = Empty
    BY <2>1 DEF Empty, CardType, States
  <2>2. ASSUME NEW c \in Cards, card = [Empty EXCEPT !.id = c, !.state = "idle"]
        PROVE  card \in CardType /\ card.id # Nothing /\ card.state # "none"
    BY <2>2, NothingAssumption DEF Empty, CardType, States
  <2> QED BY <2>1, <2>2 DEF SdInit
<1>3. op \in OpType /\ op.kind = "none" /\ Len(op.table) = 0
  BY <1>1 DEF OpType
<1>4. SdType
  <2>1. mem = [k \in 1..Len(op.table) |-> mem[k]]
    BY <1>1, <1>3
  <2>2. medium = [x \in Cards \X (0..LastSector) |-> medium[x]]
    BY <1>1
  <2> QED BY <1>1, <1>2, <1>3, <2>1, <2>2 DEF SdType
<1>5. Doing /\ Known /\ Running /\ Aligned /\ SoFar /\ Selected /\ TransfersAreRight
  BY <1>1, <1>2, <1>3 DEF Doing, Known, Running, Aligned, SoFar, Selected, TransfersAreRight,
                          Starting, Naming, Moving, Transfers
<1> QED BY <1>4, <1>5 DEF SdInv

LEMMA NextSd == SdInv /\ [SdNext]_sdVars => SdInv'
<1> SUFFICES ASSUME SdInv, [SdNext]_sdVars PROVE SdInv'
  OBVIOUS
<1>1. ASSUME NEW kind \in {"init", "deinit"}, Request(kind, <<>>) PROVE SdInv'
  BY <1>1, RequestStep
<1>2. ASSUME NEW kind \in {"read", "write"}, NEW t \in Tables, Request(kind, t) PROVE SdInv'
  BY <1>2, RequestStep DEF Transfers
<1>3. CASE Step
  BY <1>3, ResetStep, VoltageStep, IdentifyStep, SpeedStep, DeselectStep, DeinitStep, NextRunStep,
     BeginChunkStep, SyncEndsStep, StopTransferStep, EndChunkStep DEF Step
<1>4. CASE PowerUp \/ Poll \/ MoveSector \/ Programmed \/ Move
  BY <1>4, PowerUpStep, PollStep, MoveSectorStep, CardSteps
<1>5. CASE Timers \/ UNCHANGED sdVars
  BY <1>5, SdStays DEF Timers, sdVars
<1> QED BY <1>1, <1>2, <1>3, <1>4, <1>5 DEF SdNext

\* The invariant of the driver, by induction over the steps: what it knows of
\* the card, where the card is in the table, and what is in place so far.
THEOREM SdInvariant == SdSpec => []SdInv
BY InitSd, NextSd, PTL DEF SdSpec

\* A request that succeeds has moved every sector of its table, between its place
\* in the memory and the card that was identified, for any cards, tables, sizes
\* of chunks and faults (sd.c:533-629).
THEOREM SectorsInPlace == SdSpec => []TransfersAreRight
<1>1. SdInv => TransfersAreRight
  BY DEF SdInv
<1> QED BY <1>1, SdInvariant, PTL

\* Between two requests an initialized card that was not changed is the one that
\* was identified, selected and not busy, unless an answer to CMD18, CMD25 or
\* CMD12 got lost (sd.c:346-480, 533-599).
THEOREM CardReady == SdSpec => []CardIsSelected
<1>1. SdInv => CardIsSelected
  BY DEF SdInv, Selected, Known, CardIsSelected, Starting, Identified
<1> QED BY <1>1, SdInvariant, PTL

\* No sector is written but those of the table, on the card that was identified
\* (sd.c:568-629).
THEOREM NothingElseWritten == SdSpec => OnlyTheTableIsWritten
<1> DEFINE Ok == \A x \in DOMAIN medium :
                   at # "idle" /\ medium'[x] # medium[x] =>
                     /\ op.kind = "write" /\ x[1] = ident
                     /\ \E k \in 1..Len(op.table) : x[2] = op.table[k]
<1>1. ASSUME SdInv, [SdNext]_sdVars PROVE Ok
  <2>1. CASE MoveSector
    <3>1. /\ at = "sync" /\ op.left > 0 /\ card.state \in {"data", "rcv"}
          /\ medium' = medium \/ (/\ op.kind = "write"
                                  /\ medium' = [medium EXCEPT ![<<card.id, card.pos>>] = mem[op.i]])
      BY <2>1 DEF MoveSector
    <3>2. card.id = ident /\ card.pos = op.table[op.i]
      BY <1>1, <3>1 DEF SdInv, Known, Aligned, Doing, Starting, Identified
    <3>3. op.i \in 1..Len(op.table)
      <4>1. /\ op.table \in Seq(0..LastSector) /\ op.i \in Nat /\ op.i >= 1 /\ op.run \in Nat
            /\ op.left \in Nat /\ op.left <= op.run /\ op.i + op.run <= Len(op.table) + 1
        BY <1>1, <3>1, SdAssumption DEF SdInv, SdType, OpType, Running, Moving
      <4>2. op.run >= 1 /\ Len(op.table) \in Nat
        BY <3>1, <4>1
      <4>3. op.i <= Len(op.table)
        BY <4>1, <4>2
      <4> QED BY <4>1, <4>2, <4>3
    <3>4. ASSUME NEW x \in DOMAIN medium, medium'[x] # medium[x]
          PROVE  op.kind = "write" /\ x = <<ident, op.table[op.i]>>
      BY <1>1, <3>1, <3>2, <3>4 DEF SdInv, SdType
    <3> QED BY <3>3, <3>4
  <2>2. CASE ~MoveSector
    <3>1. at = "idle" \/ medium' = medium
      BY <1>1, <2>2 DEF SdNext, Request, Step, Reset, Voltage, Identify, Speed, Deselect, Deinit,
                        NextRun, BeginChunk, SyncEnds, StopTransfer, EndChunk, PowerUp, Poll,
                        Programmed, Move, Timers, sdVars
    <3> QED BY <3>1
  <2> QED BY <2>1, <2>2
<1>2. SdInv /\ [SdNext]_sdVars => [Ok]_sdVars
  BY <1>1
<1> QED BY <1>2, SdInvariant, PTL DEF SdSpec, OnlyTheTableIsWritten

\* The waits of the driver last as long as it asked for, less at most a period:
\* the countdowns are right for every timer that is started, by the driver and by
\* others (timer.c:17-47, sd.c:249-275, 374-391).
THEOREM WaitsElapseInTime == SdSpec => ElapsesInTime
<1>1. SdInit => Inv
  <2>1. Init => Inv
    BY DEF Init, Inv, TypeOK, Countdown
  <2> QED BY <2>1 DEF SdInit
<1>2. ASSUME Inv, [SdNext]_sdVars PROVE Inv'
  <2>1. \/ \E id \in TimerId, ms \in Nat : Start(id, ms)
        \/ \E id \in TimerId : Abort(id)
        \/ Tick \/ UNCHANGED vars
    <3>1. "sd" \in TimerId /\ InitMs \in Nat /\ DataMs \in Nat
      BY SdAssumption
    <3>2. CASE Timers
      BY <3>2, DurationsAssumption DEF Timers
    <3>3. CASE Voltage \/ BeginChunk
      BY <3>1, <3>3 DEF Voltage, BeginChunk, Send, Failing
    <3>4. CASE UNCHANGED vars
      BY <3>4
    <3>5. \/ Timers \/ Voltage \/ BeginChunk \/ UNCHANGED vars
      BY <1>2 DEF SdNext, Request, Step, Reset, Identify, Speed, Deselect, Deinit, NextRun, SyncEnds,
                  StopTransfer, EndChunk, PowerUp, Poll, MoveSector, Programmed, Move, Send, Passing,
                  Failing, Finish, sdVars
    <3> QED BY <3>2, <3>3, <3>4, <3>5
  <2>2. CASE UNCHANGED vars
    BY <1>2, <2>2 DEF vars, Inv, TypeOK, Countdown
  <2> QED BY <1>2, <2>1, <2>2, StartStep, AbortStep, TickStep
<1>3. Inv => [InTime]_vars
  BY EndsInTime
<1> QED BY <1>1, <1>2, <1>3, PTL DEF SdSpec, ElapsesInTime, InTime

-----------------------------------------------------------------------------
(* IS-Viewer.  A unit of a buffer is known by its distance from the read    *)
(* pointer: the units up to the write pointer are the last ones written,    *)
(* the packet takes the first of them, and the host has got no others than  *)
(* those before, for every buffer but those of a callback that went astray. *)

Distance(p, q) == IF q >= p THEN q - p ELSE q - p + BufferSize

\* Units of the buffer at address a that wait for the read pointer.
Waiting(a) == Distance(readPtr[a], writePtr[a])

OutOf(a) == packet # "none" /\ from[1] = a

\* Units of the buffer that were read, or skipped by a callback that came early.
Through(a) == written[a] - Waiting(a) + (IF OutOf(a) THEN done ELSE 0)

\* isv_process goes on exactly when its packet came back, and looks at the
\* buffer only then; a transfer goes on without its callback only after an
\* early one.
Turns ==
  /\ ready <=> packet = "none"
  /\ pc = "wp" => ready /\ address # 0 /\ rp = readPtr[address]
  /\ packet = "slot" => done = 0
  /\ packet # "none" => from[1] # 0
  /\ ~early => orphan = <<>>
  /\ early => resets > 0

Ring(a) ==
  /\ Waiting(a) <= written[a]
  /\ \A c \in Cells : Distance(readPtr[a], c) < Waiting(a) =>
       cells[a][c] = written[a] - Waiting(a) + Distance(readPtr[a], c) + 1
  /\ OutOf(a) =>
       /\ from[2] = readPtr[a] /\ from[2] + length <= BufferSize
       /\ length > 0 /\ length <= Waiting(a)
       /\ Distance(readPtr[a], nextRead) = length

Got(a) ==
  /\ ~early =>
       /\ \A i \in 2..Len(received[a]) : received[a][i] > received[a][i - 1]
       /\ \A i \in 1..Len(received[a]) : received[a][i] <= Through(a)
  /\ resets = 0 =>
       /\ Len(received[a]) = Through(a)
       /\ \A i \in 1..Len(received[a]) : received[a][i] = i

IsvInv == IsvTypeOK /\ Turns /\ \A a \in Addresses \ astray : Ring(a) /\ Got(a)

LEMMA DistanceBounds ==
  ASSUME NEW p \in Cells, NEW q \in Cells
  PROVE  /\ Distance(p, q) \in 0..BufferSize - 1
         /\ Distance(p, q) = 0 <=> p = q
         /\ \A c \in Cells : Distance(p, c) = Distance(p, q) => c = q
BY SizeAssumption DEF Cells, Distance

\* The cell behind a cell.
LEMMA CellBehind ==
  ASSUME NEW p \in Cells, NEW q \in Cells
  PROVE  /\ (q + 1) % BufferSize \in Cells
         /\ (q + 1) % BufferSize # p => Distance(p, (q + 1) % BufferSize) = Distance(p, q) + 1
<1>1. q \in Nat /\ q < BufferSize /\ BufferSize \in Nat /\ BufferSize > 1
  BY SizeAssumption DEF Cells
<1>2. CASE q + 1 = BufferSize
  <2>1. (q + 1) % BufferSize = 0
    BY <1>1, <1>2
  <2>2. QED BY <2>1, <1>1, <1>2 DEF Cells, Distance
<1>3. CASE q + 1 < BufferSize
  <2>1. (q + 1) % BufferSize = q + 1
    BY <1>1, <1>3
  <2>2. QED BY <2>1, <1>1, <1>3 DEF Cells, Distance
<1>4. QED BY <1>1, <1>2, <1>3

\* Distances from a cell that lies between two others.
LEMMA DistanceMoves ==
  ASSUME NEW p \in Cells, NEW n \in Cells, NEW q \in Cells, Distance(p, n) <= Distance(p, q)
  PROVE  /\ Distance(n, q) = Distance(p, q) - Distance(p, n)
         /\ \A c \in Cells : Distance(n, c) < Distance(n, q) =>
              Distance(p, c) = Distance(p, n) + Distance(n, c)
BY SizeAssumption DEF Cells, Distance

\* An item of a sequence is an element of its set.
LEMMA ItemOf == ASSUME NEW S, NEW t \in Seq(S), NEW i \in 1..Len(t) PROVE t[i] \in S
OBVIOUS

LEMMA FirstOf ==
  ASSUME NEW S, NEW t \in Seq(S), t # <<>>
  PROVE  Head(t) \in S /\ Tail(t) \in Seq(S)
OBVIOUS

LEMMA RingPositions ==
  ASSUME IsvTypeOK, NEW a \in Places
  PROVE  /\ readPtr[a] \in Cells /\ writePtr[a] \in Cells
         /\ Waiting(a) \in 0..BufferSize - 1 /\ written[a] \in Nat
         /\ done \in Nat /\ length \in Nat /\ done <= length
         /\ Len(received[a]) \in Nat
         /\ \A i \in 1..Len(received[a]) : received[a][i] \in Nat
<1>1. readPtr[a] \in Cells /\ writePtr[a] \in Cells
  BY DEF IsvTypeOK
<1>2. Waiting(a) \in 0..BufferSize - 1
  BY <1>1, DistanceBounds DEF Waiting
<1>3. written[a] \in Nat /\ done \in Nat /\ length \in Nat /\ done <= length
  BY SizeAssumption, BoundsAssumption DEF IsvTypeOK
<1>4. received[a] \in Seq(0..MaxText) /\ 0..MaxText \subseteq Nat
  BY BoundsAssumption DEF IsvTypeOK
<1>5. Len(received[a]) \in Nat /\ \A i \in 1..Len(received[a]) : received[a][i] \in Nat
  <2>1. Len(received[a]) \in Nat
    BY <1>4
  <2>2. ASSUME NEW i \in 1..Len(received[a]) PROVE received[a][i] \in 0..MaxText
    BY <1>4, ItemOf
  <2>3. QED BY <2>1, <2>2, <1>4
<1>6. QED BY <1>1, <1>2, <1>3, <1>5

\* What a step leaves alone.
LEMMA BufferStill ==
  ASSUME NEW a \in Addresses, Ring(a), Got(a),
         UNCHANGED <<readPtr, writePtr, cells, written, received, from, length, done, nextRead>>,
         packet' = "none" <=> packet = "none", early => early', resets' = 0 => resets = 0
  PROVE  Ring(a)' /\ Got(a)'
<1>1. OutOf(a)' <=> OutOf(a)
  BY DEF OutOf
<1>2. Waiting(a)' = Waiting(a)
  BY DEF Waiting
<1>3. Through(a)' = Through(a)
  BY <1>1, <1>2 DEF Through
<1>4. Ring(a)'
  BY <1>1, <1>2 DEF Ring
<1>5. Got(a)'
  BY <1>3 DEF Got
<1>6. QED BY <1>4, <1>5

\* The steps that move no text: the turns of isv.c that send nothing, the
\* setup, the slot and the packets of others.
LEMMA QuietSteps ==
  ASSUME IsvInv,
         \/ \E a \in Places : SetAddress(a)
         \/ AnswerSetup \/ ReadReadPointer \/ NothingSent
         \/ TakePacket \/ OtherFills \/ OtherLeaves
         \/ N64Ask \/ \E a \in Addresses : N64Open(a)
         \/ UNCHANGED allVars
  PROVE  IsvInv'
<1> USE DEF allVars, isvVars, memVars, pktVars, textVars
<1>1. /\ UNCHANGED <<readPtr, writePtr, cells, written, received, from, length, done, nextRead>>
      /\ UNCHANGED <<early, astray, resets, ready, orphan>>
      /\ packet' = "none" <=> packet = "none"
  BY DEF SetAddress, AnswerSetup, ReadReadPointer, NothingSent, TakePacket, OtherFills,
         OtherLeaves, N64Ask, N64Open
<1>2. IsvTypeOK'
  <2>1. UNCHANGED <<readPtr, writePtr, cells, written, received, from, length, done, nextRead,
                    early, astray, resets, ready, orphan>>
    BY <1>1
  <2>2. address' \in Places /\ moves' \in 0..MaxMoves
    <3>1. MaxMoves \in Nat /\ address \in Places /\ moves \in 0..MaxMoves
      BY BoundsAssumption DEF IsvInv, IsvTypeOK
    <3>2. ASSUME NEW a \in Places, SetAddress(a) PROVE address' \in Places /\ moves' \in 0..MaxMoves
      BY <3>1, <3>2 DEF SetAddress
    <3>3. CASE \A a \in Places : ~SetAddress(a)
      <4>1. UNCHANGED <<address, moves>>
        BY <3>3 DEF AnswerSetup, ReadReadPointer, NothingSent, TakePacket, OtherFills, OtherLeaves,
           N64Ask, N64Open
      <4>2. QED BY <4>1, <3>1
    <3>4. QED BY <3>2, <3>3
  <2>3. others' \in 0..MaxOthers /\ slotFull' \in BOOLEAN
    <3>1. MaxOthers \in Nat /\ others \in 0..MaxOthers /\ slotFull \in BOOLEAN
      BY BoundsAssumption DEF IsvInv, IsvTypeOK
    <3>2. CASE OtherFills
      BY <3>1, <3>2 DEF OtherFills
    <3>3. CASE OtherLeaves
      BY <3>1, <3>3 DEF OtherLeaves
    <3>4. CASE ~OtherFills /\ ~OtherLeaves
      <4>1. UNCHANGED <<others, slotFull>>
        BY <3>4 DEF SetAddress, AnswerSetup, ReadReadPointer, NothingSent, TakePacket, N64Ask, N64Open
      <4>2. QED BY <4>1, <3>1
    <3>5. QED BY <3>2, <3>3, <3>4
  <2>4. token' \in [Places -> BOOLEAN] /\ setup' \in {"none", "asked", "ready"}
    BY DEF IsvInv, IsvTypeOK, SetAddress, AnswerSetup, ReadReadPointer, NothingSent, TakePacket,
       OtherFills, OtherLeaves, N64Ask, N64Open
  <2>5. pc' \in {"idle", "wp"} /\ rp' \in Cells /\ packet' \in {"none", "slot", "flight"}
    <3>1. /\ pc \in {"idle", "wp"} /\ rp \in Cells /\ packet \in {"none", "slot", "flight"}
          /\ address \in Places /\ readPtr \in [Places -> Cells]
      BY DEF IsvInv, IsvTypeOK
    <3>2. CASE ReadReadPointer \/ NothingSent \/ TakePacket
      BY <3>1, <3>2 DEF ReadReadPointer, NothingSent, TakePacket
    <3>3. CASE ~ReadReadPointer /\ ~NothingSent /\ ~TakePacket
      <4>1. UNCHANGED <<pc, rp, packet>>
        BY <3>3 DEF SetAddress, AnswerSetup, OtherFills, OtherLeaves, N64Ask, N64Open
      <4>2. QED BY <4>1, <3>1
    <3>4. QED BY <3>2, <3>3
  <2>6. QED BY <2>1, <2>2, <2>3, <2>4, <2>5 DEF IsvInv, IsvTypeOK
<1>3. Turns'
  BY <1>1 DEF IsvInv, Turns, SetAddress, AnswerSetup, ReadReadPointer, NothingSent, TakePacket,
       OtherFills, OtherLeaves, N64Ask, N64Open
<1>4. ASSUME NEW a \in Addresses \ astray' PROVE Ring(a)' /\ Got(a)'
  <2>1. Ring(a) /\ Got(a)
    BY <1>1 DEF IsvInv
  <2>2. QED BY <2>1, <1>1, BufferStill
<1>5. QED BY <1>2, <1>3, <1>4 DEF IsvInv

\* A packet is the text up to the write pointer or up to the end of the buffer
\* (isv.c:94-106).
LEMMA SendsText == IsvInv /\ SendText => IsvInv'
<1> SUFFICES ASSUME IsvInv, SendText PROVE IsvInv'
  OBVIOUS
<1> USE DEF isvVars, memVars, pktVars, textVars
<1> DEFINE w == writePtr[address]
<1>1. /\ rp = readPtr[address] /\ address \in Addresses /\ packet = "none" /\ w # rp
      /\ rp \in Cells /\ w \in Cells
  <2>1. address \in Places /\ address # 0
    BY DEF IsvInv, IsvTypeOK, Turns, SendText
  <2>2. QED BY <2>1, RingPositions DEF IsvInv, Turns, SendText, Places
<1>2. /\ PacketLength \in 1..BufferSize - 1 /\ rp + PacketLength <= BufferSize
      /\ nextRead' \in Cells /\ Distance(rp, nextRead') = PacketLength
      /\ PacketLength <= Distance(rp, w)
  BY <1>1, SizeAssumption DEF SendText, PacketLength, Wrapped, Distance, Cells
<1>3. IsvTypeOK'
  <2>1. packet' = "slot" /\ from' = <<address, rp>> /\ length' \in 0..BufferSize /\ done' = 0
    BY <1>2, SizeAssumption DEF SendText
  <2>2. from' \in Places \X Cells /\ done' \in 0..length' /\ ready' = FALSE /\ pc' = "idle"
    BY <2>1, <1>1 DEF SendText, Places
  <2>3. QED BY <2>1, <2>2, <1>2 DEF SendText, IsvInv, IsvTypeOK
<1>4. Turns'
  BY <1>1 DEF SendText, IsvInv, Turns
<1>5. ASSUME NEW a \in Addresses \ astray' PROVE Ring(a)' /\ Got(a)'
  <2>1. Ring(a) /\ Got(a) /\ ~OutOf(a)
    BY <1>1, <1>5 DEF SendText, IsvInv, OutOf
  <2>2. Waiting(a)' = Waiting(a) /\ Through(a)' = Through(a)
    <3>1. Waiting(a)' = Waiting(a)
      BY DEF SendText, Waiting
    <3>2. Waiting(a) \in Nat /\ written[a] \in Nat /\ written' = written /\ done' = 0
      BY RingPositions DEF SendText, IsvInv, Places
    <3>3. QED BY <2>1, <3>1, <3>2 DEF Through
  <2>3. Ring(a)'
    <3>1. CASE a = address
      <4>1. from'[2] = readPtr'[a] /\ length' = PacketLength /\ Waiting(a) = Distance(rp, w)
        BY <3>1, <1>1 DEF SendText, Waiting
      <4>2. /\ from'[2] + length' <= BufferSize /\ length' > 0 /\ length' <= Waiting(a)'
            /\ Distance(readPtr'[a], nextRead') = length'
        BY <4>1, <2>2, <3>1, <1>1, <1>2, SizeAssumption DEF SendText
      <4>3. QED BY <4>1, <4>2, <2>1, <2>2 DEF SendText, Ring
    <3>2. CASE a # address
      <4>1. ~OutOf(a)'
        BY <3>2 DEF SendText, OutOf
      <4>2. QED BY <4>1, <2>1, <2>2 DEF SendText, Ring
    <3>3. QED BY <3>1, <3>2
  <2>4. Got(a)'
    BY <2>1, <2>2 DEF SendText, Got
  <2>5. QED BY <2>3, <2>4
<1>6. QED BY <1>3, <1>4, <1>5 DEF IsvInv

\* The N64 fills the cell at the write pointer, as long as the one behind it is
\* not the read pointer.
LEMMA WritesText == \A b \in Addresses : IsvInv /\ N64Write(b) => IsvInv'
<1> SUFFICES ASSUME NEW b \in Addresses, IsvInv, N64Write(b) PROVE IsvInv'
  OBVIOUS
<1> USE DEF isvVars, memVars, pktVars, textVars
<1> DEFINE p == readPtr[b]  w == writePtr[b]  n == (writePtr[b] + 1) % BufferSize
<1>1. p \in Cells /\ w \in Cells /\ b \in Places /\ written[b] \in Nat /\ Waiting(b) \in Nat
  BY RingPositions DEF IsvInv, Places
<1>2. n \in Cells /\ n # p /\ Distance(p, n) = Distance(p, w) + 1
  BY <1>1, CellBehind DEF N64Write
<1>3. IsvTypeOK'
  <2>1. written[b] + 1 \in 0..MaxText
    BY <1>1, BoundsAssumption DEF N64Write
  <2>2. written' \in [Places -> 0..MaxText]
    BY <2>1, <1>1 DEF N64Write, IsvInv, IsvTypeOK
  <2>3. writePtr' \in [Places -> Cells]
    BY <1>1, <1>2 DEF N64Write, IsvInv, IsvTypeOK
  <2>4. cells' \in [Places -> [Cells -> 0..MaxText]]
    BY <2>1, <1>1 DEF N64Write, IsvInv, IsvTypeOK
  <2>5. QED BY <2>2, <2>3, <2>4 DEF N64Write, IsvInv, IsvTypeOK
<1>4. Turns'
  BY DEF N64Write, IsvInv, Turns
<1>5. ASSUME NEW a \in Addresses \ astray' PROVE Ring(a)' /\ Got(a)'
  <2>1. Ring(a) /\ Got(a) /\ a \in Places
    BY <1>5 DEF N64Write, IsvInv, Places
  <2>2. OutOf(a)' <=> OutOf(a)
    BY DEF N64Write, OutOf
  <2>3. CASE a = b
    <3>1. Waiting(a)' = Waiting(a) + 1 /\ written'[a] = written[a] + 1
      BY <2>3, <1>1, <1>2, <2>1 DEF N64Write, Waiting, IsvInv, IsvTypeOK
    <3>2. Through(a)' = Through(a)
      <4>1. Waiting(a) \in Nat /\ written[a] \in Nat /\ done \in Nat /\ done' = done
        BY <2>1, RingPositions DEF N64Write, IsvInv
      <4>2. QED BY <3>1, <4>1, <2>2 DEF Through
    <3>3. ASSUME NEW c \in Cells, Distance(p, c) < Waiting(a) + 1
          PROVE  cells'[a][c] = written[a] - Waiting(a) + Distance(p, c) + 1
      <4>1. Distance(p, c) \in Nat /\ (Distance(p, c) = Distance(p, w) => c = w)
        BY <1>1, SizeAssumption, DistanceBounds
      <4>2. Waiting(a) = Distance(p, w)
        BY <2>3 DEF Waiting
      <4>3. CASE c = w
        <5>1. cells'[a][c] = written[a] + 1
          BY <4>3, <2>3, <1>1, <2>1 DEF N64Write, IsvInv, IsvTypeOK
        <5>2. QED BY <5>1, <4>2, <4>3, <2>3, <1>1, <4>1
      <4>4. CASE c # w
        <5>1. cells'[a][c] = cells[a][c]
          BY <4>4, <2>3, <1>1, <2>1 DEF N64Write, IsvInv, IsvTypeOK
        <5>2. Distance(p, c) < Waiting(a)
          <6>1. Distance(p, c) # Distance(p, w)
            BY <4>1, <4>4
          <6>2. Waiting(a) \in Nat
            BY <1>1, <2>3
          <6>3. QED BY <6>2, <6>1, <3>3, <4>1, <4>2
        <5>3. QED BY <5>1, <5>2, <2>1, <2>3 DEF Ring
      <4>5. QED BY <4>3, <4>4
    <3>4. Ring(a)'
      <4>1. Waiting(a)' <= written'[a] /\ (length <= Waiting(a) => length <= Waiting(a)')
        BY <3>1, <2>1, <2>3, <1>1, RingPositions DEF Ring, IsvInv
      <4>2. written'[a] - Waiting(a)' = written[a] - Waiting(a)
        BY <3>1, <2>3, <1>1
      <4>3. readPtr' = readPtr
        BY DEF N64Write
      <4>4. \A c \in Cells : Distance(readPtr'[a], c) < Waiting(a)' =>
              cells'[a][c] = written'[a] - Waiting(a)' + Distance(readPtr'[a], c) + 1
        BY <3>3, <3>1, <4>2, <4>3, <2>3
      <4>5. QED BY <4>1, <4>4, <2>1, <2>2 DEF N64Write, Ring
    <3>5. Got(a)'
      BY <3>2, <2>1 DEF N64Write, Got
    <3>6. QED BY <3>4, <3>5
  <2>4. CASE a # b
    <3>1. /\ written'[a] = written[a] /\ writePtr'[a] = writePtr[a] /\ cells'[a] = cells[a]
          /\ readPtr' = readPtr
      BY <2>4, <2>1 DEF N64Write, IsvInv, IsvTypeOK
    <3>2. Waiting(a)' = Waiting(a)
      BY <3>1 DEF Waiting
    <3>3. Through(a)' = Through(a)
      BY <3>1, <3>2, <2>2 DEF N64Write, Through
    <3>4. Ring(a)'
      BY <3>1, <3>2, <2>1, <2>2 DEF N64Write, Ring
    <3>5. Got(a)'
      BY <3>3, <2>1 DEF N64Write, Got
    <3>6. QED BY <3>4, <3>5
  <2>5. QED BY <2>3, <2>4
<1>6. QED BY <1>3, <1>4, <1>5 DEF IsvInv

\* The cells of a packet lie behind the read pointer in their order.
LEMMA PacketCells ==
  ASSUME IsvTypeOK, NEW a \in Addresses, Ring(a), OutOf(a), done < length
  PROVE  /\ CellOf(done) = <<a, readPtr[a] + done>> /\ readPtr[a] + done \in Cells
         /\ cells[a][readPtr[a] + done] = written[a] - Waiting(a) + done + 1
<1>1. /\ readPtr[a] \in Nat /\ done \in Nat /\ length \in Nat /\ readPtr[a] + length <= BufferSize
      /\ from[2] = readPtr[a] /\ from[1] = a /\ length <= Waiting(a) /\ Waiting(a) \in Nat
  BY RingPositions, SizeAssumption DEF Ring, OutOf, Cells, Places
<1> DEFINE c == readPtr[a] + done
<1>2. c \in Nat /\ c < BufferSize /\ c \in Cells /\ BufferSize \in Nat
  BY <1>1, SizeAssumption DEF Cells
<1>3. c % BufferSize = c
  BY <1>2
<1>4. CellOf(done) = <<a, c>>
  BY <1>1, <1>3 DEF CellOf
<1>5. Distance(readPtr[a], c) = done /\ done < Waiting(a)
  BY <1>1, <1>2 DEF Distance
<1>6. cells[a][c] = written[a] - Waiting(a) + done + 1
  BY <1>2, <1>5 DEF Ring
<1>7. QED BY <1>2, <1>4, <1>6

\* The host gets the unit behind the last one it got, or, after an early
\* callback, whatever the orphan finds.
LEMMA ReadsText == IsvInv /\ ReadUnit => IsvInv'
<1> SUFFICES ASSUME IsvInv, ReadUnit PROVE IsvInv'
  OBVIOUS
<1> USE DEF isvVars, memVars, pktVars, textVars
<1>1. PICK x \in Places \X Cells :
        /\ Take(x)
        /\ \/ packet = "flight" /\ done < length /\ x = CellOf(done) /\ done' = done + 1
              /\ orphan' = orphan
           \/ orphan # <<>> /\ orphan' = Tail(orphan) /\ done' = done
  <2>1. CASE packet = "flight" /\ done < length /\ Take(CellOf(done)) /\ done' = done + 1 /\ UNCHANGED orphan
    <3>1. from \in Places \X Cells /\ done \in Nat /\ BufferSize \in Nat \ {0}
      BY SizeAssumption DEF IsvInv, IsvTypeOK
    <3>2. from[2] + done \in Nat /\ from[1] \in Places
      BY <3>1, SizeAssumption DEF Cells
    <3>3. (from[2] + done) % BufferSize \in Cells
      BY <3>1, <3>2 DEF Cells
    <3>4. CellOf(done) \in Places \X Cells
      BY <3>2, <3>3 DEF CellOf
    <3>5. QED BY <2>1, <3>4
  <2>2. CASE orphan # <<>> /\ Take(Head(orphan)) /\ orphan' = Tail(orphan) /\ UNCHANGED done
    <3>1. Head(orphan) \in Places \X Cells
      <4>1. orphan \in Seq(Places \X Cells)
        BY DEF IsvInv, IsvTypeOK
      <4>2. QED BY <4>1, <2>2, FirstOf
    <3>2. QED BY <2>2, <3>1
  <2>3. QED BY <2>1, <2>2 DEF ReadUnit
<1> DEFINE v == cells[x[1]][x[2]]  b == x[1]
<1>2. /\ b \in Places /\ received'[b] = Append(received[b], v)
      /\ \A a \in Places \ {b} : received'[a] = received[a]
      /\ v \in 0..MaxText /\ received[b] \in Seq(0..MaxText)
  BY <1>1 DEF Take, IsvInv, IsvTypeOK
<1>3. IsvTypeOK'
  <2>1. received' \in [Places -> Seq(0..MaxText)]
    <3>1. Append(received[b], v) \in Seq(0..MaxText)
      BY <1>2
    <3>2. QED BY <3>1, <1>1 DEF Take, IsvInv, IsvTypeOK
  <2>2. orphan' \in Seq(Places \X Cells)
    <3>1. orphan \in Seq(Places \X Cells)
      BY DEF IsvInv, IsvTypeOK
    <3>2. CASE orphan # <<>> /\ orphan' = Tail(orphan)
      BY <3>1, <3>2, FirstOf
    <3>3. CASE orphan' = orphan
      BY <3>1, <3>3
    <3>4. QED BY <1>1, <3>2, <3>3
  <2>3. done' \in 0..length' /\ length' = length
    <3>1. length \in Nat /\ done \in 0..length /\ length' = length
      BY SizeAssumption DEF IsvInv, IsvTypeOK, ReadUnit
    <3>2. QED BY <3>1, <1>1
  <2>4. QED BY <2>1, <2>2, <2>3 DEF ReadUnit, IsvInv, IsvTypeOK
<1>4. Turns'
  BY <1>1 DEF ReadUnit, IsvInv, Turns
<1>5. ASSUME NEW a \in Addresses \ astray' PROVE Ring(a)' /\ Got(a)'
  <2>1. Ring(a) /\ Got(a) /\ a \in Places /\ IsvTypeOK
    BY <1>5 DEF ReadUnit, IsvInv, Places
  <2>2. OutOf(a)' <=> OutOf(a)
    BY DEF ReadUnit, OutOf
  <2>3. Waiting(a)' = Waiting(a)
    BY DEF ReadUnit, Waiting
  <2>4. Ring(a)'
    BY <2>1, <2>2, <2>3 DEF ReadUnit, Ring
  <2>5. /\ Waiting(a) \in Nat /\ written[a] \in Nat /\ done \in Nat /\ Len(received[a]) \in Nat
        /\ \A i \in 1..Len(received[a]) : received[a][i] \in Nat
        /\ Waiting(a) <= written[a]
    BY <2>1, RingPositions DEF Ring
  <2>6. written' = written /\ early' = early /\ resets' = resets
    BY DEF ReadUnit
  <2>7. CASE packet = "flight" /\ done < length /\ x = CellOf(done) /\ done' = done + 1
    <3>1. CASE OutOf(a)
      <4>1. x = <<a, readPtr[a] + done>> /\ v = written[a] - Waiting(a) + done + 1
        BY <2>1, <2>7, <3>1, PacketCells
      <4>2. b = a /\ v = Through(a) + 1 /\ Through(a)' = Through(a) + 1 /\ Through(a) \in Nat
        <5>1. Through(a) = written[a] - Waiting(a) + done
          BY <3>1 DEF Through
        <5>2. Through(a)' = written[a] - Waiting(a) + (done + 1)
          <6>1. OutOf(a)' /\ written'[a] = written[a] /\ done' = done + 1
            BY <3>1, <2>2, <2>6, <2>7
          <6>2. Through(a)' = written'[a] - Waiting(a)' + done'
            BY <6>1 DEF Through
          <6>3. written'[a] - Waiting(a)' + done' = written[a] - Waiting(a) + (done + 1)
            BY <6>1, <2>3
          <6>4. QED BY <6>2, <6>3
        <5>3. Through(a) \in Nat /\ Through(a)' = Through(a) + 1
          BY <5>1, <5>2, <2>5
        <5>4. v = Through(a) + 1
          <6>1. v = written[a] - Waiting(a) + done + 1
            BY <4>1
          <6>2. QED BY <6>1, <5>1
        <5>5. b = a
          BY <4>1
        <5>6. QED BY <5>3, <5>4, <5>5
      <4>3. received'[a] = Append(received[a], v) /\ received[a] \in Seq(0..MaxText)
        BY <1>2, <4>2
      <4> DEFINE r == received[a]  n == Len(received[a])
      <4>4. /\ Len(received'[a]) = n + 1 /\ received'[a][n + 1] = v
            /\ \A i \in 1..n : received'[a][i] = r[i]
        BY <4>3, <2>5
      <4>5. Got(a)'
        <5>1. ASSUME ~early, NEW i \in 2..n + 1 PROVE received'[a][i] > received'[a][i - 1]
          <6>1. \A j \in 1..n : r[j] <= Through(a)
            BY <2>1, <5>1 DEF Got
          <6>2. \A j \in 2..n : r[j] > r[j - 1]
            BY <2>1, <5>1 DEF Got
          <6>3. CASE i = n + 1
            <7>1. n \in 1..n /\ received'[a][n] = r[n] /\ r[n] <= Through(a) /\ r[n] \in Nat
              BY SMTT(30), <6>1, <6>3, <4>4, <2>5
            <7>2. QED BY <7>1, <6>3, <4>4, <4>2, <2>5
          <6>4. CASE i \in 2..n
            <7>1. i \in 1..n /\ i - 1 \in 1..n
              BY <6>4, <2>5
            <7>2. QED BY <7>1, <6>2, <6>4, <4>4
          <6>5. QED BY <6>3, <6>4, <2>5
        <5>2. ASSUME ~early, NEW i \in 1..n + 1 PROVE received'[a][i] <= Through(a)'
          <6>1. \A j \in 1..n : r[j] <= Through(a)
            BY <2>1, <5>2 DEF Got
          <6>2. CASE i = n + 1
            BY <6>2, <4>4, <4>2
          <6>3. CASE i \in 1..n
            <7>1. received'[a][i] = r[i] /\ r[i] <= Through(a) /\ r[i] \in Nat
              BY <6>1, <6>3, <4>4, <2>5
            <7>2. QED BY <7>1, <4>2
          <6>4. QED BY <6>2, <6>3, <2>5
        <5>3. ASSUME resets = 0 PROVE n + 1 = Through(a)' /\ \A i \in 1..n + 1 : received'[a][i] = i
          <6>1. n = Through(a) /\ \A i \in 1..n : r[i] = i
            BY <2>1, <5>3 DEF Got
          <6>2. received'[a][n + 1] = n + 1
            BY <6>1, <4>2, <4>4
          <6>3. ASSUME NEW i \in 1..n + 1 PROVE received'[a][i] = i
            <7>1. CASE i = n + 1
              BY <7>1, <6>2
            <7>2. CASE i \in 1..n
              BY <7>2, <6>1, <4>4
            <7>3. QED BY <7>1, <7>2, <2>5
          <6>4. QED BY <6>1, <6>3, <4>2
        <5>4. QED BY <5>1, <5>2, <5>3, <4>4, <2>6 DEF Got
      <4>6. QED BY <2>4, <4>5
    <3>2. CASE ~OutOf(a)
      <4>1. a # b
        <5>1. packet # "none" /\ b = from[1]
          BY <2>7 DEF CellOf
        <5>2. QED BY <5>1, <3>2 DEF OutOf
      <4>2. received'[a] = received[a] /\ Through(a)' = Through(a)
        BY <4>1, <1>2, <2>1, <2>2, <2>3, <2>6, <3>2 DEF Through
      <4>3. QED BY <4>2, <2>1, <2>4, <2>6 DEF Got
    <3>3. QED BY <3>1, <3>2
  <2>8. CASE orphan # <<>>
    <3>1. early /\ resets # 0
      <4>1. early /\ resets > 0
        BY <2>8 DEF IsvInv, Turns
      <4>2. QED BY <4>1
    <3>2. Got(a)'
      BY <3>1, <2>6 DEF Got
    <3>3. QED BY <2>4, <3>2
  <2>9. QED BY <1>1, <2>7, <2>8
<1>6. QED BY <1>3, <1>4, <1>5 DEF IsvInv

\* The callback moves the read pointer behind the packet, or, when the host has
\* moved the buffer meanwhile, another one: then neither buffer counts.
LEMMA CallbackMoves ==
  ASSUME IsvInv, packet # "none", packet' = "none", UpdateReadPointer,
         UNCHANGED <<address, writePtr, cells, written, received, from, length, nextRead>>,
         NEW a \in Addresses \ astray'
  PROVE  /\ Ring(a)'
         /\ Through(a)' = Through(a) + (IF OutOf(a) THEN length - done ELSE 0)
         /\ Through(a) \in Nat
<1>1. a \notin astray /\ Ring(a) /\ a \in Places /\ IsvTypeOK
  BY DEF UpdateReadPointer, IsvInv, Places
<1>2. /\ Waiting(a) \in Nat /\ written[a] \in Nat /\ done \in Nat /\ length \in Nat
      /\ readPtr[a] \in Cells /\ writePtr[a] \in Cells /\ nextRead \in Cells
      /\ written'[a] = written[a] /\ Waiting(a) <= written[a]
  <2>1. nextRead \in Cells /\ written'[a] = written[a] /\ Waiting(a) <= written[a]
    BY <1>1 DEF Ring, IsvTypeOK
  <2>2. QED BY <2>1, <1>1, RingPositions
<1>3. Through(a) \in Nat
  BY <1>2 DEF Through
<1>4. ~OutOf(a)'
  BY DEF OutOf
<1>5. CASE OutOf(a)
  <2>1. address = a
    BY <1>5 DEF UpdateReadPointer, OutOf
  <2>2. readPtr'[a] = nextRead /\ writePtr'[a] = writePtr[a]
    BY <2>1, <1>1 DEF UpdateReadPointer, IsvTypeOK
  <2>3. Distance(readPtr[a], nextRead) = length /\ length <= Waiting(a)
    BY <1>1, <1>5 DEF Ring
  <2>4. /\ Waiting(a)' = Waiting(a) - length
        /\ \A c \in Cells : Distance(nextRead, c) < Waiting(a) - length =>
             Distance(readPtr[a], c) = length + Distance(nextRead, c)
    <3>1. Waiting(a) = Distance(readPtr[a], writePtr[a])
      BY DEF Waiting
    <3>2. /\ Distance(nextRead, writePtr[a]) = Waiting(a) - length
          /\ \A c \in Cells : Distance(nextRead, c) < Distance(nextRead, writePtr[a]) =>
               Distance(readPtr[a], c) = length + Distance(nextRead, c)
      BY <3>1, <2>3, <1>2, DistanceMoves
    <3>3. QED BY <3>2, <2>2 DEF Waiting
  <2>5. ASSUME NEW c \in Cells, Distance(nextRead, c) < Waiting(a)'
        PROVE  cells[a][c] = written[a] - Waiting(a)' + Distance(nextRead, c) + 1
    <3>1. Distance(nextRead, c) \in Nat
      BY <1>2, SizeAssumption, DistanceBounds
    <3>2. Distance(readPtr[a], c) = length + Distance(nextRead, c)
      BY <2>4, <2>5
    <3>3. Distance(readPtr[a], c) < Waiting(a)
      BY <3>1, <3>2, <2>4, <2>5, <1>2
    <3>4. cells[a][c] = written[a] - Waiting(a) + Distance(readPtr[a], c) + 1
      BY <3>3, <1>1 DEF Ring
    <3>5. QED BY <3>1, <3>2, <3>4, <2>4, <1>2
  <2>6. Waiting(a)' <= written[a]
    BY <2>4, <2>3, <1>2
  <2>7. Ring(a)'
    BY <2>2, <2>5, <2>6, <1>2, <1>4 DEF Ring
  <2>8. Through(a) = written[a] - Waiting(a) + done
    BY <1>5 DEF Through
  <2>9. Through(a)' = written[a] - (Waiting(a) - length) + 0
    BY <1>2, <1>4, <2>4 DEF Through
  <2>10. QED BY <2>7, <2>8, <2>9, <1>2, <1>3, <1>5
<1>6. CASE ~OutOf(a)
  <2>1. readPtr'[a] = readPtr[a]
    <3>1. address # a
      BY <1>6 DEF UpdateReadPointer, OutOf
    <3>2. QED BY <3>1, <1>1 DEF UpdateReadPointer, IsvTypeOK
  <2>2. Waiting(a)' = Waiting(a)
    BY <2>1 DEF Waiting
  <2>3. Ring(a)'
    BY <2>1, <2>2, <1>1, <1>2, <1>4 DEF Ring
  <2>4. Through(a)' = Through(a)
    BY <1>2, <1>4, <1>6, <2>2 DEF Through
  <2>5. QED BY <2>3, <2>4, <1>3, <1>6
<1>7. QED BY <1>5, <1>6

LEMMA CallbackTyped ==
  ASSUME IsvTypeOK, UpdateReadPointer
  PROVE  readPtr' \in [Places -> Cells] /\ ready' \in BOOLEAN /\ astray' \subseteq Places
<1>1. readPtr' \in [Places -> Cells]
  BY DEF IsvTypeOK, UpdateReadPointer
<1>2. from[1] \in Places /\ address \in Places /\ astray \subseteq Places
  BY DEF IsvTypeOK
<1>3. astray' \subseteq Places
  BY <1>2 DEF UpdateReadPointer
<1>4. QED BY <1>1, <1>3 DEF UpdateReadPointer

\* The callback after the last unit (usb.c:682-698).
LEMMA PacketComesBack == IsvInv /\ PacketDone => IsvInv'
<1> SUFFICES ASSUME IsvInv, PacketDone PROVE IsvInv'
  OBVIOUS
<1> USE DEF isvVars, memVars, pktVars, textVars
<1>1. IsvTypeOK'
  BY CallbackTyped DEF PacketDone, IsvInv, IsvTypeOK
<1>2. Turns'
  BY DEF PacketDone, UpdateReadPointer, IsvInv, Turns
<1>3. ASSUME NEW a \in Addresses \ astray' PROVE Ring(a)' /\ Got(a)'
  <2>1. Ring(a)' /\ Through(a)' = Through(a)
    <3>1. Ring(a)' /\ Through(a)' = Through(a) + (IF OutOf(a) THEN length - done ELSE 0) /\ Through(a) \in Nat
      BY CallbackMoves DEF PacketDone
    <3>2. done = length /\ length \in Nat
      BY SizeAssumption DEF PacketDone, IsvInv, IsvTypeOK
    <3>3. QED BY <3>1, <3>2
  <2>2. Got(a)
    BY DEF PacketDone, UpdateReadPointer, IsvInv
  <2>3. Got(a)'
    BY <2>1, <2>2 DEF PacketDone, Got
  <2>4. QED BY <2>1, <2>3
<1>4. QED BY <1>1, <1>2, <1>3 DEF IsvInv

\* A callback that comes too early leaves a gap, and an orphan when the
\* transfer goes on (usb.c:174-195).
LEMMA LinkGoes == IsvInv /\ (LinkReset \/ LinkSuspend) => IsvInv'
<1> SUFFICES ASSUME IsvInv, LinkReset \/ LinkSuspend PROVE IsvInv'
  OBVIOUS
<1> USE DEF isvVars, memVars, pktVars, textVars
<1>1. CASE LinkReset /\ packet = "none"
  <2>1. UNCHANGED <<readPtr, writePtr, cells, written, received, from, length, done, nextRead,
                    ready, astray, early, address, token, setup, pc, rp, moves, others>>
    BY <1>1 DEF LinkReset
  <2>2. packet' = "none" /\ orphan' = <<>> /\ slotFull' = FALSE /\ resets' = resets + 1
        /\ resets < MaxResets /\ resets \in Nat
    BY <1>1, BoundsAssumption DEF LinkReset, IsvInv, IsvTypeOK
  <2>3. IsvTypeOK'
    <3>1. resets' \in 0..MaxResets /\ orphan' \in Seq(Places \X Cells)
      BY <2>2, BoundsAssumption
    <3>2. QED BY <2>1, <2>2, <3>1 DEF IsvInv, IsvTypeOK
  <2>4. Turns'
    BY <1>1, <2>1, <2>2 DEF IsvInv, Turns
  <2>5. ASSUME NEW a \in Addresses \ astray' PROVE Ring(a)' /\ Got(a)'
    <3>1. Ring(a) /\ Got(a)
      BY <2>1 DEF IsvInv
    <3>2. QED BY <3>1, <2>1, <2>2, <1>1, BufferStill
  <2>6. QED BY <2>3, <2>4, <2>5 DEF IsvInv
<1>2. CASE (LinkReset \/ LinkSuspend) /\ packet # "none"
  <2>1. /\ UpdateReadPointer /\ packet' = "none"
        /\ UNCHANGED <<address, writePtr, cells, written, received, from, length, done, nextRead,
                       token, setup, pc, rp, moves, others>>
    BY <1>2 DEF LinkReset, LinkSuspend
  <2>2. resets' = resets + 1 /\ resets < MaxResets /\ resets \in Nat /\ pc = "idle"
    BY <1>2, BoundsAssumption DEF LinkReset, LinkSuspend, IsvInv, IsvTypeOK
  <2>3. orphan' \in Seq(Places \X Cells)
    <3>1. CASE orphan' = <<>> \/ orphan' = orphan
      <4>1. <<>> \in Seq(Places \X Cells) /\ orphan \in Seq(Places \X Cells)
        BY DEF IsvInv, IsvTypeOK
      <4>2. QED BY <3>1, <4>1
    <3>2. CASE orphan' = [i \in 1..(length - done) |-> CellOf(done + i - 1)]
      <4>1. length \in Nat /\ done \in Nat /\ done <= length /\ from \in Places \X Cells
        BY SizeAssumption DEF IsvInv, IsvTypeOK
      <4>2. ASSUME NEW i \in 1..(length - done) PROVE CellOf(done + i - 1) \in Places \X Cells
        <5>1. from[2] + (done + i - 1) \in Nat /\ from[1] \in Places /\ BufferSize \in Nat \ {0}
          BY <4>1, SizeAssumption DEF Cells
        <5>2. (from[2] + (done + i - 1)) % BufferSize \in Cells
          BY <5>1 DEF Cells
        <5>3. QED BY <5>1, <5>2 DEF CellOf
      <4>3. length - done \in Nat
        BY <4>1
      <4>4. QED BY <3>2, <4>2, <4>3
    <3>3. QED BY <1>2, <3>1, <3>2 DEF LinkReset, LinkSuspend
  <2>4. slotFull' \in BOOLEAN /\ early' \in BOOLEAN /\ (early => early')
    BY <1>2 DEF LinkReset, LinkSuspend, IsvInv, IsvTypeOK
  <2>5. IsvTypeOK'
    <3>1. resets' \in 0..MaxResets
      BY <2>2, BoundsAssumption
    <3>2. readPtr' \in [Places -> Cells] /\ ready' \in BOOLEAN /\ astray' \subseteq Places
      BY <2>1, CallbackTyped DEF IsvInv
    <3>3. QED BY <2>1, <2>3, <2>4, <3>1, <3>2 DEF IsvInv, IsvTypeOK
  <2>6. Turns'
    <3>1. ready' = TRUE /\ resets' > 0
      BY <2>1, <2>2 DEF UpdateReadPointer
    <3>2. ~early' => orphan' = <<>>
      <4>1. CASE LinkReset
        BY <4>1 DEF LinkReset
      <4>2. CASE LinkSuspend /\ packet # "flight"
        BY <4>2 DEF LinkSuspend, IsvInv, Turns
      <4>3. CASE LinkSuspend /\ packet = "flight"
        <5>1. SUFFICES ASSUME ~early' PROVE orphan' = <<>>
          OBVIOUS
        <5>2. length \in Nat /\ done \in Nat /\ done <= length
          BY SizeAssumption DEF IsvInv, IsvTypeOK
        <5>3. ~(done < length)
          BY <4>3, <5>1 DEF LinkSuspend
        <5>4. length - done = 0
          BY <5>2, <5>3
        <5>5. orphan' = [i \in 1..(length - done) |-> CellOf(done + i - 1)]
          BY <4>3 DEF LinkSuspend
        <5>6. QED BY <5>4, <5>5
      <4>4. QED BY <1>2, <4>1, <4>2, <4>3
    <3>3. QED BY <3>1, <3>2, <2>1, <2>2 DEF Turns
  <2>7. ASSUME NEW a \in Addresses \ astray' PROVE Ring(a)' /\ Got(a)'
    <3>1. Ring(a)' /\ Through(a)' = Through(a) + (IF OutOf(a) THEN length - done ELSE 0) /\ Through(a) \in Nat
      BY <2>1, <1>2, CallbackMoves
    <3>2. length \in Nat /\ done \in Nat /\ done <= length
      BY SizeAssumption DEF IsvInv, IsvTypeOK
    <3>3. Through(a)' >= Through(a) /\ Through(a)' \in Nat
      BY <3>1, <3>2
    <3>4. Got(a) /\ a \in Places
      BY <2>1 DEF UpdateReadPointer, IsvInv, Places
    <3>5. \A i \in 1..Len(received[a]) : received[a][i] \in Nat
      BY <3>4, RingPositions DEF IsvInv
    <3>6. resets' # 0 /\ received' = received
      BY <2>1, <2>2
    <3>7. ASSUME ~early', NEW i \in 1..Len(received[a]) PROVE received[a][i] <= Through(a)'
      <4>1. received[a][i] <= Through(a)
        BY <3>4, <3>7, <2>4 DEF Got
      <4>2. QED BY <4>1, <3>1, <3>3, <3>5
    <3>8. Got(a)'
      BY <3>4, <3>6, <3>7, <2>4 DEF Got
    <3>9. QED BY <3>1, <3>8
  <2>8. QED BY <2>5, <2>6, <2>7 DEF IsvInv
<1>3. QED BY <1>1, <1>2 DEF LinkSuspend

\* Nothing is written before a program marks a buffer as its own.
LEMMA StartsEmpty == IsvInit => IsvInv
<1> SUFFICES ASSUME IsvInit PROVE IsvInv
  OBVIOUS
<1>1. 0 \in Cells /\ 0 \in Places
  BY SizeAssumption DEF Cells, Places
<1>2. IsvTypeOK
  BY <1>1, SizeAssumption, BoundsAssumption DEF IsvInit, IsvTypeOK
<1>3. Turns
  BY DEF IsvInit, Turns
<1>4. ASSUME NEW a \in Addresses PROVE Ring(a) /\ Got(a)
  <2>1. a \in Places /\ readPtr[a] = 0 /\ writePtr[a] = 0 /\ written[a] = 0 /\ received[a] = <<>>
    BY DEF IsvInit, Places
  <2>2. Waiting(a) = 0 /\ ~OutOf(a)
    BY <2>1 DEF Waiting, Distance, OutOf, IsvInit
  <2>3. Through(a) = 0
    BY <2>1, <2>2 DEF Through
  <2>4. \A c \in Cells : ~(Distance(0, c) < 0)
    BY <1>1, SizeAssumption, DistanceBounds
  <2>5. QED BY <2>1, <2>2, <2>3, <2>4 DEF Ring, Got
<1>5. QED BY <1>2, <1>3, <1>4 DEF IsvInv

\* The invariant of IS-Viewer, by the lemmas about its steps.
LEMMA IsvInvariant == IsvSpec => []IsvInv
<1>1. IsvInv /\ [IsvNext]_allVars => IsvInv'
  BY QuietSteps, SendsText, WritesText, ReadsText, PacketComesBack, LinkGoes DEF IsvNext, IsvProcess
<1>2. QED BY <1>1, StartsEmpty, PTL DEF IsvSpec

\* The host gets the text of a buffer in order and each unit at most once, for
\* rings of any size, any text, and any number of moves and losses of the link
\* (isv.c:42-45, 80-106).
THEOREM TextKeepsOrder == IsvSpec => []TextInOrder
<1>1. IsvInv => TextInOrder
  BY DEF IsvInv, Got, TextInOrder
<1>2. QED BY <1>1, IsvInvariant, PTL
=============================================================================
