------------------------------- MODULE Timer -------------------------------
(***************************************************************************)
(* The countdown timers of sw/controller/src/timer.c.                      *)
(*                                                                         *)
(* The SysTick interrupt calls timer_update every PeriodMs milliseconds,   *)
(* the main loop starts, aborts and polls the timers; start and abort run  *)
(* with interrupts disabled, so each is one step.  A tick falls anywhere   *)
(* between two steps of the main loop: the first tick after a start may    *)
(* come at once or a full period later, which is what "pending" is for.    *)
(*                                                                         *)
(* asked and ticks are history: the duration of the last start of a timer  *)
(* and the interrupts it has seen since.  A timer that has seen k ticks is *)
(* at least (k - 1) * PeriodMs and at most k * PeriodMs milliseconds old.  *)
(***************************************************************************)
EXTENDS Integers

CONSTANTS TimerId,    \* timer_id_t: one timer per client
          Durations   \* the durations the clients ask for, in milliseconds

ASSUME DurationsAssumption == Durations \subseteq Nat

PeriodMs == 25

VARIABLES pending, running, value,   \* timer_t
          asked, ticks               \* history

vars == <<pending, running, value, asked, ticks>>

\* Bug: rounding down.
PeriodsForDown(ms) == ms \div PeriodMs

-----------------------------------------------------------------------------
\* Whole periods that cover ms milliseconds.
PeriodsFor(ms) == (ms + (PeriodMs - 1)) \div PeriodMs

Elapsed(id) == ~running[id]

Init ==
  /\ pending = [id \in TimerId |-> FALSE]
  /\ running = [id \in TimerId |-> FALSE]
  /\ value   = [id \in TimerId |-> 0]
  /\ asked   = [id \in TimerId |-> 0]
  /\ ticks   = [id \in TimerId |-> 0]

\* timer_countdown_start; a start of 0 ms changes nothing.
Start(id, ms) ==
  IF ms > 0
    THEN /\ pending' = [pending EXCEPT ![id] = TRUE]
         /\ running' = [running EXCEPT ![id] = TRUE]
         /\ value'   = [value EXCEPT ![id] = PeriodsFor(ms)]
         /\ asked'   = [asked EXCEPT ![id] = ms]
         /\ ticks'   = [ticks EXCEPT ![id] = 0]
    ELSE UNCHANGED vars

\* timer_countdown_abort
Abort(id) ==
  /\ pending' = [pending EXCEPT ![id] = FALSE]
  /\ running' = [running EXCEPT ![id] = FALSE]
  /\ value'   = [value EXCEPT ![id] = 0]
  /\ UNCHANGED <<asked, ticks>>

\* What timer_update makes of one timer: the value counts down to 0, the
\* first tick only clears pending, and the tick that finds the value at 0
\* ends the countdown.
Counted(v) == IF v > 0 THEN v - 1 ELSE 0

StillRunning(id) == running[id] /\ (pending[id] \/ Counted(value[id]) > 0)

\* timer_update, called by the interrupt
Tick ==
  /\ \E id \in TimerId : running[id]
  /\ value'   = [id \in TimerId |-> Counted(value[id])]
  /\ running' = [id \in TimerId |-> StillRunning(id)]
  /\ pending' = [id \in TimerId |-> FALSE]
  /\ ticks'   = [id \in TimerId |-> IF running[id] THEN ticks[id] + 1 ELSE ticks[id]]
  /\ UNCHANGED asked

Next ==
  \/ \E id \in TimerId, ms \in Durations : Start(id, ms)
  \/ \E id \in TimerId : Abort(id)
  \/ Tick

Spec == Init /\ [][Next]_vars /\ WF_vars(Tick)

-----------------------------------------------------------------------------
TypeOK ==
  /\ pending \in [TimerId -> BOOLEAN]
  /\ running \in [TimerId -> BOOLEAN]
  /\ value   \in [TimerId -> Nat]
  /\ asked   \in [TimerId -> Nat]
  /\ ticks   \in [TimerId -> Nat]

\* A timer that runs out by itself has been through enough ticks for what was
\* asked: it is early by less than one period, and a timer of one period or
\* less, whose single tick could follow the start at once, waits for a second
\* tick (timer.c, the pending flag).
ElapsesInTime ==
  [][\A id \in TimerId :
       Tick /\ running[id] /\ ~running'[id] =>
         ticks'[id] >= 2 /\ ticks'[id] * PeriodMs >= asked[id]]_vars

\* A running timer is never overdue: it has seen fewer ticks than the periods
\* that cover its duration, or it is waiting for the second tick of a short
\* one.  Without it a countdown could be restarted by its own interrupt.
NeverOverdue ==
  \A id \in TimerId :
    running[id] => \/ ticks[id] < 2
                   \/ ticks[id] * PeriodMs < asked[id]

\* What makes the two bounds inductive: the value is what is left of the
\* duration, and pending marks the first tick.
Countdown ==
  \A id \in TimerId :
    /\ running[id] => /\ value[id] = IF ticks[id] < PeriodsFor(asked[id])
                                       THEN PeriodsFor(asked[id]) - ticks[id] ELSE 0
                      /\ asked[id] > 0
                      /\ pending[id] <=> ticks[id] = 0
                      /\ ticks[id] >= 2 => value[id] > 0
    /\ ~running[id] => value[id] = 0 /\ ~pending[id]
=============================================================================
