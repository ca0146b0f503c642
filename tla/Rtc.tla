-------------------------------- MODULE Rtc --------------------------------
(***************************************************************************)
(* The real-time clock: sw/controller/src/rtc.c, with the time registers   *)
(* and the joybus clock of fw/rtl/n64/n64_si.sv.                           *)
(*                                                                         *)
(* A battery-backed chip counts two-digit years and takes year 00 for a    *)
(* common year.  rtc.c keeps the century in the chip's SRAM, together with *)
(* the year it last saw there, and shifts every date by the leap days that *)
(* the chip has left out (2000, 2400).  Each access to the chip is a step  *)
(* of its own: it may fail, and rtc.c goes on, or the power may go.        *)
(*                                                                         *)
(* A date is [c, y, m, d]: c = 0 stands for 1900.  All values are valid    *)
(* BCD, which converts both ways without loss; hours, minutes and the      *)
(* weekday are copied through and left out.                                *)
(*                                                                         *)
(* real, days, state, fresh, errors, asked and sets are history: the true  *)
(* date, the days since it was set, what became of the last set, whether   *)
(* `time' was read today, I2C errors, the date the N64 set, and the sets.  *)
(***************************************************************************)
EXTENDS Integers

CONSTANTS SetDates,    \* dates that are set by command
          JoyDates,    \* dates that the N64 sets through the joybus
          DefaultDate, \* the initializer of rtc_time
          MaxDays,     \* days that pass after a set
          MaxSets,     \* sets
          MaxErrors    \* failing I2C transfers

Dates == [c: 0..8, y: 0..99, m: 1..12, d: 1..31]

VARIABLES chip, osc, cent, magic,    \* in the chip, on battery
          time, raw, pc, caller,     \* in the controller
          joy,                       \* registers of n64_si.sv
          real, days, state, fresh, errors, asked, sets

chipVars == <<chip, osc, cent, magic>>
history  == <<real, days, state, fresh, errors, asked, sets>>
vars     == <<chipVars, time, raw, pc, caller, joy, history>>

-----------------------------------------------------------------------------
CommonDays == <<31, 28, 31, 30, 31, 30, 31, 31, 30, 31, 30, 31>>

\* The calendar: century c, year 00 is a leap year when 1900 + 100c is a
\* multiple of 400.
IsLeap(c, y) == IF y = 0 THEN c % 4 = 1 ELSE y % 4 = 0
RealDays(c, y, m) == CommonDays[m] + IF m = 2 /\ IsLeap(c, y) THEN 1 ELSE 0
Exists(t) == t.d <= RealDays(t.c, t.y, t.m)

Year(t) == 100 * t.c + t.y

\* The century has three bits, and the chip runs ahead; a year has at least 336
\* days, and a reading tells one year from the next for 95 of them.
ASSUME DatesAssumption ==
  /\ \A t \in SetDates \cup JoyDates \cup {DefaultDate} :
       t \in Dates /\ Exists(t) /\ 336 * Year(t) + MaxDays <= 336 * 795
  /\ MaxDays \in 0..32000 /\ MaxSets \in Nat /\ MaxErrors \in Nat

\* The day after t, in months that have `last' days.
DayAfter(t, last) ==
  IF t.d < last THEN [t EXCEPT !.d = @ + 1]
  ELSE IF t.m < 12 THEN [c |-> t.c, y |-> t.y, m |-> t.m + 1, d |-> 1]
  ELSE [c |-> IF t.y = 99 THEN t.c + 1 ELSE t.c, y |-> (t.y + 1) % 100, m |-> 1, d |-> 1]

\* What the chip counts, as the offsets of rtc.c take it to count.
ChipDays(y, m) == CommonDays[m] + IF m = 2 /\ y > 0 /\ y % 4 = 0 THEN 1 ELSE 0

-----------------------------------------------------------------------------
\* Bug: no leap day in the century year itself.
BackwardsNoLeap(t) == (t.c + 2) \div 4

BackwardsOffset(t) ==
  (t.c + 2) \div 4 + IF t.c % 4 = 1 /\ (t.y > 0 \/ t.m > 2) THEN 1 ELSE 0

ForwardsOffset(t) ==
  LET off == (t.c + 2) \div 4
  IN  off + IF t.c % 4 = 1 /\ \/ t.y > 0 \/ t.m > 2
                              \/ t.m = 2 /\ t.d >= 29 - off
              THEN 1 ELSE 0

\* rtc_get_days_in_month: every year of centuries 1 and 5 is a leap year
DaysInMonth(c, y, m) ==
  CommonDays[m] + IF m = 2 /\ (c % 4 = 1 \/ (y > 0 /\ y % 4 = 0)) THEN 1 ELSE 0

\* rtc_adjust_date
AdjustDate(t, off) ==
  LET day  == t.d + off
      cur  == DaysInMonth(t.c, t.y, t.m)
      mo   == t.m + (IF day < 1 THEN -1 ELSE IF day > cur THEN 1 ELSE 0)
      yo   == t.y + (IF mo < 1 THEN -1 ELSE IF mo > 12 THEN 1 ELSE 0)
      co   == t.c + (IF yo < 0 THEN -1 ELSE IF yo > 99 THEN 1 ELSE 0)
      m    == IF mo < 1 THEN 12 ELSE IF mo > 12 THEN 1 ELSE mo
      y    == IF yo < 0 THEN 99 ELSE IF yo > 99 THEN 0 ELSE yo
      c    == IF co < 0 THEN 7 ELSE IF co > 7 /\ yo > 99 THEN 0 ELSE co
  IN  IF off = 0 THEN t
      ELSE [c |-> c, y |-> y, m |-> m,
            d |-> IF day < 1 THEN DaysInMonth(c, y, m) + day
                  ELSE IF day > cur THEN day % cur ELSE day]

RealToRaw(t) == AdjustDate(t, ForwardsOffset(t))
RawToReal(t) == AdjustDate(t, -BackwardsOffset(t))

\* The last days of February in a common year that rtc_get_days_in_month takes
\* for a leap year: the chip has no day for them.
FebruaryGap(t) == /\ t.c % 4 = 1 /\ ~IsLeap(t.c, t.y) /\ t.m = 2
                  /\ t.d > 28 - BackwardsOffset(t)

\* The century counter, of three bits, for a year y read from the chip
\* (rtc_sanitize_raw_time, rtc_read_time).
ReadCentury(c, y) == [value |-> (c.value % 8) + IF y < c.last THEN 1 ELSE 0, last |-> y]

\* The registers of the chip have no century.
OnChip(t) == [c |-> 0, y |-> t.y, m |-> t.m, d |-> t.d]

\* The joybus clock keeps one bit of the century.
JoyDate(t) == [t EXCEPT !.c = @ % 2]
-----------------------------------------------------------------------------
NoJoy == [date |-> JoyDate(DefaultDate), wdata |-> JoyDate(DefaultDate), valid |-> FALSE,
          stopped |-> FALSE, pending |-> FALSE]

Init ==
  /\ chip = [c |-> 0, y |-> 1, m |-> 1, d |-> 1] /\ osc = FALSE
  /\ cent = [value |-> 0, last |-> 0] /\ magic = FALSE
  /\ time = DefaultDate /\ raw = DefaultDate /\ pc = "off" /\ caller = "init"
  /\ joy = NoJoy
  /\ real = DefaultDate /\ days = 0 /\ state = "unset" /\ fresh = FALSE
  /\ errors = 0 /\ asked = JoyDate(DefaultDate) /\ sets = 0

\* A failing transfer leaves the chip alone; rtc_write's result is not used.
Fails == errors < MaxErrors /\ errors' = errors + 1
Works == UNCHANGED errors

\* A write of the set sequence, at its step `at': `write' when it works.
SetStep(at, next, write, same) ==
  /\ pc = at /\ pc' = next
  /\ \/ Works /\ write
     \/ /\ Fails /\ UNCHANGED <<same, real, days>>
        /\ state' = IF state = "setting" THEN "broken" ELSE state
  /\ UNCHANGED <<time, raw, caller, joy, fresh, asked, sets>>

\* rtc_write_time begins: what is to be written, and for whom
BeginWrite(t, who) ==
  /\ raw' = RealToRaw(t) /\ pc' = "osc" /\ caller' = who
  /\ time' = t /\ state' = "setting" /\ fresh' = FALSE

StopOsc ==      \* rtc_osc_stop
  SetStep("osc", "cent", osc' = FALSE /\ UNCHANGED <<chip, cent, magic, real, days, state>>,
          chipVars)

WriteCentury ==
  SetStep("cent", "regs",
          /\ cent' = [value |-> raw.c % 8, last |-> raw.y]
          /\ UNCHANGED <<chip, osc, magic, real, days, state>>, chipVars)

WriteRegs ==
  SetStep("regs", "sec",
          /\ chip' = OnChip(raw)
          /\ UNCHANGED <<osc, cent, magic, real, days, state>>, chipVars)

WriteSec ==     \* the oscillator runs again, the set is through
  SetStep("sec", IF caller = "init" THEN "magic" ELSE "read",
          /\ osc' = TRUE
          /\ IF state = "setting"
               THEN /\ state' = IF FebruaryGap(time) THEN "gap" ELSE "set"
                    /\ real' = time /\ days' = 0
               ELSE UNCHANGED <<state, real, days>>
          /\ UNCHANGED <<chip, cent, magic>>, chipVars)

WriteMagic ==
  SetStep("magic", "read", magic' = TRUE /\ UNCHANGED <<chip, osc, cent, real, days, state>>,
          chipVars)
\* rtc_read_time: two reads, and a write when the year is not the last one seen
ReadTime ==
  /\ pc = "read"
  /\ \/ /\ Fails
        /\ pc' = IF caller \in {"joybus", "refresh"} THEN "joy" ELSE "idle"
        /\ UNCHANGED <<raw, fresh>>
     \/ /\ Works
        /\ raw' = [c |-> ReadCentury(cent, chip.y).value, y |-> chip.y, m |-> chip.m, d |-> chip.d]
        /\ pc' = "show" /\ fresh' = TRUE
  /\ UNCHANGED <<chipVars, time, caller, joy, real, days, state, asked, sets>>

ShowTime ==
  /\ pc = "show"
  /\ pc' = IF caller \in {"joybus", "refresh"} THEN "joy" ELSE "idle"
  /\ time' = RawToReal(raw)
  /\ \/ Works /\ cent' = IF raw.y # cent.last THEN [value |-> raw.c, last |-> raw.y] ELSE cent
     \/ raw.y # cent.last /\ Fails /\ UNCHANGED cent
  /\ UNCHANGED <<chip, osc, magic, raw, caller, joy, real, days, state, fresh, asked, sets>>

\* Bug: the guard of n64_si.sv:379 forgets rtc_pending.
FollowPending(j) == IF j.valid /\ ~j.stopped THEN [j EXCEPT !.date = j.wdata] ELSE j

\* The joybus registers follow the controller's registers (wdata), except while
\* the N64 has stopped the clock or its own time waits (n64_si.sv:379).
Follow(j) == IF j.valid /\ ~j.stopped /\ ~j.pending THEN [j EXCEPT !.date = j.wdata] ELSE j

\* rtc_write_joybus_time, and DONE for a set of the N64
WriteJoybus ==
  /\ pc = "joy" /\ pc' = "idle"
  /\ LET j == Follow([joy EXCEPT !.wdata = JoyDate(time), !.valid = TRUE])
     IN  joy' = IF caller = "joybus" THEN Follow([j EXCEPT !.pending = FALSE]) ELSE j
  /\ UNCHANGED <<chipVars, time, raw, caller, history>>

-----------------------------------------------------------------------------
\* rtc_process: a set of the N64 waits
TakeJoybus ==
  /\ pc = "idle" /\ joy.pending
  /\ BeginWrite(joy.date, "joybus")
  /\ UNCHANGED <<chipVars, joy, real, days, errors, asked, sets>>

\* rtc_process: the refresh period is over
Refresh ==
  /\ pc = "idle" /\ pc' = "read" /\ caller' = "refresh"
  /\ UNCHANGED <<chipVars, time, raw, joy, history>>

\* rtc_set_time, called for the host, the N64 (cfg.c) and the 64DD
SetTime(t) ==
  /\ pc = "idle" /\ sets < MaxSets /\ sets' = sets + 1
  /\ BeginWrite(t, "set")
  /\ UNCHANGED <<chipVars, joy, real, days, errors, asked>>

\* rtc_init: a chip without the magic word, or one that does not answer, is
\* set to the initializer.
PowerOn ==
  /\ pc = "off"
  /\ \/ /\ magic /\ Works
        /\ pc' = "read" /\ UNCHANGED <<time, raw, caller, state, fresh>>
     \/ /\ (Works /\ ~magic) \/ Fails
        /\ BeginWrite(DefaultDate, "init")
  /\ UNCHANGED <<chipVars, joy, real, days, asked, sets>>

PowerOff ==
  /\ pc # "off" /\ pc' = "off" /\ fresh' = FALSE /\ caller' = "init"
  /\ time' = DefaultDate /\ raw' = DefaultDate /\ joy' = NoJoy
  /\ state' = IF state = "setting" THEN "broken" ELSE state
  /\ UNCHANGED <<chipVars, real, days, errors, asked, sets>>

\* The N64 stops its clock and writes a date; then it lets the clock run.  It
\* does not stop it again while the controller has yet to take the last date.
JoySet(t) ==
  /\ pc # "off" /\ ~joy.pending /\ sets < MaxSets /\ sets' = sets + 1
  /\ joy' = [joy EXCEPT !.stopped = TRUE, !.date = JoyDate(t)]
  /\ asked' = JoyDate(t)
  /\ UNCHANGED <<chipVars, time, raw, pc, caller, real, days, state, fresh, errors>>

JoyRun ==
  /\ pc # "off" /\ joy.stopped
  /\ joy' = [joy EXCEPT !.stopped = FALSE, !.pending = TRUE]
  /\ UNCHANGED <<chipVars, time, raw, pc, caller, history>>

Midnight ==
  /\ days < MaxDays /\ days' = days + 1
  /\ real' = DayAfter(real, RealDays(real.c, real.y, real.m))
  /\ chip' = IF osc THEN OnChip(DayAfter(chip, ChipDays(chip.y, chip.m))) ELSE chip
  /\ fresh' = FALSE
  /\ UNCHANGED <<osc, cent, magic, time, raw, pc, caller, joy, state, errors, asked, sets>>

Next ==
  \/ StopOsc \/ WriteCentury \/ WriteRegs \/ WriteSec \/ WriteMagic
  \/ ReadTime \/ ShowTime \/ WriteJoybus \/ TakeJoybus \/ Refresh
  \/ \E t \in SetDates : SetTime(t)
  \/ \E t \in JoyDates : JoySet(t)
  \/ PowerOn \/ PowerOff \/ JoyRun \/ Midnight

Spec == Init /\ [][Next]_vars

-----------------------------------------------------------------------------
TypeOK ==
  /\ chip \in Dates /\ chip.c = 0 /\ osc \in BOOLEAN /\ magic \in BOOLEAN
  /\ cent \in [value: 0..8, last: 0..99]
  /\ time \in Dates /\ raw \in Dates
  /\ pc \in {"off", "osc", "cent", "regs", "sec", "magic", "read", "show", "joy", "idle"}
  /\ caller \in {"init", "set", "joybus", "refresh"}
  /\ joy \in [date: Dates, wdata: Dates, valid: BOOLEAN, stopped: BOOLEAN, pending: BOOLEAN]
  /\ real \in Dates /\ days \in 0..MaxDays /\ state \in {"unset", "setting", "set", "gap", "broken"}
  /\ fresh \in BOOLEAN /\ errors \in 0..MaxErrors /\ asked \in Dates /\ sets \in 0..MaxSets

\* After a set that went through, every reading shows the true date: across
\* midnights, ends of centuries, power cycles and failed refreshes, and
\* whichever day was set (rtc.c:120-253 and 255-284).  The end of February in
\* the common years of centuries 1 and 5 is the exception: see DateExists.
ClockIsRight ==
  pc = "idle" /\ fresh /\ state = "set" => time = real \/ FebruaryGap(real)

\* The clock never shows a day that is not in the calendar, when it was set to
\* one that is.
DateExists == pc = "idle" /\ fresh /\ state = "set" => Exists(time)

\* What the N64 has set is what its own clock goes on with, when the
\* controller has taken it: no refresh that was on its way comes between
\* (n64_si.sv:379).
N64SetKept ==
  [][joy.pending /\ ~joy'.pending /\ pc' # "off" /\ state = "set" /\ days = 0
       => joy'.date = asked]_vars
=============================================================================
