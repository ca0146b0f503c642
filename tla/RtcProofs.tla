----------------------------- MODULE RtcProofs -----------------------------
(***************************************************************************)
(* Proofs about Rtc.                                                       *)
(*                                                                         *)
(* The chip is a clock of its own that runs some days ahead of the         *)
(* calendar.  Ahead(t) is the date it has to show when the date is t; the  *)
(* lemmas on the calendar say that a set puts it there, that a midnight    *)
(* keeps it there, and that a reading comes back to t.                     *)
(***************************************************************************)
EXTENDS Rtc, TLAPS

NextMonth(t, day) ==
  IF t.m < 12 THEN [c |-> t.c, y |-> t.y, m |-> t.m + 1, d |-> day]
  ELSE IF t.y < 99 THEN [c |-> t.c, y |-> t.y + 1, m |-> 1, d |-> day]
  ELSE [c |-> t.c + 1, y |-> 0, m |-> 1, d |-> day]

Ahead(t) ==
  LET day  == t.d + ForwardsOffset(t)
      last == RealDays(t.c, t.y, t.m)
  IN  IF day <= last THEN [c |-> t.c, y |-> t.y, m |-> t.m, d |-> day]
      ELSE NextMonth(t, day - last)

\* The lengths of the months, as a condition that a solver can split.
LEMMA MonthLengths ==
  \A m \in 1..12 :
    CommonDays[m] = IF m = 2 THEN 28 ELSE IF m = 4 \/ m = 6 \/ m = 9 \/ m = 11 THEN 30 ELSE 31
<1> SUFFICES ASSUME NEW m \in 1..12
             PROVE  CommonDays[m] = IF m = 2 THEN 28 ELSE
                                    IF m = 4 \/ m = 6 \/ m = 9 \/ m = 11 THEN 30 ELSE 31
  OBVIOUS
<1>1. CASE m \in {1, 2, 3, 4}    BY <1>1 DEF CommonDays
<1>2. CASE m \in {5, 6, 7, 8}    BY <1>2 DEF CommonDays
<1>3. CASE m \in {9, 10, 11, 12} BY <1>3 DEF CommonDays
<1>4. QED BY <1>1, <1>2, <1>3

\* The offsets are a few days (rtc.c:120-134).
LEMMA OffsetBounds ==
  \A t \in Dates : BackwardsOffset(t) \in 0..3 /\ ForwardsOffset(t) \in 0..3
BY DEF Dates, BackwardsOffset, ForwardsOffset

\* Months have 28 to 31 days (rtc.c:136-156).
LEMMA LengthBounds ==
  \A c \in Int, y \in Int, m \in 1..12 :
    DaysInMonth(c, y, m) \in 28..31 /\ RealDays(c, y, m) \in 28..31 /\ ChipDays(y, m) \in 28..31
BY MonthLengths DEF DaysInMonth, RealDays, ChipDays

\* What rtc_adjust_date does for a few days (rtc.c:158-223).
LEMMA Forwards ==
  ASSUME NEW t \in Dates, NEW off \in 0..3, Year(t) <= 798
  PROVE  LET cur == DaysInMonth(t.c, t.y, t.m)
         IN  AdjustDate(t, off) = IF t.d + off <= cur THEN [t EXCEPT !.d = t.d + off]
                                  ELSE IF off = 0 THEN t ELSE NextMonth(t, t.d + off - cur)
<1> DEFINE cur == DaysInMonth(t.c, t.y, t.m)
           day == t.d + off
<1>1. /\ t.c \in 0..7 /\ t.y \in 0..99 /\ t.m \in 1..12 /\ t.d \in 1..31
      /\ t = [c |-> t.c, y |-> t.y, m |-> t.m, d |-> t.d]
      /\ t.c = 7 => t.y < 99
  BY DEF Dates, Year
<1>2. cur \in 28..31
  BY <1>1, LengthBounds
<1>3. CASE day <= cur
  BY <1>1, <1>2, <1>3 DEF AdjustDate
<1>4. CASE day > cur /\ off # 0
  <2>1. day % cur = day - cur
    BY <1>1, <1>2, <1>4
  <2>2. CASE t.m < 12
    BY <1>1, <1>2, <1>4, <2>1, <2>2 DEF AdjustDate, NextMonth
  <2>3. CASE t.m = 12 /\ t.y < 99
    BY <1>1, <1>2, <1>4, <2>1, <2>3 DEF AdjustDate, NextMonth
  <2>4. CASE t.m = 12 /\ t.y = 99
    BY <1>1, <1>2, <1>4, <2>1, <2>4 DEF AdjustDate, NextMonth
  <2>5. QED BY <1>1, <2>2, <2>3, <2>4
<1>5. CASE day > cur /\ off = 0
  BY <1>1, <1>2, <1>5 DEF AdjustDate
<1>6. QED BY <1>1, <1>2, <1>3, <1>4, <1>5

\* A date that is set is shifted to the day the chip has to show
\* (rtc_real_to_raw, rtc.c:128-253), but for the end of February in the common
\* years that rtc_get_days_in_month takes for leap years.
LEMMA SetShifts ==
  ASSUME NEW t \in Dates, Exists(t), ~FebruaryGap(t), Year(t) <= 798
  PROVE  RealToRaw(t) = Ahead(t)
<1> DEFINE off == ForwardsOffset(t)
           day == t.d + off
           cur == DaysInMonth(t.c, t.y, t.m)
<1>1. /\ t.c \in 0..7 /\ t.y \in 0..99 /\ t.m \in 1..12 /\ t.d \in 1..31
      /\ t = [c |-> t.c, y |-> t.y, m |-> t.m, d |-> t.d]
  BY DEF Dates, Year
<1>2. off \in 0..3 /\ cur \in 28..31 /\ RealDays(t.c, t.y, t.m) \in 28..31
  BY <1>1, OffsetBounds, LengthBounds
<1>3. day > cur <=> day > RealDays(t.c, t.y, t.m)
  BY <1>1, <1>2, MonthLengths
     DEF DaysInMonth, RealDays, IsLeap, FebruaryGap, ForwardsOffset, BackwardsOffset
<1>4. day > cur => cur = RealDays(t.c, t.y, t.m) /\ off # 0
  BY <1>1, <1>2, MonthLengths
     DEF DaysInMonth, RealDays, IsLeap, FebruaryGap, ForwardsOffset, BackwardsOffset, Exists
<1>5. QED
  BY <1>1, <1>2, <1>3, <1>4, Forwards DEF RealToRaw, Ahead

\* The chip's months are those of the calendar, but for the leap days it leaves
\* out.
LEMMA ChipMonths ==
  \A c \in 0..8, y \in 0..99, m \in 1..12 :
    ChipDays(y, m) = IF m = 2 /\ y = 0 /\ c % 4 = 1 THEN 28 ELSE RealDays(c, y, m)
BY MonthLengths DEF ChipDays, RealDays, IsLeap

\* The offset grows by one in such a February, on the day the chip goes on to
\* March, and stays at the end of every other month.
LEMMA OffsetSteps ==
  ASSUME NEW t \in Dates, Exists(t), Year(t) <= 798
  PROVE  LET n == DayAfter(t, RealDays(t.c, t.y, t.m))
             off == ForwardsOffset(t)
         IN  ForwardsOffset(n) = IF t.m = 2 /\ t.y = 0 /\ t.c % 4 = 1 /\ t.d = 28 - (t.c + 2) \div 4
                                   THEN off + 1 ELSE off
<1> DEFINE last == RealDays(t.c, t.y, t.m)
           n == DayAfter(t, last)
<1>1. /\ t.c \in 0..7 /\ t.y \in 0..99 /\ t.m \in 1..12 /\ t.d \in 1..31
      /\ t = [c |-> t.c, y |-> t.y, m |-> t.m, d |-> t.d]
      /\ t.c = 7 => t.y < 99
  BY DEF Dates, Year
<1>2. last \in 28..31 /\ t.d <= last /\ (t.m = 2 => last \in 28..29)
  BY <1>1, LengthBounds, MonthLengths DEF Exists, RealDays
<1>3. t.m = 2 /\ t.y = 0 /\ t.c % 4 = 1 => last = 29
  BY <1>1, MonthLengths DEF RealDays, IsLeap
<1>4. CASE t.d < last
  BY <1>1, <1>2, <1>3, <1>4 DEF DayAfter, ForwardsOffset
<1>5. CASE t.d = last /\ t.m < 12
  <2>1. n = [c |-> t.c, y |-> t.y, m |-> t.m + 1, d |-> 1]
    BY <1>1, <1>2, <1>5 DEF DayAfter
  <2>2. QED BY <1>1, <1>2, <1>3, <1>5, <2>1 DEF ForwardsOffset
<1>6. CASE t.d = last /\ t.m = 12 /\ t.y < 99
  <2>1. n = [c |-> t.c, y |-> t.y + 1, m |-> 1, d |-> 1]
    BY <1>1, <1>2, <1>6 DEF DayAfter
  <2>2. QED BY <1>1, <1>2, <1>6, <2>1 DEF ForwardsOffset
<1>7. CASE t.d = last /\ t.m = 12 /\ t.y = 99
  <2>1. n = [c |-> t.c + 1, y |-> 0, m |-> 1, d |-> 1]
    BY <1>1, <1>2, <1>7 DEF DayAfter
  <2>2. QED BY <1>1, <1>2, <1>7, <2>1 DEF ForwardsOffset
<1>8. QED BY <1>1, <1>2, <1>4, <1>5, <1>6, <1>7

\* The chip keeps in step: a midnight takes it from the day it has to show to
\* the next one.
LEMMA DayShifts ==
  ASSUME NEW t \in Dates, Exists(t), Year(t) <= 798
  PROVE  LET u == Ahead(t)
         IN  Ahead(DayAfter(t, RealDays(t.c, t.y, t.m))) = DayAfter(u, ChipDays(u.y, u.m))
<1> DEFINE last == RealDays(t.c, t.y, t.m)
           n == DayAfter(t, last)
           off == ForwardsOffset(t)
           u == Ahead(t)
           Special == t.m = 2 /\ t.y = 0 /\ t.c % 4 = 1
<1>1. /\ t.c \in 0..7 /\ t.y \in 0..99 /\ t.m \in 1..12 /\ t.d \in 1..31
      /\ t = [c |-> t.c, y |-> t.y, m |-> t.m, d |-> t.d]
      /\ t.c = 7 => t.y < 99
  BY DEF Dates, Year
<1>2. last \in 28..31 /\ t.d <= last /\ off \in 0..3 /\ ChipDays(t.y, t.m) \in 28..31
  BY <1>1, LengthBounds, OffsetBounds DEF Exists
<1>3. ForwardsOffset(n) = IF Special /\ t.d = 28 - (t.c + 2) \div 4 THEN off + 1 ELSE off
  BY OffsetSteps
<1>4. ChipDays(t.y, t.m) = IF Special THEN 28 ELSE last
  BY SMTT(25), <1>1, ChipMonths
<1>5. CASE Special
  <2>1. last = 29
    BY <1>1, <1>5, MonthLengths DEF RealDays, IsLeap
  <2>2. off = (t.c + 2) \div 4 + IF t.d >= 29 - (t.c + 2) \div 4 THEN 1 ELSE 0
    BY <1>1, <1>5 DEF ForwardsOffset
  <2>3. (t.c + 2) \div 4 \in 0..1
    BY <1>1, <1>5
  <2>4. ChipDays(0, 3) = 31 /\ RealDays(t.c, t.y, 3) = 31
    BY MonthLengths, <1>1 DEF ChipDays, RealDays
  <2>5. CASE t.d < 28 - (t.c + 2) \div 4
    BY <1>1, <1>2, <1>3, <1>4, <1>5, <2>1, <2>2, <2>3, <2>4, <2>5 DEF Ahead, DayAfter, NextMonth
  <2>6. CASE t.d = 28 - (t.c + 2) \div 4
    BY <1>1, <1>2, <1>3, <1>4, <1>5, <2>1, <2>2, <2>3, <2>4, <2>6 DEF Ahead, DayAfter, NextMonth
  <2>7. CASE t.d > 28 - (t.c + 2) \div 4 /\ t.d < 29
    BY <1>1, <1>2, <1>3, <1>4, <1>5, <2>1, <2>2, <2>3, <2>4, <2>7 DEF Ahead, DayAfter, NextMonth
  <2>8. CASE t.d = 29
    BY <1>1, <1>2, <1>3, <1>4, <1>5, <2>1, <2>2, <2>3, <2>4, <2>8 DEF Ahead, DayAfter, NextMonth
  <2>9. QED BY <1>1, <1>2, <2>1, <2>3, <2>5, <2>6, <2>7, <2>8
<1>6. CASE ~Special /\ t.d + off < last
  <2>1. u = [c |-> t.c, y |-> t.y, m |-> t.m, d |-> t.d + off]
    BY <1>1, <1>2, <1>6 DEF Ahead
  <2>2. n = [c |-> t.c, y |-> t.y, m |-> t.m, d |-> t.d + 1]
    BY <1>1, <1>2, <1>6 DEF DayAfter
  <2>3. QED BY <1>1, <1>2, <1>3, <1>4, <1>6, <2>1, <2>2 DEF Ahead, DayAfter
<1>7. CASE ~Special /\ t.d + off = last /\ t.d < last
  <2>1. u = [c |-> t.c, y |-> t.y, m |-> t.m, d |-> last]
    BY <1>1, <1>2, <1>7 DEF Ahead
  <2>2. n = [c |-> t.c, y |-> t.y, m |-> t.m, d |-> t.d + 1]
    BY <1>1, <1>2, <1>7 DEF DayAfter
  <2>3. Ahead(n) = NextMonth(n, 1)
    BY <1>1, <1>2, <1>3, <1>7, <2>2 DEF Ahead
  <2>4. QED BY <1>1, <1>2, <1>4, <1>7, <2>1, <2>2, <2>3 DEF NextMonth, DayAfter
<1>8. CASE ~Special /\ t.d + off > last /\ t.d < last
  <2>2. n = [c |-> t.c, y |-> t.y, m |-> t.m, d |-> t.d + 1]
    BY <1>1, <1>2, <1>8 DEF DayAfter
  <2>3. u = NextMonth(t, t.d + off - last) /\ Ahead(n) = NextMonth(n, t.d + 1 + off - last)
    BY <1>1, <1>2, <1>3, <1>8, <2>2 DEF Ahead
  <2>4. ChipDays(u.y, u.m) \in 28..31
    BY <1>1, <2>3, LengthBounds DEF NextMonth
  <2>5. QED BY <1>1, <1>2, <1>8, <2>2, <2>3, <2>4 DEF NextMonth, DayAfter
<1>9. CASE ~Special /\ t.d = last
  <2>1. n = NextMonth(t, 1)
    BY <1>1, <1>2, <1>9 DEF NextMonth, DayAfter
  <2>2. RealDays(n.c, n.y, n.m) \in 28..31 /\ ChipDays(n.y, n.m) \in 28..31
    BY <1>1, <2>1, LengthBounds DEF NextMonth
  <2>3. Ahead(n) = NextMonth(t, off + 1)
    BY <1>1, <1>2, <1>3, <1>9, <2>1, <2>2 DEF NextMonth, Ahead
  <2>4. CASE off = 0
    <3>1. u = t
      BY <1>1, <1>2, <1>9, <2>4 DEF Ahead
    <3>2. QED BY <1>1, <1>2, <1>4, <1>9, <2>1, <2>3, <2>4, <3>1
  <2>5. CASE off > 0
    <3>1. u = NextMonth(t, off)
      BY <1>1, <1>2, <1>9, <2>5 DEF Ahead
    <3>2. u.y = n.y /\ u.m = n.m
      BY <1>1, <2>1, <3>1 DEF NextMonth
    <3>3. QED BY <1>1, <1>2, <2>2, <2>3, <2>5, <3>1, <3>2 DEF NextMonth, DayAfter
  <2>6. QED BY <1>2, <2>4, <2>5
<1>10. QED BY <1>1, <1>2, <1>5, <1>6, <1>7, <1>8, <1>9

\* A reading shifts it back (rtc_raw_to_real, rtc.c:120-126, 158-238).
LEMMA ReadingShifts ==
  ASSUME NEW t \in Dates, Exists(t), ~FebruaryGap(t), Year(t) <= 798
  PROVE  RawToReal(Ahead(t)) = t
<1> DEFINE last == RealDays(t.c, t.y, t.m)
           off == ForwardsOffset(t)
           u == Ahead(t)
           day == u.d - BackwardsOffset(u)
<1>1. /\ t.c \in 0..7 /\ t.y \in 0..99 /\ t.m \in 1..12 /\ t.d \in 1..31
      /\ t = [c |-> t.c, y |-> t.y, m |-> t.m, d |-> t.d]
      /\ t.c = 7 => t.y < 99
  BY DEF Dates, Year
<1>2. last \in 28..31 /\ t.d <= last /\ off \in 0..3
  BY <1>1, LengthBounds, OffsetBounds DEF Exists
<1>3. CASE t.d + off <= last
  <2>1. u = [c |-> t.c, y |-> t.y, m |-> t.m, d |-> t.d + off]
    BY <1>1, <1>2, <1>3 DEF Ahead
  <2>2. BackwardsOffset(u) = off
    BY <1>1, <1>2, <1>3, <2>1, MonthLengths DEF BackwardsOffset, ForwardsOffset, RealDays, IsLeap
  <2>3. DaysInMonth(t.c, t.y, t.m) \in 28..31 /\ t.d <= DaysInMonth(t.c, t.y, t.m)
    BY <1>1, <1>2, LengthBounds, MonthLengths DEF DaysInMonth, RealDays, IsLeap
  <2>4. QED BY SMTT(25), <1>1, <1>2, <2>1, <2>2, <2>3 DEF RawToReal, AdjustDate
<1>4. CASE t.d + off > last
  <2>1. u = NextMonth(t, t.d + off - last)
    BY <1>1, <1>2, <1>4 DEF Ahead
  <2>2. BackwardsOffset(u) = off
    BY <1>1, <1>2, <1>4, <2>1, MonthLengths
       DEF BackwardsOffset, ForwardsOffset, NextMonth, RealDays, IsLeap
  <2>3. DaysInMonth(t.c, t.y, t.m) = last
    BY <1>1, <1>2, <1>4, MonthLengths
       DEF DaysInMonth, RealDays, IsLeap, FebruaryGap, BackwardsOffset, ForwardsOffset
  <2>4. DaysInMonth(u.c, u.y, u.m) \in 28..31
    BY <1>1, <2>1, LengthBounds DEF NextMonth
  <2>5. CASE t.m < 12
    BY SMTT(25), <1>1, <1>2, <1>4, <2>1, <2>2, <2>3, <2>4, <2>5 DEF RawToReal, AdjustDate, NextMonth
  <2>6. CASE t.m = 12 /\ t.y < 99
    BY SMTT(25), <1>1, <1>2, <1>4, <2>1, <2>2, <2>3, <2>4, <2>6 DEF RawToReal, AdjustDate, NextMonth
  <2>7. CASE t.m = 12 /\ t.y = 99
    BY SMTT(25), <1>1, <1>2, <1>4, <2>1, <2>2, <2>3, <2>4, <2>7 DEF RawToReal, AdjustDate, NextMonth
  <2>8. QED BY <1>1, <2>5, <2>6, <2>7
<1>5. QED BY <1>1, <1>2, <1>3, <1>4

\* Whatever the date and the offset, the result has the form of a date.
LEMMA AdjustDates ==
  ASSUME NEW t \in Dates, NEW off \in Int, -3 <= off, off <= 3
  PROVE  AdjustDate(t, off) \in Dates
<1> DEFINE cur == DaysInMonth(t.c, t.y, t.m)
           day == t.d + off
           mo == t.m + (IF day < 1 THEN -1 ELSE IF day > cur THEN 1 ELSE 0)
           yo == t.y + (IF mo < 1 THEN -1 ELSE IF mo > 12 THEN 1 ELSE 0)
           co == t.c + (IF yo < 0 THEN -1 ELSE IF yo > 99 THEN 1 ELSE 0)
           m == IF mo < 1 THEN 12 ELSE IF mo > 12 THEN 1 ELSE mo
           y == IF yo < 0 THEN 99 ELSE IF yo > 99 THEN 0 ELSE yo
           c == IF co < 0 THEN 7 ELSE IF co > 7 /\ yo > 99 THEN 0 ELSE co
           d == IF day < 1 THEN DaysInMonth(c, y, m) + day ELSE IF day > cur THEN day % cur ELSE day
<1>1. t.c \in 0..8 /\ t.y \in 0..99 /\ t.m \in 1..12 /\ t.d \in 1..31
      /\ t = [c |-> t.c, y |-> t.y, m |-> t.m, d |-> t.d]
  BY DEF Dates
<1>2. cur \in 28..31 /\ day \in Int /\ -2 <= day /\ day <= 34
  BY <1>1, LengthBounds
<1>3. m \in 1..12 /\ y \in 0..99 /\ c \in 0..8
  BY <1>1
<1>4. DaysInMonth(c, y, m) \in 28..31
  <2> HIDE DEF c, y, m
  <2> QED BY <1>3, LengthBounds
<1>5. d \in 1..31
  <2>1. CASE day < 1
    BY <1>2, <1>4, <2>1
  <2>2. CASE day > cur
    <3>1. day % cur = day - cur
      BY <1>2, <2>2
    <3>2. QED BY <1>2, <2>2, <3>1
  <2>3. CASE day >= 1 /\ day <= cur
    BY SMTT(30), <1>2, <2>3
  <2> HIDE DEF d
  <2>4. QED BY <1>2, <2>1, <2>2, <2>3
<1>6. [c |-> c, y |-> y, m |-> m, d |-> d] \in Dates
  <2> HIDE DEF c, y, m, d
  <2> QED BY <1>3, <1>5 DEF Dates
<1>7. QED BY <1>6, Zenon DEF AdjustDate

\* A shifted date is a date.
LEMMA Shifted ==
  ASSUME NEW t \in Dates
  PROVE  RealToRaw(t) \in Dates /\ RawToReal(t) \in Dates
<1>1. ForwardsOffset(t) \in 0..3 /\ BackwardsOffset(t) \in 0..3
  BY OffsetBounds
<1>2. QED BY <1>1, AdjustDates DEF RealToRaw, RawToReal

\* The days since 1900, in years of 336 days and months of 28: a midnight adds
\* at most one.
Position(t) == 336 * Year(t) + 28 * t.m + t.d

\* The day after is a date, and no later than a day.
LEMMA OneDay ==
  ASSUME NEW t \in Dates, NEW last \in 28..31, DayAfter(t, last).d <= 31
  PROVE  LET n == DayAfter(t, last)
         IN  /\ n \in [c: 0..9, y: 0..99, m: 1..12, d: 1..31]
             /\ Position(n) <= Position(t) + 1
             /\ Year(t) <= Year(n) /\ Year(n) <= Year(t) + 1
<1> DEFINE n == DayAfter(t, last)
<1>1. t.c \in 0..8 /\ t.y \in 0..99 /\ t.m \in 1..12 /\ t.d \in 1..31
  BY DEF Dates
<1>2. t = [c |-> t.c, y |-> t.y, m |-> t.m, d |-> t.d]
  BY DEF Dates
<1>3. CASE t.d < last
  <2>1. n = [c |-> t.c, y |-> t.y, m |-> t.m, d |-> t.d + 1]
    BY <1>1, <1>2, <1>3 DEF DayAfter
  <2>2. n.c = t.c /\ n.y = t.y /\ n.m = t.m /\ n.d = t.d + 1 /\ n.d \in 1..31
    BY <1>1, <2>1
  <2>3. n \in [c: 0..9, y: 0..99, m: 1..12, d: 1..31]
    BY <1>1, <2>1, <2>2
  <2> HIDE DEF n
  <2>4. Year(t) \in Int /\ Year(n) = Year(t)
    BY <1>1, <2>2 DEF Year
  <2>5. Position(n) = Position(t) + 1
    BY <1>1, <2>2, <2>4 DEF Position
  <2>6. Position(t) \in Int
    BY <1>1, <2>4 DEF Position
  <2>7. QED BY <2>3, <2>4, <2>5, <2>6 DEF n
<1>4. CASE t.d >= last
  <2>1. n = NextMonth(t, 1)
    BY <1>1, <1>4 DEF DayAfter, NextMonth
  <2>2. n \in [c: 0..9, y: 0..99, m: 1..12, d: 1..31] /\ Year(t) <= Year(n) /\ Year(n) <= Year(t) + 1
    BY <1>1, <2>1 DEF NextMonth, Year
  <2>3. Position(n) <= Position(t) + 1
    <3>1. CASE t.m < 12
      <4>1. n.c = t.c /\ n.y = t.y /\ n.m = t.m + 1 /\ n.d = 1
        BY <1>1, <2>1, <3>1 DEF NextMonth
      <4> HIDE DEF n
      <4>2. Year(t) \in Int /\ Year(n) = Year(t)
        BY <1>1, <4>1 DEF Year
      <4>3. QED BY <1>1, <1>4, <3>1, <4>1, <4>2 DEF Position
    <3>2. CASE t.m = 12 /\ t.y < 99
      <4>1. n.c = t.c /\ n.y = t.y + 1 /\ n.m = 1 /\ n.d = 1
        BY <1>1, <2>1, <3>2 DEF NextMonth
      <4> HIDE DEF n
      <4>2. Year(t) \in Int /\ Year(n) = Year(t) + 1
        BY <1>1, <4>1 DEF Year
      <4>3. QED BY <1>1, <1>4, <3>2, <4>1, <4>2 DEF Position
    <3>3. CASE t.m = 12 /\ t.y = 99
      BY <1>1, <1>4, <2>1, <3>3 DEF NextMonth, Position, Year
    <3>4. QED BY <1>1, <3>1, <3>2, <3>3
  <2>4. QED BY <2>2, <2>3
<1>5. QED BY <1>1, <1>3, <1>4

\* The next day exists.
LEMMA NextExists ==
  ASSUME NEW t \in Dates, Exists(t), Year(t) <= 798
  PROVE  LET n == DayAfter(t, RealDays(t.c, t.y, t.m))
         IN  /\ n \in Dates /\ Exists(n)
             /\ Position(n) <= Position(t) + 1
             /\ Year(t) <= Year(n) /\ Year(n) <= Year(t) + 1
<1> DEFINE last == RealDays(t.c, t.y, t.m)
           n == DayAfter(t, last)
<1>1. /\ t.c \in 0..7 /\ t.y \in 0..99 /\ t.m \in 1..12 /\ t.d \in 1..31
      /\ t = [c |-> t.c, y |-> t.y, m |-> t.m, d |-> t.d]
  BY DEF Dates, Year
<1>2. last \in 28..31 /\ t.d <= last
  BY <1>1, LengthBounds DEF Exists
<1>3. n \in Dates /\ Exists(n)
  <2>1. CASE t.d < last
    BY <1>1, <1>2, <2>1 DEF DayAfter, Exists, Dates
  <2>2. CASE t.d = last
    <3>1. n.c \in 0..8 /\ n.y \in 0..99 /\ n.m \in 1..12 /\ n.d = 1 /\ n = [c |-> n.c, y |-> n.y, m |-> n.m, d |-> 1]
      BY <1>1, <1>2, <2>2 DEF DayAfter
    <3>2. RealDays(n.c, n.y, n.m) \in 28..31
      BY <3>1, LengthBounds
    <3>3. QED BY <3>1, <3>2 DEF Exists, Dates
  <2>3. QED BY <1>1, <1>2, <2>1, <2>2
<1>4. n.d <= 31
  BY <1>3 DEF Dates
<1>5. QED BY <1>2, <1>3, <1>4, OneDay

\* The chip is ahead of the calendar by less than a year.
LEMMA AheadBounds ==
  ASSUME NEW t \in Dates, Exists(t), Year(t) <= 798
  PROVE  /\ Ahead(t) \in Dates
         /\ Year(t) <= Year(Ahead(t)) /\ Year(Ahead(t)) <= Year(t) + 1
<1>1. /\ t.c \in 0..7 /\ t.y \in 0..99 /\ t.m \in 1..12 /\ t.d \in 1..31
      /\ t = [c |-> t.c, y |-> t.y, m |-> t.m, d |-> t.d]
  BY DEF Dates, Year
<1> DEFINE off == ForwardsOffset(t)
           last == RealDays(t.c, t.y, t.m)
<1>2. last \in 28..31
  BY <1>1, LengthBounds
<1>3. off \in 0..3 /\ t.d <= last
  BY OffsetBounds DEF Exists
<1>4. CASE t.d + off <= last
  BY <1>1, <1>2, <1>3, <1>4 DEF Ahead, Dates, Year
<1>5. CASE t.d + off > last
  <2>1. Ahead(t) = NextMonth(t, t.d + off - last) /\ t.d + off - last \in 1..3
    BY <1>1, <1>2, <1>3, <1>5 DEF Ahead
  <2>2. QED BY <1>1, <2>1 DEF NextMonth, Dates, Year
<1>6. QED BY <1>1, <1>2, <1>3, <1>4, <1>5

\* The joybus keeps one bit of the century, and loses no day by it.
LEMMA JoyDateKeeps ==
  ASSUME NEW t \in Dates
  PROVE  /\ JoyDate(t) \in Dates /\ JoyDate(t).c \in 0..1
         /\ JoyDate(JoyDate(t)) = JoyDate(t)
         /\ Exists(t) => Exists(JoyDate(t))
         /\ t.c \in 0..1 => JoyDate(t) = t
<1>1. /\ t.c \in 0..8 /\ t.y \in 0..99 /\ t.m \in 1..12 /\ t.d \in 1..31
      /\ t = [c |-> t.c, y |-> t.y, m |-> t.m, d |-> t.d]
  BY DEF Dates
<1>2. JoyDate(t) = [c |-> t.c % 2, y |-> t.y, m |-> t.m, d |-> t.d]
  BY <1>1 DEF JoyDate
<1>3. t.c % 2 \in 0..1 /\ (t.c % 2) % 2 = t.c % 2 /\ (t.c \in 0..1 => t.c % 2 = t.c)
  BY <1>1
<1>4. Exists(t) => Exists(JoyDate(t))
  BY <1>1, <1>2, MonthLengths DEF Exists, RealDays, IsLeap
<1>5. JoyDate(t) \in Dates /\ JoyDate(t).c \in 0..1 /\ (t.c \in 0..1 => JoyDate(t) = t)
  BY <1>1, <1>2, <1>3 DEF Dates
<1>6. JoyDate(JoyDate(t)) = JoyDate(t)
  BY <1>1, <1>2, <1>3 DEF JoyDate
<1>7. QED BY <1>4, <1>5, <1>6

-----------------------------------------------------------------------------
CalendarInv ==
  /\ Exists(real)
  /\ Position(real) <= 336 * 795 + 367 + days - MaxDays

\* A date that waits for the controller is the last one the N64 set.
JoyInv ==
  /\ asked.c \in 0..1 /\ Exists(asked)
  /\ ~(joy.stopped /\ joy.pending)
  /\ joy.stopped \/ joy.pending => joy.date = asked
  /\ caller = "joybus" /\ pc \notin {"idle", "off"} => joy.pending
  /\ pc = "off" => caller = "init"

\* While a set is under way, the chip stands still and holds what was written.
Writing == pc \in {"osc", "cent", "regs", "sec"}

WritingInv ==
  /\ Writing => state \in {"setting", "broken"} /\ ~fresh
  /\ state = "setting" =>
       /\ Writing
       /\ Exists(time) /\ 336 * Year(time) + MaxDays <= 336 * 795
       /\ raw = RealToRaw(time)
       /\ pc # "osc" => ~osc
       /\ pc \in {"regs", "sec"} => cent = [value |-> raw.c % 8, last |-> raw.y]
       /\ pc = "sec" => chip = OnChip(raw)
       /\ caller = "joybus" => time = asked

\* After it, the chip runs ahead of the calendar, and the year that was last
\* seen is not a century away.
LastYear == 100 * cent.value + cent.last

SetInv ==
  state = "set" =>
    /\ osc
    /\ chip = OnChip(Ahead(real))
    /\ LastYear <= Year(Ahead(real))
    /\ Position(Ahead(real)) <= 336 * LastYear + 367 + days

ReadingInv ==
  state = "set" =>
    /\ pc = "show" => LastYear <= Year(raw) /\ Year(raw) <= Year(Ahead(real))
    /\ pc = "show" /\ fresh => raw = Ahead(real)
    /\ pc # "show" /\ fresh => time = real \/ FebruaryGap(real)

\* On the day of a set of the N64, its date is what the controller has.
N64Inv ==
  caller = "joybus" /\ state = "set" /\ days = 0 /\ pc \notin {"idle", "off"} =>
    /\ real = asked /\ ~FebruaryGap(real)
    /\ IF pc = "show" THEN fresh ELSE time = real

Inv ==
  TypeOK /\ CalendarInv /\ JoyInv /\ WritingInv /\ SetInv /\ ReadingInv /\ N64Inv

\* A date lies within its year.
LEMMA InYear ==
  ASSUME NEW t \in Dates
  PROVE  /\ Year(t) \in Nat /\ Position(t) \in Nat
         /\ 336 * Year(t) <= Position(t) /\ Position(t) <= 336 * Year(t) + 367
<1>1. t.c \in 0..8 /\ t.y \in 0..99 /\ t.m \in 1..12 /\ t.d \in 1..31
  BY DEF Dates
<1>2. Year(t) \in Nat
  BY <1>1 DEF Year
<1>3. QED BY <1>1, <1>2 DEF Position

\* A position bounds the year, of the calendar and of the chip.
LEMMA InRange ==
  ASSUME NEW t \in Dates, Exists(t), Position(t) <= 336 * 795 + 367
  PROVE  /\ Year(t) <= 796
         /\ Ahead(t) \in Dates /\ Year(Ahead(t)) <= 797
<1>1. Year(t) <= 796 /\ Year(t) \in Nat
  BY InYear
<1>2. QED BY <1>1, AheadBounds, InYear

\* What the invariant says of the true date.
LEMMA RealBounds ==
  ASSUME TypeOK, CalendarInv
  PROVE  /\ real \in Dates /\ Exists(real) /\ Year(real) <= 796
         /\ Ahead(real) \in Dates /\ Year(Ahead(real)) <= 797
<1>1. real \in Dates /\ days <= MaxDays /\ days \in Int /\ MaxDays \in Int
  BY SMTT(25), DatesAssumption DEF TypeOK
<1>2. Position(real) \in Nat
  BY <1>1, InYear
<1>3. Position(real) <= 336 * 795 + 367
  BY <1>1, <1>2 DEF CalendarInv
<1>4. QED BY <1>1, <1>3, InRange DEF CalendarInv

\* A date that may be set.
LEMMA SetDate ==
  ASSUME NEW t \in SetDates \cup JoyDates \cup {DefaultDate}
  PROVE  /\ t \in Dates /\ Exists(t) /\ 336 * Year(t) + MaxDays <= 336 * 795
         /\ JoyDate(t) \in Dates /\ JoyDate(t).c \in 0..1 /\ Exists(JoyDate(t))
BY SMTT(25), DatesAssumption, JoyDateKeeps

\* The invariant holds of a clock with an empty battery.
LEMMA InitInv == Init => Inv
<1> SUFFICES ASSUME Init PROVE Inv
  OBVIOUS
<1>1. /\ DefaultDate \in Dates /\ Exists(DefaultDate)
      /\ 336 * Year(DefaultDate) + MaxDays <= 336 * 795
      /\ JoyDate(DefaultDate) \in Dates /\ JoyDate(DefaultDate).c \in 0..1
      /\ Exists(JoyDate(DefaultDate))
  BY SetDate
<1>2. MaxDays \in Nat /\ MaxSets \in Nat /\ MaxErrors \in Nat
  BY SMTT(30), DatesAssumption
<1>3. TypeOK
  <2>1. chip \in Dates /\ chip.c = 0 /\ cent \in [value: 0..8, last: 0..99]
    BY DEF Init, Dates
  <2>2. joy \in [date: Dates, wdata: Dates, valid: BOOLEAN, stopped: BOOLEAN, pending: BOOLEAN]
    BY <1>1 DEF Init, NoJoy
  <2>3. days \in 0..MaxDays /\ errors \in 0..MaxErrors /\ sets \in 0..MaxSets
    BY <1>2 DEF Init
  <2>4. time \in Dates /\ raw \in Dates /\ real \in Dates /\ asked \in Dates
    BY <1>1 DEF Init
  <2>5. QED BY <2>1, <2>2, <2>3, <2>4 DEF Init, TypeOK
<1>4. CalendarInv
  <2>1. DefaultDate.m \in 1..12 /\ DefaultDate.d \in 1..31 /\ Year(DefaultDate) \in Int
    BY <1>1 DEF Dates, Year
  <2>2. QED BY <1>1, <1>2, <2>1 DEF Init, CalendarInv, Position
<1>5. JoyInv
  BY <1>1 DEF Init, JoyInv, NoJoy
<1>6. QED
  BY <1>3, <1>4, <1>5 DEF Init, Inv, WritingInv, Writing, SetInv, ReadingInv, N64Inv

\* The assumption on the bounds, alone.
LEMMA Bounds ==
  MaxDays \in Nat /\ MaxDays <= 32000 /\ MaxSets \in Nat /\ MaxErrors \in Nat
BY SMTT(30), DatesAssumption

\* A month of the chip has 28 to 31 days.
LEMMA ChipLengths == \A y \in 0..99, m \in 1..12 : ChipDays(y, m) \in 28..31
BY MonthLengths DEF ChipDays

Registers == [date: Dates, wdata: Dates, valid: BOOLEAN, stopped: BOOLEAN, pending: BOOLEAN]

\* What the chip can hold of a date, and the day after.
LEMMA ChipDate ==
  /\ \A t \in Dates : OnChip(t) \in Dates /\ OnChip(t).c = 0
  /\ \A t \in Dates, last \in 28..31 :
       /\ OnChip(DayAfter(t, last)) \in Dates
       /\ OnChip(DayAfter(OnChip(t), last)) = OnChip(DayAfter(t, last))
<1>1. ASSUME NEW t \in Dates PROVE OnChip(t) \in Dates /\ OnChip(t).c = 0
  BY DEF OnChip, Dates
<1>2. ASSUME NEW t \in Dates, NEW last \in 28..31
      PROVE  /\ OnChip(DayAfter(t, last)) \in Dates
             /\ OnChip(DayAfter(OnChip(t), last)) = OnChip(DayAfter(t, last))
  <2>1. /\ t.c \in 0..8 /\ t.y \in 0..99 /\ t.m \in 1..12 /\ t.d \in 1..31
        /\ t = [c |-> t.c, y |-> t.y, m |-> t.m, d |-> t.d]
    BY DEF Dates
  <2>2. CASE t.d < last
    BY <2>1, <2>2 DEF OnChip, DayAfter, Dates
  <2>3. CASE t.d >= last /\ t.m < 12
    BY <2>1, <2>3 DEF OnChip, DayAfter, Dates
  <2>4. CASE t.d >= last /\ t.m = 12
    BY <2>1, <2>4 DEF OnChip, DayAfter, Dates
  <2>5. QED BY <2>1, <2>2, <2>3, <2>4
<1>3. QED BY <1>1, <1>2

\* The joybus registers keep their form, and their flags.
LEMMA FollowKeeps ==
  ASSUME NEW j \in Registers
  PROVE  /\ Follow(j) \in Registers
         /\ Follow(j).pending = j.pending /\ Follow(j).stopped = j.stopped
         /\ Follow(j).date = IF j.valid /\ ~j.stopped /\ ~j.pending THEN j.wdata ELSE j.date
BY DEF Follow, Registers

\* The year last seen and the year of the chip give the century
\* (rtc.c:269-277).
LEMMA CenturyFound ==
  ASSUME TypeOK, CalendarInv, SetInv, state = "set"
  PROVE  ReadCentury(cent, chip.y).value = Ahead(real).c
<1> DEFINE a == Ahead(real)
<1>1. a \in Dates /\ Year(a) <= 797
  BY RealBounds
<1>2. a.c \in 0..8 /\ a.y \in 0..99 /\ 100 * a.c + a.y <= 797
  BY <1>1 DEF Dates, Year
<1>3. cent.value \in 0..8 /\ cent.last \in 0..99 /\ LastYear \in Int
  BY DEF TypeOK, LastYear
<1>4. days \in Int /\ days <= 32000
  BY SMTT(25), DatesAssumption DEF TypeOK
<1>5. chip.y = a.y
  BY DEF SetInv, OnChip
<1>6. LastYear <= Year(a) /\ 336 * Year(a) <= 336 * LastYear + 367 + days
  BY <1>1, <1>3, <1>4, InYear DEF SetInv
<1>7. Year(a) \in Int /\ Year(a) <= LastYear + 99
  BY <1>1, <1>3, <1>4, <1>6, InYear
<1>8. 100 * cent.value + cent.last <= 100 * a.c + a.y
  BY <1>6 DEF LastYear, Year
<1>9. 100 * a.c + a.y <= 100 * cent.value + cent.last + 99
  BY <1>7 DEF LastYear, Year
<1>10. \A v \in 0..8, l \in 0..99, c \in 0..8, y \in 0..99 :
         100 * v + l <= 100 * c + y /\ 100 * c + y <= 100 * v + l + 99 /\ 100 * c + y <= 797
           => v \in 0..7 /\ c = v + (IF y < l THEN 1 ELSE 0)
  OBVIOUS
<1>11. a.c = cent.value + (IF a.y < cent.last THEN 1 ELSE 0) /\ cent.value \in 0..7
  <2> HIDE DEF a
  <2> QED BY ZenonT(30), <1>2, <1>3, <1>8, <1>9, <1>10
<1>12. cent.value % 8 = cent.value
  BY <1>11
<1>13. QED BY <1>2, <1>3, <1>5, <1>11, <1>12 DEF ReadCentury

\* The century counter stays within its bits.
LEMMA CenturyType ==
  ASSUME TypeOK
  PROVE  /\ ReadCentury(cent, chip.y).value \in 0..8
         /\ [value |-> raw.c % 8, last |-> raw.y] \in [value: 0..8, last: 0..99]
         /\ [value |-> raw.c, last |-> raw.y] \in [value: 0..8, last: 0..99]
<1>1. raw.c \in 0..8 /\ raw.y \in 0..99 /\ cent.value \in 0..8
  BY DEF TypeOK, Dates
<1>2. QED BY <1>1 DEF ReadCentury

\* One lemma per action: each keeps the invariant, part by part.
LEMMA StopOscStep ==
  ASSUME Inv, StopOsc
  PROVE  Inv'
<1>1. TypeOK'
  <2>1. /\ chip' \in Dates /\ chip'.c = 0 /\ cent' \in [value: 0..8, last: 0..99]
       /\ osc' \in BOOLEAN /\ magic' \in BOOLEAN
    BY DEF Inv, TypeOK, StopOsc, SetStep, chipVars, Fails, Works
  <2>2. time' \in Dates /\ raw' \in Dates /\ real' \in Dates /\ asked' \in Dates
    BY DEF Inv, TypeOK, StopOsc, SetStep, chipVars, Fails, Works
  <2>3. /\ pc' \in {"off", "osc", "cent", "regs", "sec", "magic", "read", "show", "joy", "idle"}
       /\ caller' \in {"init", "set", "joybus", "refresh"}
       /\ state' \in {"unset", "setting", "set", "gap", "broken"} /\ fresh' \in BOOLEAN
    BY DEF Inv, TypeOK, StopOsc, SetStep, chipVars, Fails, Works
  <2>4. joy' \in Registers
    BY DEF Inv, TypeOK, StopOsc, Registers, SetStep, chipVars, Fails, Works
  <2>5. days' \in 0..MaxDays /\ errors' \in 0..MaxErrors /\ sets' \in 0..MaxSets
    BY Bounds DEF Inv, TypeOK, StopOsc, SetStep, chipVars, Fails, Works
  <2>6. QED BY <2>1, <2>2, <2>3, <2>4, <2>5 DEF TypeOK, Registers
<1>2. CalendarInv'
  BY DEF Inv, TypeOK, CalendarInv, StopOsc, SetStep, chipVars, Fails, Works
<1>3. JoyInv'
  BY DEF Inv, TypeOK, JoyInv, StopOsc, SetStep, chipVars, Fails, Works
<1>4. WritingInv'
  BY DEF Inv, TypeOK, WritingInv, StopOsc, Writing, OnChip, SetStep, chipVars, Fails, Works
<1>5. SetInv'
  BY DEF Inv, TypeOK, SetInv, StopOsc, WritingInv, Writing, LastYear, OnChip, SetStep, chipVars, Fails, Works
<1>6. ReadingInv'
  BY DEF Inv, TypeOK, ReadingInv, StopOsc, WritingInv, Writing, LastYear, SetStep, chipVars, Fails, Works
<1>7. N64Inv'
  BY DEF Inv, TypeOK, N64Inv, StopOsc, WritingInv, Writing, SetStep, chipVars, Fails, Works
<1>8. QED BY <1>1, <1>2, <1>3, <1>4, <1>5, <1>6, <1>7 DEF Inv

LEMMA WriteCenturyStep ==
  ASSUME Inv, WriteCentury
  PROVE  Inv'
<1>1. TypeOK'
  <2>1. /\ chip' \in Dates /\ chip'.c = 0 /\ cent' \in [value: 0..8, last: 0..99]
       /\ osc' \in BOOLEAN /\ magic' \in BOOLEAN
    BY CenturyType DEF Inv, TypeOK, WriteCentury, SetStep, chipVars, Fails, Works
  <2>2. time' \in Dates /\ raw' \in Dates /\ real' \in Dates /\ asked' \in Dates
    BY DEF Inv, TypeOK, WriteCentury, SetStep, chipVars, Fails, Works
  <2>3. /\ pc' \in {"off", "osc", "cent", "regs", "sec", "magic", "read", "show", "joy", "idle"}
       /\ caller' \in {"init", "set", "joybus", "refresh"}
       /\ state' \in {"unset", "setting", "set", "gap", "broken"} /\ fresh' \in BOOLEAN
    BY DEF Inv, TypeOK, WriteCentury, SetStep, chipVars, Fails, Works
  <2>4. joy' \in Registers
    BY DEF Inv, TypeOK, WriteCentury, Registers, SetStep, chipVars, Fails, Works
  <2>5. days' \in 0..MaxDays /\ errors' \in 0..MaxErrors /\ sets' \in 0..MaxSets
    BY Bounds DEF Inv, TypeOK, WriteCentury, SetStep, chipVars, Fails, Works
  <2>6. QED BY <2>1, <2>2, <2>3, <2>4, <2>5 DEF TypeOK, Registers
<1>2. CalendarInv'
  BY DEF Inv, TypeOK, CalendarInv, WriteCentury, SetStep, chipVars, Fails, Works
<1>3. JoyInv'
  BY DEF Inv, TypeOK, JoyInv, WriteCentury, SetStep, chipVars, Fails, Works
<1>4. WritingInv'
  BY DEF Inv, TypeOK, WritingInv, WriteCentury, Writing, OnChip, SetStep, chipVars, Fails, Works
<1>5. SetInv'
  BY DEF Inv, TypeOK, SetInv, WriteCentury, WritingInv, Writing, LastYear, OnChip, SetStep, chipVars, Fails, Works
<1>6. ReadingInv'
  BY DEF Inv, TypeOK, ReadingInv, WriteCentury, WritingInv, Writing, LastYear, SetStep, chipVars, Fails, Works
<1>7. N64Inv'
  BY DEF Inv, TypeOK, N64Inv, WriteCentury, WritingInv, Writing, SetStep, chipVars, Fails, Works
<1>8. QED BY <1>1, <1>2, <1>3, <1>4, <1>5, <1>6, <1>7 DEF Inv

LEMMA WriteRegsStep ==
  ASSUME Inv, WriteRegs
  PROVE  Inv'
<1>1. TypeOK'
  <2>1. /\ chip' \in Dates /\ chip'.c = 0 /\ cent' \in [value: 0..8, last: 0..99]
       /\ osc' \in BOOLEAN /\ magic' \in BOOLEAN
    BY ChipDate DEF Inv, TypeOK, WriteRegs, SetStep, chipVars, Fails, Works
  <2>2. time' \in Dates /\ raw' \in Dates /\ real' \in Dates /\ asked' \in Dates
    BY DEF Inv, TypeOK, WriteRegs, SetStep, chipVars, Fails, Works
  <2>3. /\ pc' \in {"off", "osc", "cent", "regs", "sec", "magic", "read", "show", "joy", "idle"}
       /\ caller' \in {"init", "set", "joybus", "refresh"}
       /\ state' \in {"unset", "setting", "set", "gap", "broken"} /\ fresh' \in BOOLEAN
    BY DEF Inv, TypeOK, WriteRegs, SetStep, chipVars, Fails, Works
  <2>4. joy' \in Registers
    BY DEF Inv, TypeOK, WriteRegs, Registers, SetStep, chipVars, Fails, Works
  <2>5. days' \in 0..MaxDays /\ errors' \in 0..MaxErrors /\ sets' \in 0..MaxSets
    BY Bounds DEF Inv, TypeOK, WriteRegs, SetStep, chipVars, Fails, Works
  <2>6. QED BY <2>1, <2>2, <2>3, <2>4, <2>5 DEF TypeOK, Registers
<1>2. CalendarInv'
  BY DEF Inv, TypeOK, CalendarInv, WriteRegs, SetStep, chipVars, Fails, Works
<1>3. JoyInv'
  BY DEF Inv, TypeOK, JoyInv, WriteRegs, SetStep, chipVars, Fails, Works
<1>4. WritingInv'
  BY DEF Inv, TypeOK, WritingInv, WriteRegs, Writing, OnChip, SetStep, chipVars, Fails, Works
<1>5. SetInv'
  BY DEF Inv, TypeOK, SetInv, WriteRegs, WritingInv, Writing, LastYear, OnChip, SetStep, chipVars, Fails, Works
<1>6. ReadingInv'
  BY DEF Inv, TypeOK, ReadingInv, WriteRegs, WritingInv, Writing, LastYear, SetStep, chipVars, Fails, Works
<1>7. N64Inv'
  BY DEF Inv, TypeOK, N64Inv, WriteRegs, WritingInv, Writing, SetStep, chipVars, Fails, Works
<1>8. QED BY <1>1, <1>2, <1>3, <1>4, <1>5, <1>6, <1>7 DEF Inv

LEMMA WriteSecStep ==
  ASSUME Inv, WriteSec
  PROVE  Inv'
<1>1. TypeOK'
  <2>1. /\ chip' \in Dates /\ chip'.c = 0 /\ cent' \in [value: 0..8, last: 0..99]
       /\ osc' \in BOOLEAN /\ magic' \in BOOLEAN
    BY DEF Inv, TypeOK, WriteSec, SetStep, chipVars, Fails, Works
  <2>2. time' \in Dates /\ raw' \in Dates /\ real' \in Dates /\ asked' \in Dates
    BY DEF Inv, TypeOK, WriteSec, SetStep, chipVars, Fails, Works
  <2>3. /\ pc' \in {"off", "osc", "cent", "regs", "sec", "magic", "read", "show", "joy", "idle"}
       /\ caller' \in {"init", "set", "joybus", "refresh"}
       /\ state' \in {"unset", "setting", "set", "gap", "broken"} /\ fresh' \in BOOLEAN
    BY DEF Inv, TypeOK, WriteSec, SetStep, chipVars, Fails, Works
  <2>4. joy' \in Registers
    BY DEF Inv, TypeOK, WriteSec, Registers, SetStep, chipVars, Fails, Works
  <2>5. days' \in 0..MaxDays /\ errors' \in 0..MaxErrors /\ sets' \in 0..MaxSets
    BY Bounds DEF Inv, TypeOK, WriteSec, SetStep, chipVars, Fails, Works
  <2>6. QED BY <2>1, <2>2, <2>3, <2>4, <2>5 DEF TypeOK, Registers
<1>2. CalendarInv'
  BY SMTT(25), InYear, DatesAssumption DEF Inv, TypeOK, CalendarInv, WriteSec, SetStep, chipVars, Fails, Works, WritingInv, Writing
<1>3. JoyInv'
  BY DEF Inv, TypeOK, JoyInv, WriteSec, SetStep, chipVars, Fails, Works
<1>4. WritingInv'
  BY DEF Inv, TypeOK, WritingInv, WriteSec, Writing, OnChip, SetStep, chipVars, Fails, Works
<1>5. SetInv'
  <2>1. SUFFICES ASSUME state' = "set" PROVE SetInv'
    BY DEF SetInv
  <2>2. /\ state = "setting" /\ ~FebruaryGap(time) /\ real' = time /\ days' = 0 /\ osc'
        /\ UNCHANGED <<chip, cent>>
    BY <2>1 DEF Inv, WritingInv, Writing, WriteSec, SetStep
  <2>3. /\ Exists(time) /\ raw = RealToRaw(time) /\ chip = OnChip(raw)
        /\ cent = [value |-> raw.c % 8, last |-> raw.y]
        /\ time \in Dates /\ 336 * Year(time) + MaxDays <= 336 * 795 /\ MaxDays \in Nat
    BY <2>2, Bounds DEF Inv, TypeOK, WritingInv, WriteSec, SetStep
  <2>4. Year(time) \in Nat /\ Year(time) <= 795
    BY <2>3, InYear
  <2>5. raw = Ahead(time) /\ raw \in Dates /\ Year(raw) <= 796
    BY <2>2, <2>3, <2>4, SetShifts, AheadBounds, InYear
  <2>6. raw.c \in 0..7
    BY <2>5 DEF Dates, Year
  <2>7. LastYear' = Year(raw)
    BY <2>2, <2>3, <2>6 DEF LastYear, Year
  <2>8. QED BY <2>2, <2>3, <2>5, <2>7, InYear DEF SetInv
<1>6. ReadingInv'
  BY DEF Inv, TypeOK, ReadingInv, WriteSec, WritingInv, Writing, LastYear, SetStep, chipVars, Fails, Works
<1>7. N64Inv'
  BY DEF Inv, TypeOK, N64Inv, WriteSec, WritingInv, Writing, SetStep, chipVars, Fails, Works
<1>8. QED BY <1>1, <1>2, <1>3, <1>4, <1>5, <1>6, <1>7 DEF Inv

LEMMA WriteMagicStep ==
  ASSUME Inv, WriteMagic
  PROVE  Inv'
<1>1. TypeOK'
  <2>1. /\ chip' \in Dates /\ chip'.c = 0 /\ cent' \in [value: 0..8, last: 0..99]
       /\ osc' \in BOOLEAN /\ magic' \in BOOLEAN
    BY DEF Inv, TypeOK, WriteMagic, SetStep, chipVars, Fails, Works
  <2>2. time' \in Dates /\ raw' \in Dates /\ real' \in Dates /\ asked' \in Dates
    BY DEF Inv, TypeOK, WriteMagic, SetStep, chipVars, Fails, Works
  <2>3. /\ pc' \in {"off", "osc", "cent", "regs", "sec", "magic", "read", "show", "joy", "idle"}
       /\ caller' \in {"init", "set", "joybus", "refresh"}
       /\ state' \in {"unset", "setting", "set", "gap", "broken"} /\ fresh' \in BOOLEAN
    BY DEF Inv, TypeOK, WriteMagic, SetStep, chipVars, Fails, Works
  <2>4. joy' \in Registers
    BY DEF Inv, TypeOK, WriteMagic, Registers, SetStep, chipVars, Fails, Works
  <2>5. days' \in 0..MaxDays /\ errors' \in 0..MaxErrors /\ sets' \in 0..MaxSets
    BY Bounds DEF Inv, TypeOK, WriteMagic, SetStep, chipVars, Fails, Works
  <2>6. QED BY <2>1, <2>2, <2>3, <2>4, <2>5 DEF TypeOK, Registers
<1>2. CalendarInv'
  BY DEF Inv, TypeOK, CalendarInv, WriteMagic, SetStep, chipVars, Fails, Works
<1>3. JoyInv'
  BY DEF Inv, TypeOK, JoyInv, WriteMagic, SetStep, chipVars, Fails, Works
<1>4. WritingInv'
  BY DEF Inv, TypeOK, WritingInv, WriteMagic, Writing, OnChip, SetStep, chipVars, Fails, Works
<1>5. SetInv'
  BY DEF Inv, TypeOK, SetInv, WriteMagic, WritingInv, Writing, LastYear, OnChip, SetStep, chipVars, Fails, Works
<1>6. ReadingInv'
  BY DEF Inv, TypeOK, ReadingInv, WriteMagic, WritingInv, Writing, LastYear, SetStep, chipVars, Fails, Works
<1>7. N64Inv'
  BY DEF Inv, TypeOK, N64Inv, WriteMagic, WritingInv, Writing, SetStep, chipVars, Fails, Works
<1>8. QED BY <1>1, <1>2, <1>3, <1>4, <1>5, <1>6, <1>7 DEF Inv

LEMMA ReadTimeStep ==
  ASSUME Inv, ReadTime
  PROVE  Inv'
<1>1. TypeOK'
  <2>1. /\ chip' \in Dates /\ chip'.c = 0 /\ cent' \in [value: 0..8, last: 0..99]
       /\ osc' \in BOOLEAN /\ magic' \in BOOLEAN
    BY DEF Inv, TypeOK, ReadTime, history, chipVars, Fails, Works
  <2>2. time' \in Dates /\ raw' \in Dates /\ real' \in Dates /\ asked' \in Dates
    BY CenturyType DEF Inv, TypeOK, ReadTime, history, chipVars, Fails, Works, Dates
  <2>3. /\ pc' \in {"off", "osc", "cent", "regs", "sec", "magic", "read", "show", "joy", "idle"}
       /\ caller' \in {"init", "set", "joybus", "refresh"}
       /\ state' \in {"unset", "setting", "set", "gap", "broken"} /\ fresh' \in BOOLEAN
    BY DEF Inv, TypeOK, ReadTime, history, chipVars, Fails, Works
  <2>4. joy' \in Registers
    BY DEF Inv, TypeOK, ReadTime, Registers, history, chipVars, Fails, Works
  <2>5. days' \in 0..MaxDays /\ errors' \in 0..MaxErrors /\ sets' \in 0..MaxSets
    BY Bounds DEF Inv, TypeOK, ReadTime, history, chipVars, Fails, Works
  <2>6. QED BY <2>1, <2>2, <2>3, <2>4, <2>5 DEF TypeOK, Registers
<1>2. CalendarInv'
  BY DEF Inv, TypeOK, CalendarInv, ReadTime, history, chipVars, Fails, Works
<1>3. JoyInv'
  BY DEF Inv, TypeOK, JoyInv, ReadTime, history, chipVars, Fails, Works
<1>4. WritingInv'
  BY DEF Inv, TypeOK, WritingInv, ReadTime, Writing, OnChip, history, chipVars, Fails, Works
<1>5. SetInv'
  BY DEF Inv, TypeOK, SetInv, ReadTime, WritingInv, Writing, LastYear, OnChip, history, chipVars, Fails, Works
<1>6. ReadingInv'
  <2>1. CASE state = "set" /\ pc' = "show"
    <3>1. raw' = [c |-> Ahead(real).c, y |-> chip.y, m |-> chip.m, d |-> chip.d]
      BY <2>1, CenturyFound DEF Inv, ReadTime
    <3>2. Ahead(real) \in Dates /\ chip = OnChip(Ahead(real)) /\ LastYear <= Year(Ahead(real))
      BY <2>1, RealBounds DEF Inv, SetInv
    <3>3. raw' = Ahead(real)
      BY <3>1, <3>2 DEF OnChip, Dates
    <3>4. Year(Ahead(real)) \in Nat /\ UNCHANGED <<real, cent, time, state>>
      BY <2>1, RealBounds, InYear DEF Inv, ReadTime, chipVars
    <3>5. QED BY <2>1, <3>2, <3>3, <3>4 DEF ReadingInv, LastYear
  <2>2. CASE ~(state = "set" /\ pc' = "show")
    BY <2>2 DEF Inv, TypeOK, ReadingInv, ReadTime, chipVars, LastYear, Fails, Works
  <2>3. QED BY <2>1, <2>2
<1>7. N64Inv'
  BY DEF Inv, TypeOK, N64Inv, ReadTime, WritingInv, Writing, history, chipVars, Fails, Works
<1>8. QED BY <1>1, <1>2, <1>3, <1>4, <1>5, <1>6, <1>7 DEF Inv

LEMMA ShowTimeStep ==
  ASSUME Inv, ShowTime
  PROVE  Inv'
<1>1. TypeOK'
  <2>1. /\ chip' \in Dates /\ chip'.c = 0 /\ cent' \in [value: 0..8, last: 0..99]
       /\ osc' \in BOOLEAN /\ magic' \in BOOLEAN
    BY CenturyType DEF Inv, TypeOK, ShowTime, history, chipVars, Fails, Works
  <2>2. time' \in Dates /\ raw' \in Dates /\ real' \in Dates /\ asked' \in Dates
    BY Shifted DEF Inv, TypeOK, ShowTime, history, chipVars, Fails, Works
  <2>3. /\ pc' \in {"off", "osc", "cent", "regs", "sec", "magic", "read", "show", "joy", "idle"}
       /\ caller' \in {"init", "set", "joybus", "refresh"}
       /\ state' \in {"unset", "setting", "set", "gap", "broken"} /\ fresh' \in BOOLEAN
    BY DEF Inv, TypeOK, ShowTime, history, chipVars, Fails, Works
  <2>4. joy' \in Registers
    BY DEF Inv, TypeOK, ShowTime, Registers, history, chipVars, Fails, Works
  <2>5. days' \in 0..MaxDays /\ errors' \in 0..MaxErrors /\ sets' \in 0..MaxSets
    <3>1. errors' \in 0..MaxErrors
      BY Bounds DEF Inv, TypeOK, ShowTime, Fails, Works
    <3>2. QED BY <3>1 DEF Inv, TypeOK, ShowTime
  <2>6. QED BY <2>1, <2>2, <2>3, <2>4, <2>5 DEF TypeOK, Registers
<1>2. CalendarInv'
  BY DEF Inv, TypeOK, CalendarInv, ShowTime, history, chipVars, Fails, Works
<1>3. JoyInv'
  BY DEF Inv, TypeOK, JoyInv, ShowTime, history, chipVars, Fails, Works
<1>4. WritingInv'
  BY DEF Inv, TypeOK, WritingInv, ShowTime, Writing, OnChip, history, chipVars, Fails, Works
<1>5. SetInv'
  <2>1. SUFFICES ASSUME state = "set" PROVE SetInv'
    BY DEF SetInv, ShowTime
  <2>2. raw.c \in 0..8 /\ raw.y \in 0..99 /\ days \in Int /\ Year(raw) \in Int /\ LastYear \in Int
    BY InYear DEF Inv, TypeOK, Dates, LastYear
  <2>3. LastYear' = LastYear \/ LastYear' = Year(raw)
    BY DEF Inv, TypeOK, ShowTime, LastYear, Year
  <2>4. /\ LastYear <= Year(raw) /\ Year(raw) <= Year(Ahead(real)) /\ LastYear <= Year(Ahead(real))
        /\ Position(Ahead(real)) <= 336 * LastYear + 367 + days
    BY <2>1 DEF Inv, SetInv, ReadingInv, ShowTime
  <2>5. Position(Ahead(real)) \in Nat /\ Year(Ahead(real)) \in Nat
    BY RealBounds, InYear DEF Inv
  <2>6. /\ LastYear' <= Year(Ahead(real))
        /\ Position(Ahead(real)) <= 336 * LastYear' + 367 + days
    BY <2>2, <2>3, <2>4, <2>5
  <2>7. QED BY <2>1, <2>6 DEF Inv, SetInv, ShowTime
<1>6. ReadingInv'
  <2>1. CASE state = "set" /\ fresh /\ ~FebruaryGap(real)
    <3>1. raw = Ahead(real)
      BY <2>1 DEF Inv, ReadingInv, ShowTime
    <3>2. real \in Dates /\ Exists(real) /\ Year(real) <= 798
      BY RealBounds, InYear DEF Inv, TypeOK, CalendarInv
    <3>3. time' = real
      BY <2>1, <3>1, <3>2, ReadingShifts DEF ShowTime
    <3>4. QED BY <3>3 DEF ReadingInv, ShowTime
  <2>2. CASE ~(state = "set" /\ fresh /\ ~FebruaryGap(real))
    BY <2>2 DEF ReadingInv, ShowTime
  <2>3. QED BY <2>1, <2>2
<1>7. N64Inv'
  <2>1. SUFFICES ASSUME caller = "joybus", state = "set", days = 0
                 PROVE  N64Inv'
    BY DEF N64Inv, ShowTime
  <2>2. real = asked /\ ~FebruaryGap(real) /\ fresh
    BY <2>1 DEF Inv, N64Inv, ShowTime
  <2>3. time' = real
    BY <1>6, <2>1, <2>2 DEF ReadingInv, ShowTime
  <2>4. QED BY <2>2, <2>3 DEF N64Inv, ShowTime
<1>8. QED BY <1>1, <1>2, <1>3, <1>4, <1>5, <1>6, <1>7 DEF Inv

LEMMA WriteJoybusStep ==
  ASSUME Inv, WriteJoybus
  PROVE  Inv'
<1>1. TypeOK'
  <2>1. /\ chip' \in Dates /\ chip'.c = 0 /\ cent' \in [value: 0..8, last: 0..99]
       /\ osc' \in BOOLEAN /\ magic' \in BOOLEAN
    BY DEF Inv, TypeOK, WriteJoybus, history, chipVars, Fails, Works
  <2>2. time' \in Dates /\ raw' \in Dates /\ real' \in Dates /\ asked' \in Dates
    BY DEF Inv, TypeOK, WriteJoybus, history, chipVars, Fails, Works
  <2>3. /\ pc' \in {"off", "osc", "cent", "regs", "sec", "magic", "read", "show", "joy", "idle"}
       /\ caller' \in {"init", "set", "joybus", "refresh"}
       /\ state' \in {"unset", "setting", "set", "gap", "broken"} /\ fresh' \in BOOLEAN
    BY DEF Inv, TypeOK, WriteJoybus, history, chipVars, Fails, Works
  <2>4. joy' \in Registers
    <3>1. joy \in Registers /\ JoyDate(time) \in Dates
      BY JoyDateKeeps DEF Inv, TypeOK, Registers
    <3>2. [joy EXCEPT !.wdata = JoyDate(time), !.valid = TRUE] \in Registers
      BY <3>1 DEF Registers
    <3>3. \A j \in Registers : [j EXCEPT !.pending = FALSE] \in Registers
      BY DEF Registers
    <3>4. QED BY <3>2, <3>3, FollowKeeps DEF WriteJoybus
  <2>5. days' \in 0..MaxDays /\ errors' \in 0..MaxErrors /\ sets' \in 0..MaxSets
    BY Bounds DEF Inv, TypeOK, WriteJoybus, history, chipVars, Fails, Works
  <2>6. QED BY <2>1, <2>2, <2>3, <2>4, <2>5 DEF TypeOK, Registers
<1>2. CalendarInv'
  BY DEF Inv, TypeOK, CalendarInv, WriteJoybus, history, chipVars, Fails, Works
<1>3. JoyInv'
  BY DEF Inv, TypeOK, JoyInv, WriteJoybus, history, chipVars, Fails, Works, Follow, Registers
<1>4. WritingInv'
  BY DEF Inv, TypeOK, WritingInv, WriteJoybus, Writing, OnChip, history, chipVars, Fails, Works
<1>5. SetInv'
  BY DEF Inv, TypeOK, SetInv, WriteJoybus, WritingInv, Writing, LastYear, OnChip, history, chipVars, Fails, Works
<1>6. ReadingInv'
  BY DEF Inv, TypeOK, ReadingInv, WriteJoybus, WritingInv, Writing, LastYear, history, chipVars, Fails, Works
<1>7. N64Inv'
  BY DEF Inv, TypeOK, N64Inv, WriteJoybus, WritingInv, Writing, history, chipVars, Fails, Works
<1>8. QED BY <1>1, <1>2, <1>3, <1>4, <1>5, <1>6, <1>7 DEF Inv

LEMMA TakeJoybusStep ==
  ASSUME Inv, TakeJoybus
  PROVE  Inv'
<1>1. TypeOK'
  <2>1. /\ chip' \in Dates /\ chip'.c = 0 /\ cent' \in [value: 0..8, last: 0..99]
       /\ osc' \in BOOLEAN /\ magic' \in BOOLEAN
    BY DEF Inv, TypeOK, TakeJoybus, history, chipVars, Fails, Works, BeginWrite
  <2>2. time' \in Dates /\ raw' \in Dates /\ real' \in Dates /\ asked' \in Dates
    BY Shifted DEF Inv, TypeOK, TakeJoybus, history, chipVars, Fails, Works, BeginWrite
  <2>3. /\ pc' \in {"off", "osc", "cent", "regs", "sec", "magic", "read", "show", "joy", "idle"}
       /\ caller' \in {"init", "set", "joybus", "refresh"}
       /\ state' \in {"unset", "setting", "set", "gap", "broken"} /\ fresh' \in BOOLEAN
    BY DEF Inv, TypeOK, TakeJoybus, history, chipVars, Fails, Works, BeginWrite
  <2>4. joy' \in Registers
    BY DEF Inv, TypeOK, TakeJoybus, Registers, history, chipVars, Fails, Works, BeginWrite
  <2>5. days' \in 0..MaxDays /\ errors' \in 0..MaxErrors /\ sets' \in 0..MaxSets
    BY Bounds DEF Inv, TypeOK, TakeJoybus, history, chipVars, Fails, Works, BeginWrite
  <2>6. QED BY <2>1, <2>2, <2>3, <2>4, <2>5 DEF TypeOK, Registers
<1>2. CalendarInv'
  BY DEF Inv, TypeOK, CalendarInv, TakeJoybus, history, chipVars, Fails, Works, BeginWrite
<1>3. JoyInv'
  BY DEF Inv, TypeOK, JoyInv, TakeJoybus, history, chipVars, Fails, Works, BeginWrite
<1>4. WritingInv'
  <2>1. joy.date = asked /\ Exists(asked) /\ asked.c \in 0..1 /\ asked \in Dates
    BY DEF Inv, TypeOK, JoyInv, TakeJoybus
  <2>2. 336 * Year(asked) + MaxDays <= 336 * 795
    <3>1. asked.y \in 0..99
      BY <2>1 DEF Dates
    <3>2. Year(asked) \in 0..199
      BY <2>1, <3>1 DEF Year
    <3>3. QED BY <3>2, Bounds
  <2>3. QED BY <2>1, <2>2 DEF WritingInv, Writing, TakeJoybus, BeginWrite
<1>5. SetInv'
  BY DEF Inv, TypeOK, SetInv, TakeJoybus, WritingInv, Writing, LastYear, OnChip, history, chipVars, Fails, Works, BeginWrite
<1>6. ReadingInv'
  BY DEF Inv, TypeOK, ReadingInv, TakeJoybus, WritingInv, Writing, LastYear, history, chipVars, Fails, Works, BeginWrite
<1>7. N64Inv'
  BY DEF Inv, TypeOK, N64Inv, TakeJoybus, WritingInv, Writing, history, chipVars, Fails, Works, BeginWrite
<1>8. QED BY <1>1, <1>2, <1>3, <1>4, <1>5, <1>6, <1>7 DEF Inv

LEMMA RefreshStep ==
  ASSUME Inv, Refresh
  PROVE  Inv'
<1>1. TypeOK'
  <2>1. /\ chip' \in Dates /\ chip'.c = 0 /\ cent' \in [value: 0..8, last: 0..99]
       /\ osc' \in BOOLEAN /\ magic' \in BOOLEAN
    BY DEF Inv, TypeOK, Refresh, history, chipVars, Fails, Works
  <2>2. time' \in Dates /\ raw' \in Dates /\ real' \in Dates /\ asked' \in Dates
    BY DEF Inv, TypeOK, Refresh, history, chipVars, Fails, Works
  <2>3. /\ pc' \in {"off", "osc", "cent", "regs", "sec", "magic", "read", "show", "joy", "idle"}
       /\ caller' \in {"init", "set", "joybus", "refresh"}
       /\ state' \in {"unset", "setting", "set", "gap", "broken"} /\ fresh' \in BOOLEAN
    BY DEF Inv, TypeOK, Refresh, history, chipVars, Fails, Works
  <2>4. joy' \in Registers
    BY DEF Inv, TypeOK, Refresh, Registers, history, chipVars, Fails, Works
  <2>5. days' \in 0..MaxDays /\ errors' \in 0..MaxErrors /\ sets' \in 0..MaxSets
    BY Bounds DEF Inv, TypeOK, Refresh, history, chipVars, Fails, Works
  <2>6. QED BY <2>1, <2>2, <2>3, <2>4, <2>5 DEF TypeOK, Registers
<1>2. CalendarInv'
  BY DEF Inv, TypeOK, CalendarInv, Refresh, history, chipVars, Fails, Works
<1>3. JoyInv'
  BY DEF Inv, TypeOK, JoyInv, Refresh, history, chipVars, Fails, Works
<1>4. WritingInv'
  BY DEF Inv, TypeOK, WritingInv, Refresh, Writing, OnChip, history, chipVars, Fails, Works
<1>5. SetInv'
  BY DEF Inv, TypeOK, SetInv, Refresh, WritingInv, Writing, LastYear, OnChip, history, chipVars, Fails, Works
<1>6. ReadingInv'
  BY DEF Inv, TypeOK, ReadingInv, Refresh, WritingInv, Writing, LastYear, history, chipVars, Fails, Works
<1>7. N64Inv'
  BY DEF Inv, TypeOK, N64Inv, Refresh, WritingInv, Writing, history, chipVars, Fails, Works
<1>8. QED BY <1>1, <1>2, <1>3, <1>4, <1>5, <1>6, <1>7 DEF Inv

LEMMA SetTimeStep ==
  ASSUME Inv, NEW t \in SetDates, SetTime(t)
  PROVE  Inv'
<1>1. TypeOK'
  <2>1. /\ chip' \in Dates /\ chip'.c = 0 /\ cent' \in [value: 0..8, last: 0..99]
       /\ osc' \in BOOLEAN /\ magic' \in BOOLEAN
    BY DEF Inv, TypeOK, SetTime, history, chipVars, Fails, Works, BeginWrite
  <2>2. time' \in Dates /\ raw' \in Dates /\ real' \in Dates /\ asked' \in Dates
    BY Shifted, SetDate DEF Inv, TypeOK, SetTime, history, chipVars, Fails, Works, BeginWrite
  <2>3. /\ pc' \in {"off", "osc", "cent", "regs", "sec", "magic", "read", "show", "joy", "idle"}
       /\ caller' \in {"init", "set", "joybus", "refresh"}
       /\ state' \in {"unset", "setting", "set", "gap", "broken"} /\ fresh' \in BOOLEAN
    BY DEF Inv, TypeOK, SetTime, history, chipVars, Fails, Works, BeginWrite
  <2>4. joy' \in Registers
    BY DEF Inv, TypeOK, SetTime, Registers, history, chipVars, Fails, Works, BeginWrite
  <2>5. days' \in 0..MaxDays /\ errors' \in 0..MaxErrors /\ sets' \in 0..MaxSets
    BY Bounds DEF Inv, TypeOK, SetTime, history, chipVars, Fails, Works, BeginWrite
  <2>6. QED BY <2>1, <2>2, <2>3, <2>4, <2>5 DEF TypeOK, Registers
<1>2. CalendarInv'
  BY DEF Inv, TypeOK, CalendarInv, SetTime, history, chipVars, Fails, Works, BeginWrite
<1>3. JoyInv'
  BY DEF Inv, TypeOK, JoyInv, SetTime, history, chipVars, Fails, Works, BeginWrite
<1>4. WritingInv'
  BY SetDate DEF WritingInv, Writing, SetTime, BeginWrite
<1>5. SetInv'
  BY DEF Inv, TypeOK, SetInv, SetTime, WritingInv, Writing, LastYear, OnChip, history, chipVars, Fails, Works, BeginWrite
<1>6. ReadingInv'
  BY DEF Inv, TypeOK, ReadingInv, SetTime, WritingInv, Writing, LastYear, history, chipVars, Fails, Works, BeginWrite
<1>7. N64Inv'
  BY DEF Inv, TypeOK, N64Inv, SetTime, WritingInv, Writing, history, chipVars, Fails, Works, BeginWrite
<1>8. QED BY <1>1, <1>2, <1>3, <1>4, <1>5, <1>6, <1>7 DEF Inv

LEMMA PowerOnStep ==
  ASSUME Inv, PowerOn
  PROVE  Inv'
<1>1. TypeOK'
  <2>1. /\ chip' \in Dates /\ chip'.c = 0 /\ cent' \in [value: 0..8, last: 0..99]
       /\ osc' \in BOOLEAN /\ magic' \in BOOLEAN
    BY DEF Inv, TypeOK, PowerOn, history, chipVars, Fails, Works, BeginWrite
  <2>2. time' \in Dates /\ raw' \in Dates /\ real' \in Dates /\ asked' \in Dates
    BY Shifted, SetDate DEF Inv, TypeOK, PowerOn, history, chipVars, Fails, Works, BeginWrite
  <2>3. /\ pc' \in {"off", "osc", "cent", "regs", "sec", "magic", "read", "show", "joy", "idle"}
       /\ caller' \in {"init", "set", "joybus", "refresh"}
       /\ state' \in {"unset", "setting", "set", "gap", "broken"} /\ fresh' \in BOOLEAN
    BY DEF Inv, TypeOK, PowerOn, history, chipVars, Fails, Works, BeginWrite
  <2>4. joy' \in Registers
    BY DEF Inv, TypeOK, PowerOn, Registers, history, chipVars, Fails, Works, BeginWrite
  <2>5. days' \in 0..MaxDays /\ errors' \in 0..MaxErrors /\ sets' \in 0..MaxSets
    BY Bounds DEF Inv, TypeOK, PowerOn, history, chipVars, Fails, Works, BeginWrite
  <2>6. QED BY <2>1, <2>2, <2>3, <2>4, <2>5 DEF TypeOK, Registers
<1>2. CalendarInv'
  BY DEF Inv, TypeOK, CalendarInv, PowerOn, history, chipVars, Fails, Works, BeginWrite
<1>3. JoyInv'
  BY DEF Inv, TypeOK, JoyInv, PowerOn, history, chipVars, Fails, Works, BeginWrite
<1>4. WritingInv'
  BY SetDate DEF Inv, JoyInv, WritingInv, Writing, PowerOn, BeginWrite, chipVars
<1>5. SetInv'
  BY DEF Inv, TypeOK, SetInv, PowerOn, WritingInv, Writing, LastYear, OnChip, history, chipVars, Fails, Works, BeginWrite
<1>6. ReadingInv'
  BY DEF Inv, TypeOK, ReadingInv, PowerOn, WritingInv, Writing, LastYear, history, chipVars, Fails, Works, BeginWrite
<1>7. N64Inv'
  BY DEF Inv, TypeOK, N64Inv, PowerOn, WritingInv, Writing, history, chipVars, Fails, Works, BeginWrite, JoyInv
<1>8. QED BY <1>1, <1>2, <1>3, <1>4, <1>5, <1>6, <1>7 DEF Inv

LEMMA PowerOffStep ==
  ASSUME Inv, PowerOff
  PROVE  Inv'
<1>1. TypeOK'
  <2>1. /\ chip' \in Dates /\ chip'.c = 0 /\ cent' \in [value: 0..8, last: 0..99]
       /\ osc' \in BOOLEAN /\ magic' \in BOOLEAN
    BY DEF Inv, TypeOK, PowerOff, history, chipVars, Fails, Works
  <2>2. time' \in Dates /\ raw' \in Dates /\ real' \in Dates /\ asked' \in Dates
    BY SetDate DEF Inv, TypeOK, PowerOff, history, chipVars, Fails, Works
  <2>3. /\ pc' \in {"off", "osc", "cent", "regs", "sec", "magic", "read", "show", "joy", "idle"}
       /\ caller' \in {"init", "set", "joybus", "refresh"}
       /\ state' \in {"unset", "setting", "set", "gap", "broken"} /\ fresh' \in BOOLEAN
    BY DEF Inv, TypeOK, PowerOff, history, chipVars, Fails, Works
  <2>4. joy' \in Registers
    BY SetDate DEF Inv, TypeOK, PowerOff, Registers, history, chipVars, Fails, Works, NoJoy
  <2>5. days' \in 0..MaxDays /\ errors' \in 0..MaxErrors /\ sets' \in 0..MaxSets
    BY Bounds DEF Inv, TypeOK, PowerOff, history, chipVars, Fails, Works
  <2>6. QED BY <2>1, <2>2, <2>3, <2>4, <2>5 DEF TypeOK, Registers
<1>2. CalendarInv'
  BY DEF Inv, TypeOK, CalendarInv, PowerOff, history, chipVars, Fails, Works
<1>3. JoyInv'
  BY DEF Inv, TypeOK, JoyInv, PowerOff, history, chipVars, Fails, Works, NoJoy
<1>4. WritingInv'
  BY DEF Inv, TypeOK, WritingInv, PowerOff, Writing, OnChip, history, chipVars, Fails, Works
<1>5. SetInv'
  BY DEF Inv, TypeOK, SetInv, PowerOff, WritingInv, Writing, LastYear, OnChip, history, chipVars, Fails, Works
<1>6. ReadingInv'
  BY DEF Inv, TypeOK, ReadingInv, PowerOff, WritingInv, Writing, LastYear, history, chipVars, Fails, Works
<1>7. N64Inv'
  BY DEF Inv, TypeOK, N64Inv, PowerOff, WritingInv, Writing, history, chipVars, Fails, Works
<1>8. QED BY <1>1, <1>2, <1>3, <1>4, <1>5, <1>6, <1>7 DEF Inv

LEMMA JoySetStep ==
  ASSUME Inv, NEW t \in JoyDates, JoySet(t)
  PROVE  Inv'
<1>1. TypeOK'
  <2>1. /\ chip' \in Dates /\ chip'.c = 0 /\ cent' \in [value: 0..8, last: 0..99]
       /\ osc' \in BOOLEAN /\ magic' \in BOOLEAN
    BY DEF Inv, TypeOK, JoySet, history, chipVars, Fails, Works
  <2>2. time' \in Dates /\ raw' \in Dates /\ real' \in Dates /\ asked' \in Dates
    BY SetDate DEF Inv, TypeOK, JoySet, history, chipVars, Fails, Works
  <2>3. /\ pc' \in {"off", "osc", "cent", "regs", "sec", "magic", "read", "show", "joy", "idle"}
       /\ caller' \in {"init", "set", "joybus", "refresh"}
       /\ state' \in {"unset", "setting", "set", "gap", "broken"} /\ fresh' \in BOOLEAN
    BY DEF Inv, TypeOK, JoySet, history, chipVars, Fails, Works
  <2>4. joy' \in Registers
    <3>1. joy \in Registers
      BY DEF Inv, TypeOK, Registers
    <3>2. JoyDate(t) \in Dates
      BY SetDate
    <3>3. joy' = [joy EXCEPT !.stopped = TRUE, !.date = JoyDate(t)]
      BY DEF JoySet
    <3>4. QED BY <3>1, <3>2, <3>3 DEF Registers
  <2>5. days' \in 0..MaxDays /\ errors' \in 0..MaxErrors /\ sets' \in 0..MaxSets
    BY Bounds DEF Inv, TypeOK, JoySet, history, chipVars, Fails, Works
  <2>6. QED BY <2>1, <2>2, <2>3, <2>4, <2>5 DEF TypeOK, Registers
<1>2. CalendarInv'
  BY DEF Inv, TypeOK, CalendarInv, JoySet, history, chipVars, Fails, Works
<1>3. JoyInv'
  BY SetDate DEF Inv, TypeOK, JoyInv, JoySet, history, chipVars, Fails, Works
<1>4. WritingInv'
  BY DEF Inv, TypeOK, WritingInv, JoySet, Writing, OnChip, history, chipVars, Fails, Works, JoyInv
<1>5. SetInv'
  BY DEF Inv, TypeOK, SetInv, JoySet, WritingInv, Writing, LastYear, OnChip, history, chipVars, Fails, Works
<1>6. ReadingInv'
  BY DEF Inv, TypeOK, ReadingInv, JoySet, WritingInv, Writing, LastYear, history, chipVars, Fails, Works
<1>7. N64Inv'
  BY DEF Inv, TypeOK, N64Inv, JoySet, WritingInv, Writing, history, chipVars, Fails, Works, JoyInv
<1>8. QED BY <1>1, <1>2, <1>3, <1>4, <1>5, <1>6, <1>7 DEF Inv

LEMMA JoyRunStep ==
  ASSUME Inv, JoyRun
  PROVE  Inv'
<1>1. TypeOK'
  <2>1. /\ chip' \in Dates /\ chip'.c = 0 /\ cent' \in [value: 0..8, last: 0..99]
       /\ osc' \in BOOLEAN /\ magic' \in BOOLEAN
    BY DEF Inv, TypeOK, JoyRun, history, chipVars, Fails, Works
  <2>2. time' \in Dates /\ raw' \in Dates /\ real' \in Dates /\ asked' \in Dates
    BY DEF Inv, TypeOK, JoyRun, history, chipVars, Fails, Works
  <2>3. /\ pc' \in {"off", "osc", "cent", "regs", "sec", "magic", "read", "show", "joy", "idle"}
       /\ caller' \in {"init", "set", "joybus", "refresh"}
       /\ state' \in {"unset", "setting", "set", "gap", "broken"} /\ fresh' \in BOOLEAN
    BY DEF Inv, TypeOK, JoyRun, history, chipVars, Fails, Works
  <2>4. joy' \in Registers
    BY DEF Inv, TypeOK, JoyRun, Registers, history, chipVars, Fails, Works
  <2>5. days' \in 0..MaxDays /\ errors' \in 0..MaxErrors /\ sets' \in 0..MaxSets
    BY Bounds DEF Inv, TypeOK, JoyRun, history, chipVars, Fails, Works
  <2>6. QED BY <2>1, <2>2, <2>3, <2>4, <2>5 DEF TypeOK, Registers
<1>2. CalendarInv'
  BY DEF Inv, TypeOK, CalendarInv, JoyRun, history, chipVars, Fails, Works
<1>3. JoyInv'
  BY DEF Inv, TypeOK, JoyInv, JoyRun, history, chipVars, Fails, Works
<1>4. WritingInv'
  BY DEF Inv, TypeOK, WritingInv, JoyRun, Writing, OnChip, history, chipVars, Fails, Works
<1>5. SetInv'
  BY DEF Inv, TypeOK, SetInv, JoyRun, WritingInv, Writing, LastYear, OnChip, history, chipVars, Fails, Works
<1>6. ReadingInv'
  BY DEF Inv, TypeOK, ReadingInv, JoyRun, WritingInv, Writing, LastYear, history, chipVars, Fails, Works
<1>7. N64Inv'
  BY DEF Inv, TypeOK, N64Inv, JoyRun, WritingInv, Writing, history, chipVars, Fails, Works
<1>8. QED BY <1>1, <1>2, <1>3, <1>4, <1>5, <1>6, <1>7 DEF Inv

\* A midnight, for the date and for what the chip has to show.
LEMMA MidnightShifts ==
  ASSUME Inv, Midnight
  PROVE  LET a    == Ahead(real)
             last == ChipDays(a.y, a.m)
         IN  /\ real' \in Dates /\ Exists(real')
             /\ Position(real') <= 336 * 795 + 367 + days' - MaxDays
             /\ a \in Dates /\ last \in 28..31
             /\ Ahead(real') \in Dates /\ Ahead(real') = DayAfter(a, last)
             /\ Position(Ahead(real')) <= Position(a) + 1
             /\ Year(a) <= Year(Ahead(real'))
<1> DEFINE a == Ahead(real)
           last == ChipDays(a.y, a.m)
<1>1. real \in Dates /\ Exists(real) /\ Year(real) <= 798 /\ a \in Dates
  BY RealBounds, InYear DEF Inv
<1>2. Exists(real') /\ Position(real') <= Position(real) + 1 /\ real' \in Dates
  BY <1>1, NextExists DEF Midnight
<1>3. /\ Position(real) \in Nat /\ Position(real') \in Nat
      /\ days' = days + 1 /\ days \in Nat /\ days' <= MaxDays /\ MaxDays \in Nat
  BY SMTT(25), <1>1, <1>2, InYear, DatesAssumption DEF Inv, TypeOK, Midnight
<1>4. Position(real') <= 336 * 795 + 367 + days' - MaxDays
  BY <1>2, <1>3 DEF Inv, CalendarInv
<1>5. Ahead(real') \in Dates
  BY <1>2, <1>3, <1>4, InRange
<1>6. last \in 28..31
  <2>1. a.y \in 0..99 /\ a.m \in 1..12
    BY <1>1 DEF Dates
  <2>2. QED BY <2>1, ChipLengths
<1>7. Ahead(real') = DayAfter(a, last)
  BY <1>1, DayShifts DEF Midnight
<1>8. Position(Ahead(real')) <= Position(a) + 1 /\ Year(a) <= Year(Ahead(real'))
  <2>1. DayAfter(a, last).d <= 31
    BY <1>5, <1>7 DEF Dates
  <2>2. QED BY <1>1, <1>6, <1>7, <2>1, OneDay
<1>9. QED BY <1>1, <1>2, <1>4, <1>5, <1>6, <1>7, <1>8

LEMMA MidnightStep ==
  ASSUME Inv, Midnight
  PROVE  Inv'
<1>1. TypeOK'
  <2>1. /\ chip' \in Dates /\ chip'.c = 0 /\ cent' \in [value: 0..8, last: 0..99]
       /\ osc' \in BOOLEAN /\ magic' \in BOOLEAN
    <3>1. chip.y \in 0..99 /\ chip.m \in 1..12 /\ chip \in Dates
      BY DEF Inv, TypeOK, Dates
    <3>2. ChipDays(chip.y, chip.m) \in 28..31
      BY <3>1, ChipLengths
    <3>3. OnChip(DayAfter(chip, ChipDays(chip.y, chip.m))) \in Dates
      BY <3>1, <3>2, ChipDate
    <3>4. OnChip(DayAfter(chip, ChipDays(chip.y, chip.m))).c = 0
      BY DEF OnChip
    <3>5. QED BY <3>3, <3>4 DEF Inv, TypeOK, Midnight
  <2>2. time' \in Dates /\ raw' \in Dates /\ real' \in Dates /\ asked' \in Dates
    BY MidnightShifts DEF Inv, TypeOK, Midnight
  <2>3. /\ pc' \in {"off", "osc", "cent", "regs", "sec", "magic", "read", "show", "joy", "idle"}
       /\ caller' \in {"init", "set", "joybus", "refresh"}
       /\ state' \in {"unset", "setting", "set", "gap", "broken"} /\ fresh' \in BOOLEAN
    BY DEF Inv, TypeOK, Midnight, history, chipVars, Fails, Works
  <2>4. joy' \in Registers
    BY DEF Inv, TypeOK, Midnight, Registers, history, chipVars, Fails, Works
  <2>5. days' \in 0..MaxDays /\ errors' \in 0..MaxErrors /\ sets' \in 0..MaxSets
    BY Bounds DEF Inv, TypeOK, Midnight, history, chipVars, Fails, Works
  <2>6. QED BY <2>1, <2>2, <2>3, <2>4, <2>5 DEF TypeOK, Registers
<1>2. CalendarInv'
  BY MidnightShifts DEF CalendarInv
<1>3. JoyInv'
  BY DEF Inv, TypeOK, JoyInv, Midnight, history, chipVars, Fails, Works
<1>4. WritingInv'
  BY DEF Inv, TypeOK, WritingInv, Midnight, Writing, OnChip, history, chipVars, Fails, Works
<1>5. SetInv'
  <2>1. SUFFICES ASSUME state = "set" PROVE SetInv'
    BY DEF SetInv, Midnight
  <2> DEFINE a == Ahead(real)
             last == ChipDays(a.y, a.m)
  <2>2. a \in Dates /\ last \in 28..31 /\ Ahead(real') = DayAfter(a, last)
    BY MidnightShifts
  <2>3. osc /\ chip = OnChip(a)
    BY <2>1 DEF Inv, SetInv
  <2>4. chip' = OnChip(Ahead(real'))
    <3>1. chip.y = a.y /\ chip.m = a.m
      BY <2>3 DEF OnChip
    <3>2. chip' = OnChip(DayAfter(chip, last))
      BY <2>3, <3>1 DEF Midnight
    <3>3. QED BY <2>2, <2>3, <3>2, ChipDate
  <2>5. LastYear <= Year(a) /\ Position(a) <= 336 * LastYear + 367 + days
    BY <2>1 DEF Inv, SetInv
  <2>6. /\ LastYear \in Int /\ days \in Int /\ days' = days + 1 /\ osc' = osc /\ LastYear' = LastYear
    BY DEF Inv, TypeOK, LastYear, Midnight
  <2>7. /\ LastYear' <= Year(Ahead(real'))
        /\ Position(Ahead(real')) <= 336 * LastYear' + 367 + days'
    <3>1. /\ Position(a) \in Int /\ Year(a) \in Int
          /\ Position(Ahead(real')) \in Int /\ Year(Ahead(real')) \in Int
      BY MidnightShifts, InYear
    <3>2. Position(Ahead(real')) <= Position(a) + 1 /\ Year(a) <= Year(Ahead(real'))
      BY MidnightShifts
    <3>3. QED BY <2>5, <2>6, <3>1, <3>2
  <2>8. QED BY <2>3, <2>4, <2>6, <2>7 DEF SetInv
<1>6. ReadingInv'
  <2>1. SUFFICES ASSUME state = "set", pc = "show"
                 PROVE  LastYear' <= Year(raw') /\ Year(raw') <= Year(Ahead(real'))
    BY DEF ReadingInv, Midnight
  <2>2. LastYear <= Year(raw) /\ Year(raw) <= Year(Ahead(real))
    BY <2>1 DEF Inv, ReadingInv
  <2>3. Year(Ahead(real)) <= Year(Ahead(real'))
    BY MidnightShifts
  <2>4. Year(raw) \in Int /\ Year(Ahead(real)) \in Int /\ Year(Ahead(real')) \in Int
    BY MidnightShifts, InYear DEF Inv, TypeOK
  <2>5. QED BY <2>2, <2>3, <2>4 DEF LastYear, Midnight
<1>7. N64Inv'
  BY DEF Inv, TypeOK, N64Inv, Midnight, WritingInv, Writing, history, chipVars, Fails, Works
<1>8. QED BY <1>1, <1>2, <1>3, <1>4, <1>5, <1>6, <1>7 DEF Inv

LEMMA StutterStep ==
  ASSUME Inv, UNCHANGED vars
  PROVE  Inv'
<1> USE DEF vars, chipVars, history
<1>1. TypeOK' /\ CalendarInv' /\ JoyInv' /\ WritingInv'
  BY DEF Inv, TypeOK, CalendarInv, JoyInv, WritingInv, Writing
<1>2. SetInv' /\ ReadingInv' /\ N64Inv'
  BY DEF Inv, SetInv, LastYear, ReadingInv, N64Inv
<1>3. QED BY <1>1, <1>2 DEF Inv

\* The invariant, by the lemmas above.
LEMMA RtcInvariant == Spec => []Inv
<1>1. Inv /\ [Next]_vars => Inv'
  BY StopOscStep, WriteCenturyStep, WriteRegsStep, WriteSecStep, WriteMagicStep, ReadTimeStep,
     ShowTimeStep, WriteJoybusStep, TakeJoybusStep, RefreshStep, SetTimeStep, PowerOnStep,
     PowerOffStep, JoySetStep, JoyRunStep, MidnightStep, StutterStep, Zenon DEF Next
<1>2. QED BY <1>1, InitInv, PTL DEF Spec

\* Every date is a date, and the counters keep their ranges (rtc.c).
THEOREM RtcTyped == Spec => []TypeOK
BY RtcInvariant, PTL DEF Inv

\* A clock that was set shows the true date, for every date and for up to 32000
\* days after the set as far as the century counter goes, whatever happens in
\* between (rtc.c:120-253, 255-284).
THEOREM ClockShowsTheDate == Spec => []ClockIsRight
<1>1. Inv => ClockIsRight
  BY DEF Inv, ReadingInv, ClockIsRight
<1>2. QED BY <1>1, RtcInvariant, PTL

\* The set of the N64 ends in WriteJoybus, for the N64, with its date as the
\* controller's (rtc.c:343-359, n64_si.sv:379).
LEMMA KeptStep ==
  ASSUME Inv, WriteJoybus, joy.pending, ~joy'.pending, state = "set", days = 0
  PROVE  joy'.date = asked
<1> DEFINE i == [joy EXCEPT !.wdata = JoyDate(time), !.valid = TRUE]
           j == Follow(i)
           k == [j EXCEPT !.pending = FALSE]
<1>1. joy \in Registers /\ JoyDate(time) \in Dates
  BY JoyDateKeeps DEF Inv, TypeOK, Registers
<1>2. /\ i \in Registers /\ i.pending /\ i.stopped = joy.stopped
      /\ i.wdata = JoyDate(time) /\ i.valid
  BY <1>1 DEF Registers
<1>3. j = i
  BY <1>2 DEF Follow
<1>4. joy' = IF caller = "joybus" THEN Follow(k) ELSE j
  BY DEF WriteJoybus
<1>5. caller = "joybus"
  BY <1>2, <1>3, <1>4
<1>6. time = asked /\ asked.c \in 0..1 /\ ~joy.stopped /\ asked \in Dates
  BY <1>5 DEF Inv, TypeOK, JoyInv, N64Inv, WriteJoybus
<1>7. k.wdata = JoyDate(time) /\ k.valid /\ ~k.stopped /\ ~k.pending /\ k \in Registers
  BY <1>2, <1>3, <1>6 DEF Registers
<1>8. joy'.date = JoyDate(time)
  <2> HIDE DEF k
  <2> QED BY <1>4, <1>5, <1>7, FollowKeeps
<1>9. QED BY <1>6, <1>8, JoyDateKeeps

\* The date that the N64 sets is what its own clock goes on with
\* (n64_si.sv:379, rtc.c:450-455).
THEOREM N64ClockKept == Spec => N64SetKept
<1> DEFINE Kept == joy.pending /\ ~joy'.pending /\ pc' # "off" /\ state = "set" /\ days = 0
                     => joy'.date = asked
<1>1. Inv /\ [Next]_vars => [Kept]_vars
  <2> SUFFICES ASSUME Inv, Next, joy.pending, ~joy'.pending, pc' # "off", state = "set", days = 0
               PROVE  joy'.date = asked
    OBVIOUS
  <2>1. CASE WriteJoybus
    BY <2>1, KeptStep
  <2>2. CASE StopOsc \/ WriteCentury \/ WriteRegs \/ WriteSec \/ WriteMagic
    BY <2>2 DEF StopOsc, WriteCentury, WriteRegs, WriteSec, WriteMagic, SetStep
  <2>3. CASE ReadTime \/ ShowTime \/ TakeJoybus \/ Refresh \/ Midnight \/ PowerOn
    BY <2>3 DEF ReadTime, ShowTime, TakeJoybus, Refresh, Midnight, PowerOn
  <2>4. CASE (\E t \in SetDates : SetTime(t)) \/ PowerOff
    BY <2>4 DEF SetTime, PowerOff
  <2>5. CASE JoyRun
    BY <2>5 DEF Inv, TypeOK, JoyRun
  <2>6. CASE \E t \in JoyDates : JoySet(t)
    BY <2>6 DEF JoySet
  <2>7. QED BY <2>1, <2>2, <2>3, <2>4, <2>5, <2>6 DEF Next
<1>2. QED BY <1>1, RtcInvariant, PTL DEF Spec, N64SetKept
=============================================================================
