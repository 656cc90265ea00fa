-------------------------------- MODULE Calendar --------------------------------
(***************************************************************************)
(* inc/time.h: dates and seconds, timestamp and mktime, as get_time in the *)
(* kernel and the programs date and vdate use them.  The loops over years  *)
(* and months are recursive functions.  The clock's years before 2038, when *)
(* an int is too short for the seconds, are the ones considered.           *)
(***************************************************************************)
EXTENDS Integers, Sequences

is_leap_year(year) == year % 400 = 0 \/ (year % 4 = 0 /\ year % 100 # 0)

DAY == 24 * 60 * 60
Leap(year) == IF is_leap_year(year) THEN 1 ELSE 0
YearSeconds(year) == DAY * (365 + Leap(year))
months(year) == <<31, 28 + Leap(year), 31, 30, 31, 30, 31, 31, 30, 31, 30, 31>>

\* timestamp: tm_year counts from 2000, as the clock's register does, and a
\* day is counted before it is over.
YearsBefore[year \in Nat] == IF year = 1970 THEN 0 ELSE YearsBefore[year - 1] + YearSeconds(year - 1)
MonthsBefore[m \in Nat, year \in Nat] ==
  IF m = 0 THEN 0 ELSE MonthsBefore[m - 1, year] + DAY * months(year)[m]

timestamp(tm) ==
  LET year == tm.year + 2000
  IN  YearsBefore[year] + MonthsBefore[tm.mon, year]
      + DAY * tm.mday + 3600 * tm.hour + 60 * tm.min + tm.sec

\* mktime: its years count from 1900.
Years[time \in Int, year \in Nat] ==
  IF time > YearSeconds(1900 + year) THEN Years[time - YearSeconds(1900 + year), year + 1]
  ELSE [left |-> time, count |-> year]
Months[time \in Int, year \in Nat, month \in Nat] ==
  IF time > DAY * months(year)[month + 1]
  THEN Months[time - DAY * months(year)[month + 1], year, month + 1]
  ELSE [left |-> time, count |-> month]
\* how often a unit is subtracted while more than that is left
Count(time, unit) == IF time <= 0 THEN 0 ELSE (time - 1) \div unit

mktime(time) ==
  LET y == Years[time, 70]
      m == Months[y.left, 1900 + y.count, 0]
      d == Count(m.left, DAY)
      rest == m.left - d * DAY
  IN  [year |-> y.count, mon |-> m.count, mday |-> d,
       hour |-> rest \div 3600, min |-> (rest % 3600) \div 60, sec |-> rest % 60]

-----------------------------------------------------------------------------
\* The dates a clock shows in some years, at the beginning, in the middle and
\* at the end of a day
CONSTANT ClockYears

Times == {<<0, 0, 0>>, <<0, 0, 1>>, <<12, 30, 30>>, <<23, 59, 59>>}
DatesOf(year, mon) ==
  LET last == months(year + 2000)[mon + 1]
  IN  {[year |-> year, mon |-> mon, mday |-> d, hour |-> t[1], min |-> t[2], sec |-> t[3]] :
         d \in {1, 2, 15, last - 1, last}, t \in Times}

VARIABLE date
calVars == <<date>>

calInit == date = [year |-> 0, mon |-> 0, mday |-> 1, hour |-> 0, min |-> 0, sec |-> 0]
\* The clock goes on to another date of the month or of the next one.
calNext ==
  \E year \in ClockYears, mon \in 0 .. 11 :
    /\ 12 * year + mon - 12 * date.year - date.mon \in 0 .. 1
    /\ date' \in DatesOf(year, mon)

Shifted(tm) == [tm EXCEPT !.year = @ - 100]

\* Seconds from the beginning of 1970 to a date of the clock, by the calendar's
\* rule for leap years
DaysBefore(year) == 365 * (year - 1) + (year - 1) \div 4 - (year - 1) \div 100 + (year - 1) \div 400
DayOfYear(tm) ==
  (367 * (tm.mon + 1) - 362) \div 12 + tm.mday
    + (IF tm.mon < 2 THEN 0 ELSE Leap(tm.year + 2000) - 2)
UnixTime(tm) ==
  DAY * (DaysBefore(tm.year + 2000) - DaysBefore(1970) + DayOfYear(tm) - 1)
    + 3600 * tm.hour + 60 * tm.min + tm.sec

\* What gettime returns is one day more than the seconds since 1970 (the comment
\* of sys_gettime, kern/syscall.c:406, says "seconds passed from 1970-01-01"), in
\* leap years and others.
TimestampIsADayAhead == timestamp(date) = UnixTime(date) + DAY

\* mktime undoes timestamp, with two exceptions that inc/time.h:11-12 (hours 0 to
\* 23, days 1 to 31) rules out: midnight is shown as the 24th hour of the day
\* before, which may be day 0, and any other time of the last day of a month as
\* day 0 of the next month.
LastDay(tm) == tm.mday = months(tm.year + 2000)[tm.mon + 1]
Midnight(tm) == tm.hour = 0 /\ tm.min = 0 /\ tm.sec = 0
NextMonth(tm) ==
  [tm EXCEPT !.mday = 0, !.mon = (@ + 1) % 12, !.year = IF tm.mon = 11 THEN @ + 1 ELSE @]
ShownDate(tm) ==
  IF Midnight(tm) THEN [tm EXCEPT !.mday = @ - 1, !.hour = 24]
  ELSE IF LastDay(tm) THEN NextMonth(tm) ELSE tm
DateIsShown == Shifted(mktime(timestamp(date))) = ShownDate(date)
=============================================================================
