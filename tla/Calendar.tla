------------------------------ MODULE Calendar ------------------------------
(***************************************************************************)
(* The wall clock that certificate validity is checked against             *)
(* (services/tls/src/lib.rs): WallClock::instant turns the application's   *)
(* Unix time into MbedTLS's broken-down time with epoch_to_tm, by integer  *)
(* arithmetic on eras of 400 years.                                        *)
(*                                                                         *)
(* An epoch is kept as the pair the function first splits it into, the     *)
(* whole days and the seconds of the day.  Beside it runs a calendar that  *)
(* only knows how long a month is.                                         *)
(***************************************************************************)
EXTENDS Integers

CONSTANTS
  Years,      \* years to walk through
  Seconds     \* seconds of the day at which the clock is looked at

ASSUME CalendarAssumption ==
  /\ Years \subseteq {y \in Nat : y >= 1970}
  /\ Seconds \subseteq {s \in Nat : s < 86400} /\ {0, 86399} \subseteq Seconds

VARIABLES
  now,        \* what the application's clock says: a time, or NoTime
  date        \* the same day on the reference calendar

vars == <<now, date>>

NoTime == [days |-> -1, secs |-> 0]
None   == [none |-> TRUE]

-----------------------------------------------------------------------------
(* epoch_to_tm                                                             *)

\* Eras of 400 years that begin on 1 March of year 0.
z(days)   == days + 719468
era(days) == z(days) \div 146097
doe(days) == z(days) % 146097

\* Forget that the fourth century of an era ends with a leap day.
yoe_century(d) == (d - d \div 1460 + d \div 36524) \div 365

\* The year of the era, the day of that year and the month, from 1 March.
yoe(d) == (d - d \div 1460 + d \div 36524 - d \div 146096) \div 365
doy(d) == d - (365 * yoe(d) + yoe(d) \div 4 - yoe(d) \div 100)
mp(d)  == (5 * doy(d) + 2) \div 153

day(days)   == doy(doe(days)) - (153 * mp(doe(days)) + 2) \div 5 + 1
month(days) == IF mp(doe(days)) < 10 THEN mp(doe(days)) + 3
                                     ELSE mp(doe(days)) - 9
year(days)  == yoe(doe(days)) + era(days) * 400
               + (IF month(days) <= 2 THEN 1 ELSE 0)

is_leap(y) == y % 4 = 0 /\ (y % 100 # 0 \/ y % 400 = 0)

CUMULATIVE == <<0, 31, 59, 90, 120, 151, 181, 212, 243, 273, 304, 334>>

yday(days) == CUMULATIVE[month(days)] + day(days) - 1
  + (IF is_leap(year(days)) /\ month(days) > 2 THEN 1 ELSE 0)

time_of(secs) ==
  [sec |-> secs % 60, min |-> (secs \div 60) % 60, hour |-> secs \div 3600]

date_of(days) ==
  [mday |-> day(days), mon |-> month(days) - 1, year |-> year(days) - 1900,
   wday |-> (days + 4) % 7, yday |-> yday(days)]

\* (1970..=9999).contains(&year)
Representable(y) == 1970 <= y /\ y <= 9999

epoch_to_tm(t) ==
  IF ~Representable(year(t.days)) THEN None
  ELSE [date |-> date_of(t.days), time |-> time_of(t.secs)]

\* WallClock::instant: no time before the application has one.
instant(t) == IF t = NoTime THEN None ELSE epoch_to_tm(t)

-----------------------------------------------------------------------------
(* The reference calendar, and the clock that walks it                     *)

LeapYear(y) == \/ 4 * (y \div 4) = y /\ 100 * (y \div 100) # y
               \/ 400 * (y \div 400) = y

MonthLength(y, m) ==
  IF m = 2 THEN IF LeapYear(y) THEN 29 ELSE 28
  ELSE IF m \in {4, 6, 9, 11} THEN 30 ELSE 31

\* The day after.
Tomorrow(d) ==
  LET monthEnds == d.mday = MonthLength(d.year, d.month)
      yearEnds  == monthEnds /\ d.month = 12
  IN  [year  |-> IF yearEnds THEN d.year + 1 ELSE d.year,
       month |-> IF yearEnds THEN 1
                 ELSE IF monthEnds THEN d.month + 1 ELSE d.month,
       mday  |-> IF monthEnds THEN 1 ELSE d.mday + 1,
       yday  |-> IF yearEnds THEN 0 ELSE d.yday + 1,
       wday  |-> (d.wday + 1) % 7]

\* Days from the epoch, a Thursday, to 1 January.
NewYear(y) == LET p == y - 1 IN
  365 * (y - 1970) + p \div 4 - p \div 100 + p \div 400 - 477

NewYearDate(y) ==
  [year |-> y, month |-> 1, mday |-> 1, yday |-> 0,
   wday |-> (4 + NewYear(y)) % 7]

Init == now = NoTime /\ date = NewYearDate(1970)

\* The application obtains the time, on the first day of some year.
Synchronise == \E y \in Years :
  /\ now = NoTime
  /\ now' = [days |-> NewYear(y), secs |-> 0]
  /\ date' = NewYearDate(y)

Tick == \E s \in Seconds :
  /\ now # NoTime /\ s > now.secs
  /\ \A r \in Seconds : r <= now.secs \/ r >= s
  /\ now' = [now EXCEPT !.secs = s]
  /\ UNCHANGED date

Midnight ==
  /\ now # NoTime /\ now.secs = 86399 /\ date.year \in Years
  /\ now' = [days |-> now.days + 1, secs |-> 0]
  /\ date' = Tomorrow(date)

\* The chip restarts, and has no time again.
Restart ==
  /\ now # NoTime
  /\ now' = NoTime /\ date' = NewYearDate(1970)

Next == Synchronise \/ Tick \/ Midnight \/ Restart

Spec == Init /\ [][Next]_vars

-----------------------------------------------------------------------------
\* There is a broken-down time exactly when the application has the time and
\* the year is at most 9999 (the certificate checks fail closed otherwise).
HasTime == now # NoTime /\ date.year <= 9999

\* epoch_to_tm gives the day of the calendar - its date, its number in the
\* year and its weekday - across month ends, leap days and the ends of
\* centuries, and no day when there is none to give.
DateExact ==
  IF HasTime
  THEN instant(now).date =
         [mday |-> date.mday, mon |-> date.month - 1,
          year |-> date.year - 1900, wday |-> date.wday, yday |-> date.yday]
  ELSE instant(now) = None

\* The fields of the time of day are in their ranges and together are the
\* second of the day.
TimeExact == LET t == time_of(now.secs) IN
  /\ t.sec \in 0 .. 59 /\ t.min \in 0 .. 59 /\ t.hour \in 0 .. 23
  /\ t.hour * 3600 + t.min * 60 + t.sec = now.secs

\* InstantExact: what certificates are checked against is the day and the
\* second of the application's clock.
InstantExact == DateExact /\ TimeExact

-----------------------------------------------------------------------------
(* What the clock and the reference calendar have to do with each other    *)

\* Days from 1 January to the first of the month.
Before(y, m) == CUMULATIVE[m] + (IF LeapYear(y) /\ m > 2 THEN 1 ELSE 0)

Dates == [year : Nat, month : Nat, mday : Nat, yday : Nat, wday : Nat]

CalTypeOK ==
  /\ now \in [days : Int, secs : Nat] /\ now.secs < 86400
  /\ date \in Dates

\* d is a day of its month, and its place in the year and in the week and the
\* n days since the epoch are counted from the beginning of that month.
OnCalendar(n, d) ==
  /\ d.year >= 1970 /\ 1 <= d.month /\ d.month <= 12
  /\ 1 <= d.mday /\ d.mday <= MonthLength(d.year, d.month)
  /\ d.yday = Before(d.year, d.month) + d.mday - 1
  /\ n = NewYear(d.year) + d.yday
  /\ d.wday = (4 + n) % 7

CalInv == CalTypeOK /\ (now # NoTime => OnCalendar(now.days, date))
=============================================================================
