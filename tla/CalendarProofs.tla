--------------------------- MODULE CalendarProofs ---------------------------
(***************************************************************************)
(* epoch_to_tm is exact on every day since 1970, in whatever years the     *)
(* clock is looked at.  A year of the function begins on 1 March: its day  *)
(* and its year are found by dividing, with corrections for the leap days  *)
(* of the years, the centuries and the eras (YoeExact), and its months lie *)
(* on a line (DayOfFacts).  CivilExact puts the two together; CalInv says  *)
(* that the reference calendar counts its days the same way, and follows   *)
(* it from midnight to midnight (NextDay).  EraShift states the periodicity*)
(* on which the function rests.                                            *)
(***************************************************************************)
EXTENDS Calendar, TLAPS

\* k eras later it is the same day of the era, in the era k later.
LEMMA DoeShift ==
  ASSUME NEW d \in Nat, NEW k \in Nat, NEW e, e = d + 146097 * k
  PROVE  e \in Nat /\ doe(e) = doe(d) /\ era(e) = era(d) + k
BY SMT DEF doe, era, z

\* The day and the month depend on the day of the era only.
LEMMA SameDoe ==
  ASSUME NEW d, NEW e, doe(e) = doe(d)
  PROVE  day(e) = day(d) /\ month(e) = month(d)
BY Zenon DEF day, month

\* Every value on the way is an integer.
LEMMA Ints ==
  ASSUME NEW d \in Nat
  PROVE  /\ doe(d) \in Int /\ era(d) \in Int
         /\ yoe(doe(d)) \in Int /\ mp(doe(d)) \in Int
         /\ doy(doe(d)) \in Int
         /\ month(d) \in Int /\ day(d) \in Int /\ year(d) \in Int
<1>1. doe(d) \in Int /\ era(d) \in Int
  BY SMT DEF doe, era, z
<1>2. yoe(doe(d)) \in Int
  BY <1>1, SMT DEF yoe
<1>3. doy(doe(d)) \in Int
  BY <1>1, <1>2, SMT DEF doy
<1>4. mp(doe(d)) \in Int
  BY <1>3, SMT DEF mp
<1>5. month(d) \in Int
  BY <1>4, SMT DEF month
<1>6. day(d) \in Int
  BY <1>3, <1>4, SMT DEF day
<1>7. year(d) \in Int
  BY <1>1, <1>2, SMT DEF year
<1> QED
  BY <1>1, <1>2, <1>3, <1>4, <1>5, <1>6, <1>7

\* The year moves by 400 with every era.
LEMMA YearShift ==
  ASSUME NEW d \in Nat, NEW e \in Nat, NEW k \in Nat,
         doe(e) = doe(d), era(e) = era(d) + k
  PROVE  year(e) = year(d) + 400 * k
<1> DEFINE bump == IF month(d) <= 2 THEN 1 ELSE 0
<1>1. year(d) = yoe(doe(d)) + era(d) * 400 + bump
  BY SMT DEF year
<1>2. year(e) = yoe(doe(d)) + (era(d) + k) * 400 + bump
  BY SameDoe, SMT DEF year
<1>3. bump \in Int
  BY SMT
<1> QED
  BY <1>1, <1>2, <1>3, Ints, SMT

\* 400 years do not change whether a year is a leap year.
LEMMA LeapShift ==
  ASSUME NEW y \in Int, NEW k \in Nat
  PROVE  is_leap(y + 400 * k) = is_leap(y)
<1>1. (y + 400 * k) % 4 = y % 4
  BY SMT
<1>2. (y + 400 * k) % 100 = y % 100
  BY SMT
<1>3. (y + 400 * k) % 400 = y % 400
  BY SMT
<1> QED
  BY <1>1, <1>2, <1>3, SMT DEF is_leap

\* epoch_to_tm's date k eras later is the same date at the same place of the
\* week and of the year, with the year moved by 400 k.
THEOREM EraShift ==
  ASSUME NEW d \in Nat, NEW k \in Nat, NEW e, e = d + 146097 * k
  PROVE  date_of(e) = [date_of(d) EXCEPT !.year = @ + 400 * k]
<1>1. e \in Nat /\ doe(e) = doe(d) /\ era(e) = era(d) + k
  BY DoeShift, SMT
<1>2. day(e) = day(d) /\ month(e) = month(d)
  BY <1>1, SameDoe, SMT
<1>3. year(e) = year(d) + 400 * k
  BY <1>1, YearShift, SMT
<1>4. yday(e) = yday(d)
  <2>1. is_leap(year(e)) = is_leap(year(d))
    BY <1>3, Ints, LeapShift, SMT
  <2> QED
    BY <1>2, <2>1, SMT DEF yday
<1>5. (e + 4) % 7 = (d + 4) % 7
  <2>1. e + 4 = (d + 4) + 7 * (20871 * k)
    BY SMT
  <2> QED
    BY <2>1, SMT
<1>6. year(e) - 1900 = (year(d) - 1900) + 400 * k
  BY <1>3, Ints, SMT
<1> QED
  BY <1>2, <1>4, <1>5, <1>6, SMT DEF date_of

\* The hour, the minute and the second of a second of the day.
LEMMA TimeOf ==
  ASSUME NEW s \in Nat, s < 86400
  PROVE  /\ s % 60 \in 0 .. 59
         /\ (s \div 60) % 60 \in 0 .. 59
         /\ s \div 3600 \in 0 .. 23
         /\ (s \div 3600) * 3600 + ((s \div 60) % 60) * 60 + (s % 60) = s
<1>1. s % 60 \in 0 .. 59 /\ (s \div 60) % 60 \in 0 .. 59
  BY SMT
<1>2. s \div 3600 \in 0 .. 23
  BY SMT
<1>3. s = 60 * (s \div 60) + (s % 60)
  BY SMT
<1>4. s \div 60 = 60 * (s \div 3600) + ((s \div 60) % 60)
  BY SMT
<1> QED
  BY <1>1, <1>2, <1>3, <1>4, SMT

-----------------------------------------------------------------------------
\* The century corrections of yoe are exact: the day of the era that is day D
\* of year r has year r, up to the last day of a leap year and of the era.
LEMMA YoeExact ==
  ASSUME NEW r \in Nat, r <= 399, NEW D \in Nat, D <= 365,
         D = 365 => r % 4 = 3 /\ (r % 100 # 99 \/ r = 399),
         NEW d \in Int, d = 365 * r + r \div 4 - r \div 100 + D
  PROVE  /\ d >= 0 /\ d <= 146096
         /\ yoe(d) = r
BY SMTT(120) DEF yoe

\* The quarters, centuries and eras of a year count from its era.
LEMMA YearParts ==
  ASSUME NEW Y \in Nat
  PROVE  /\ Y \div 400 \in Nat /\ Y % 400 \in Nat /\ Y % 400 <= 399
         /\ Y = 400 * (Y \div 400) + (Y % 400)
         /\ Y \div 4 = 100 * (Y \div 400) + ((Y % 400) \div 4)
         /\ Y \div 100 = 4 * (Y \div 400) + ((Y % 400) \div 100)
BY SMT

\* The era of a day and the day of the era.
LEMMA EraOf ==
  ASSUME NEW e \in Nat, NEW d \in Int, d >= 0, d <= 146096,
         NEW t \in Int, t = 146097 * e + d
  PROVE  t \div 146097 = e /\ t % 146097 = d
BY SMT

\* is_leap is the calendar's rule.
LEMMA LeapSame ==
  ASSUME NEW y \in Nat
  PROVE  is_leap(y) <=> LeapYear(y)
BY SMT DEF is_leap, LeapYear

\* A year has 365 days, or 366.
LEMMA NextNewYear ==
  ASSUME NEW y \in Nat, y >= 1970
  PROVE  NewYear(y + 1) = NewYear(y) + 365 + (IF LeapYear(y) THEN 1 ELSE 0)
<1>1. y \div 4 = (y - 1) \div 4 + (IF 4 * (y \div 4) = y THEN 1 ELSE 0)
  BY SMT
<1>2. y \div 100 = (y - 1) \div 100 + (IF 100 * (y \div 100) = y THEN 1 ELSE 0)
  BY SMT
<1>3. y \div 400 = (y - 1) \div 400 + (IF 400 * (y \div 400) = y THEN 1 ELSE 0)
  BY SMT
<1>4. 100 * (y \div 100) = y => 4 * (y \div 4) = y
  BY SMT
<1>5. 400 * (y \div 400) = y => 100 * (y \div 100) = y
  BY SMT
<1>6. (y + 1) - 1 = y
  BY SMT
<1> HIDE DEF LeapYear
<1> DEFINE q4 == (y - 1) \div 4
           q100 == (y - 1) \div 100
           q400 == (y - 1) \div 400
<1>7. q4 \in Int /\ q100 \in Int /\ q400 \in Int
  BY SMT
<1> QED
  BY <1>1, <1>2, <1>3, <1>4, <1>5, <1>6, <1>7, SMT DEF NewYear, LeapYear

\* The table of the days before a month.
LEMMA BeforeNat ==
  ASSUME NEW y \in Nat, NEW m \in Nat, 1 <= m, m <= 12
  PROVE  Before(y, m) \in Nat
<1>1. m = 1 \/ m = 2 \/ m = 3 \/ m = 4 \/ m = 5 \/ m = 6 \/ m = 7 \/ m = 8
      \/ m = 9 \/ m = 10 \/ m = 11 \/ m = 12
  BY SMT
<1> QED
  BY <1>1, SMT DEF CUMULATIVE, Before

\* That table adds up the lengths of the months, and the year's.
LEMMA MonthFacts ==
  ASSUME NEW y \in Nat, NEW m \in Nat, 1 <= m, m <= 12
  PROVE  /\ CUMULATIVE[m] \in Nat
         /\ MonthLength(y, m) \in Nat /\ MonthLength(y, m) >= 1
         /\ m < 12 => Before(y, m + 1) = Before(y, m) + MonthLength(y, m)
         /\ m = 12 => Before(y, m) + MonthLength(y, m)
                        = 365 + (IF LeapYear(y) THEN 1 ELSE 0)
<1>1. m = 1 \/ m = 2 \/ m = 3 \/ m = 4 \/ m = 5 \/ m = 6 \/ m = 7 \/ m = 8
      \/ m = 9 \/ m = 10 \/ m = 11 \/ m = 12
  BY SMT
<1> QED
  BY <1>1, SMT DEF CUMULATIVE, Before, MonthLength

\* The year, the month and the day counted from 1 March, as epoch_to_tm does.
Mar(y, m) == IF m <= 2 THEN y - 1 ELSE y
Idx(m) == IF m <= 2 THEN m + 9 ELSE m - 3
DayOf(m, k) == (153 * Idx(m) + 2) \div 5 + k - 1

\* The line (153 mp + 2) / 5 counts the days from 1 March to the months, and
\* (5 doy + 2) / 153 finds the month of every day of the year.
LEMMA DayOfFacts ==
  ASSUME NEW y \in Nat, y >= 1970, NEW m \in Nat, 1 <= m, m <= 12,
         NEW k \in Nat, 1 <= k, k <= MonthLength(y, m)
  PROVE  /\ DayOf(m, k) \in Nat /\ DayOf(m, k) <= 365
         /\ DayOf(m, k) = 365 => m = 2 /\ LeapYear(y)
         /\ (5 * DayOf(m, k) + 2) \div 153 = Idx(m)
         /\ DayOf(m, k) - (153 * Idx(m) + 2) \div 5 + 1 = k
         /\ Before(y, m) + k - 1 =
              DayOf(m, k) + (IF m <= 2 THEN 0 - 306 ELSE 59 + (IF LeapYear(y) THEN 1 ELSE 0))
<1>1. m = 1 \/ m = 2 \/ m = 3 \/ m = 4 \/ m = 5 \/ m = 6 \/ m = 7 \/ m = 8
      \/ m = 9 \/ m = 10 \/ m = 11 \/ m = 12
  BY SMT
<1>2. (m = 2 => k <= 29) /\ (m = 2 /\ ~ LeapYear(y) => k <= 28)
      /\ (m \in {4, 6, 9, 11} => k <= 30) /\ k <= 31
  BY <1>1, SMT DEF MonthLength
<1>3. /\ m = 1 => DayOf(m, k) = 305 + k
      /\ m = 2 => DayOf(m, k) = 336 + k
      /\ m = 3 => DayOf(m, k) = k - 1
      /\ m = 4 => DayOf(m, k) = 30 + k
      /\ m = 5 => DayOf(m, k) = 60 + k
      /\ m = 6 => DayOf(m, k) = 91 + k
      /\ m = 7 => DayOf(m, k) = 121 + k
      /\ m = 8 => DayOf(m, k) = 152 + k
      /\ m = 9 => DayOf(m, k) = 183 + k
      /\ m = 10 => DayOf(m, k) = 213 + k
      /\ m = 11 => DayOf(m, k) = 244 + k
      /\ m = 12 => DayOf(m, k) = 274 + k
  BY SMT DEF DayOf, Idx
<1>4. (5 * DayOf(m, k) + 2) \div 153 = Idx(m)
  BY <1>1, <1>2, <1>3, SMT DEF Idx
<1>5. DayOf(m, k) \in Nat /\ DayOf(m, k) <= 365
      /\ (DayOf(m, k) = 365 => m = 2 /\ LeapYear(y))
  <2>1. LeapYear(y) \in BOOLEAN
    BY DEF LeapYear
  <2> QED
    BY <1>1, <1>2, <1>3, <2>1, SMT
<1>6. DayOf(m, k) - (153 * Idx(m) + 2) \div 5 + 1 = k
  BY <1>1, SMT DEF DayOf, Idx
<1>7. Before(y, m) + k - 1 =
              DayOf(m, k) + (IF m <= 2 THEN 0 - 306 ELSE 59 + (IF LeapYear(y) THEN 1 ELSE 0))
  BY <1>1, <1>3, SMT DEF Before, CUMULATIVE
<1> QED
  BY <1>4, <1>5, <1>6, <1>7

\* epoch_to_tm's arithmetic finds the year, the month and the day of every
\* day since 1970.
LEMMA CivilExact ==
  ASSUME NEW y \in Nat, y >= 1970, NEW m \in Nat, 1 <= m, m <= 12,
         NEW k \in Nat, 1 <= k, k <= MonthLength(y, m),
         NEW n \in Int, n = NewYear(y) + Before(y, m) + k - 1
  PROVE  year(n) = y /\ month(n) = m /\ day(n) = k
<1>0. Before(y, m) \in Nat
  BY BeforeNat, SMT
<1> DEFINE Y == Mar(y, m)
           e == Y \div 400
           r == Y % 400
           D == DayOf(m, k)
           d == 365 * r + r \div 4 - r \div 100 + D
<1>1. Y \in Nat
  BY SMT DEF Mar
<1>2. /\ e \in Nat /\ r \in Nat /\ r <= 399
      /\ Y = 400 * e + r
      /\ Y \div 4 = 100 * e + r \div 4
      /\ Y \div 100 = 4 * e + r \div 100
  BY <1>1, YearParts
<1>3. D \in Nat /\ D <= 365 /\ (D = 365 => m = 2 /\ LeapYear(y))
  BY DayOfFacts
<1>4. D = 365 => r % 4 = 3 /\ (r % 100 # 99 \/ r = 399)
  <2> SUFFICES ASSUME D = 365
               PROVE  r % 4 = 3 /\ (r % 100 # 99 \/ r = 399)
    OBVIOUS
  <2>1. m = 2 /\ LeapYear(y)
    BY <1>3
  <2>2. y = Y + 1
    BY <2>1, SMT DEF Mar
  <2> HIDE DEF Y, e, r
  <2>3. y = 400 * e + r + 1
    BY <1>1, <1>2, <2>2, SMT
  <2>4. r % 4 = 3
    BY <1>2, <2>1, <2>3, SMT DEF LeapYear
  <2>5. r % 100 # 99 \/ r = 399
    BY <1>2, <2>1, <2>3, SMT DEF LeapYear
  <2> QED
    BY <2>4, <2>5
<1>5. d \in Int
  BY <1>2, <1>3, SMT
<1>6. d >= 0 /\ d <= 146096 /\ yoe(d) = r
  BY <1>2, <1>3, <1>4, <1>5, YoeExact
<1>7. z(n) = 146097 * e + d
  <2>1. NewYear(y) = IF m <= 2
                     THEN 365 * (y - 1970) + Y \div 4 - Y \div 100 + e - 477
                     ELSE 365 * (y - 1970) + Y \div 4 - Y \div 100 + e - 477
                          - (IF LeapYear(y) THEN 1 ELSE 0)
    <3>1. CASE m <= 2
      BY <3>1, SMT DEF Mar, NewYear
    <3>2. CASE ~ (m <= 2)
      <4>1. Y = y
        BY <3>2, SMT DEF Mar
      <4>2. NewYear(y + 1) = 365 * (y + 1 - 1970) + y \div 4 - y \div 100 + y \div 400 - 477
        <5>1. (y + 1) - 1 = y
          BY SMT
        <5> QED
          BY <5>1, SMT DEF NewYear
      <4>3. NewYear(y) \in Int /\ y \div 4 \in Int /\ y \div 100 \in Int /\ y \div 400 \in Int
        BY SMT DEF NewYear
      <4> HIDE DEF Y
      <4>4. NewYear(y) = 365 * (y - 1970) + y \div 4 - y \div 100 + y \div 400 - 477
                          - (IF LeapYear(y) THEN 1 ELSE 0)
        BY <4>2, <4>3, NextNewYear, SMT
      <4> QED
        BY <3>2, <4>1, <4>4, SMT
    <3> QED
      BY <3>1, <3>2
  <2>2. Y = IF m <= 2 THEN y - 1 ELSE y
    BY DEF Mar
  <2>3. Before(y, m) + k - 1 =
          D + (IF m <= 2 THEN 0 - 306 ELSE 59 + (IF LeapYear(y) THEN 1 ELSE 0))
    BY DayOfFacts
  <2>4. Before(y, m) \in Nat
    BY <1>0
  <2>5. r \div 4 \in Int /\ r \div 100 \in Int
    BY <1>2, SMT
  <2> HIDE DEF Y, e, r, D
  <2>6. NewYear(y) = 365 * (y - 1970) + 97 * e + r \div 4 - r \div 100 - 477
                          - (IF m <= 2 THEN 0 ELSE IF LeapYear(y) THEN 1 ELSE 0)
    BY <1>2, <2>1, <2>5, SMT
  <2> HIDE DEF d
  <2>7. d = 365 * r + r \div 4 - r \div 100 + D
    BY DEF d
  <2> QED
    BY <1>1, <1>2, <1>3, <1>5, <2>2, <2>3, <2>4, <2>5, <2>6, <2>7, SMT DEF z
<1>8. era(n) = e /\ doe(n) = d
  <2> HIDE DEF d, e
  <2> QED
    <3>1. z(n) \div 146097 = e /\ z(n) % 146097 = d
      <4>1. e \in Nat /\ d >= 0 /\ d <= 146096
        BY <1>2, <1>6
      <4>2. z(n) \in Int
        BY SMT DEF z
      <4> HIDE DEF Y, r, D
      <4> QED
        BY <4>1, <4>2, <1>5, <1>7, SMT
    <3> QED
      BY <3>1 DEF era, doe
<1>9. doy(d) = D
  <2> HIDE DEF r, D
  <2>1. r \div 4 \in Int /\ r \div 100 \in Int
    BY <1>2, SMT
  <2> QED
    BY <1>2, <1>3, <1>6, <2>1, SMT DEF doy
<1>10. mp(d) = Idx(m)
  BY <1>9, DayOfFacts DEF mp
<1>11. month(n) = m
  BY <1>8, <1>10, SMT DEF month, Idx
<1>12. day(n) = k
  <2> HIDE DEF d
  <2> QED
    BY <1>8, <1>9, <1>10, DayOfFacts DEF day
<1>13. year(n) = y
  <2>1. Y = IF m <= 2 THEN y - 1 ELSE y
    BY DEF Mar
  <2> HIDE DEF Y, e, r, d
  <2> QED
    BY <1>1, <1>2, <1>6, <1>8, <1>11, <2>1, SMT DEF year
<1> QED
  BY <1>11, <1>12, <1>13

\* The day after a day of the calendar is the next day of the calendar: within
\* a month, at its end and at the end of a year.
LEMMA NextDay ==
  ASSUME NEW n \in Int, NEW t \in Dates, OnCalendar(n, t)
  PROVE  Tomorrow(t) \in Dates /\ OnCalendar(n + 1, Tomorrow(t))
<1> DEFINE y == t.year
           m == t.month
           k == t.mday
           last == k = MonthLength(y, m)
<1>1. /\ y \in Nat /\ y >= 1970 /\ m \in Nat /\ 1 <= m /\ m <= 12
      /\ k \in Nat /\ 1 <= k /\ k <= MonthLength(y, m)
      /\ t.yday \in Nat /\ t.wday = (4 + n) % 7
      /\ t.yday = Before(y, m) + k - 1 /\ n = NewYear(y) + t.yday
  BY SMT DEF Dates, OnCalendar
<1>2. (t.wday + 1) % 7 = (4 + (n + 1)) % 7 /\ (t.wday + 1) % 7 \in Nat
  BY <1>1, SMT
<1>3. NewYear(y) \in Int
  BY <1>1, SMT DEF NewYear
<1>4. /\ Before(y, m) \in Nat /\ MonthLength(y, m) \in Nat
      /\ m < 12 => Before(y, m + 1) = Before(y, m) + MonthLength(y, m)
      /\ m = 12 => Before(y, m) + MonthLength(y, m)
                     = 365 + (IF LeapYear(y) THEN 1 ELSE 0)
  <2> HIDE DEF y, m
  <2>1. Before(y, m) \in Nat
    BY <1>1, BeforeNat, SMT
  <2>2. MonthLength(y, m) \in Nat
    BY SMT DEF MonthLength
  <2>4. m < 12 => Before(y, m + 1) = Before(y, m) + MonthLength(y, m)
    BY <1>1, MonthFacts, SMT
  <2>3. m = 12 => Before(y, m) + MonthLength(y, m)
                    = 365 + (IF LeapYear(y) THEN 1 ELSE 0)
    BY <1>1, MonthFacts, SMT
  <2> QED
    BY <2>1, <2>2, <2>3, <2>4
<1>5. CASE ~ last
  <2>1. Tomorrow(t) = [year |-> y, month |-> m, mday |-> k + 1,
                       yday |-> t.yday + 1, wday |-> (t.wday + 1) % 7]
    BY <1>5, SMT DEF Tomorrow
  <2>2. Tomorrow(t) \in Dates
    BY <1>1, <1>2, <2>1, SMT DEF Dates
  <2>3. k + 1 <= MonthLength(y, m)
    BY <1>1, <1>4, <1>5, SMT
  <2> QED
    BY <1>1, <1>2, <1>3, <1>4, <2>1, <2>2, <2>3, SMT DEF OnCalendar
<1>6. CASE last /\ m < 12
  <2>1. Tomorrow(t) = [year |-> y, month |-> m + 1, mday |-> 1,
                       yday |-> t.yday + 1, wday |-> (t.wday + 1) % 7]
    BY <1>1, <1>6, SMT DEF Tomorrow
  <2>2. 1 <= MonthLength(y, m + 1)
    BY SMT DEF MonthLength
  <2> QED
    BY <1>1, <1>2, <1>3, <1>4, <1>6, <2>1, <2>2, SMT DEF OnCalendar, Dates
<1>7. CASE last /\ m = 12
  <2>1. Tomorrow(t) = [year |-> y + 1, month |-> 1, mday |-> 1,
                       yday |-> 0, wday |-> (t.wday + 1) % 7]
    BY <1>1, <1>7, SMT DEF Tomorrow
  <2>2. Before(y + 1, 1) = 0 /\ MonthLength(y + 1, 1) = 31
    BY SMT DEF Before, CUMULATIVE, MonthLength
  <2>3. NewYear(y + 1) = n + 1
    <3>1. NewYear(y + 1) = NewYear(y) + 365 + (IF LeapYear(y) THEN 1 ELSE 0)
      <4> HIDE DEF y
      <4> QED
        BY <1>1, NextNewYear, SMT
    <3> QED
      BY <1>1, <1>3, <1>4, <1>7, <3>1, SMT
  <2> QED
    BY <1>1, <1>2, <1>7, <2>1, <2>2, <2>3, SMT DEF OnCalendar, Dates
<1> QED
  BY <1>1, <1>5, <1>6, <1>7, SMT

\* 1 January of a year is a day of the calendar.
LEMMA FirstDay ==
  ASSUME NEW y \in Nat, y >= 1970
  PROVE  /\ NewYear(y) \in Int
         /\ NewYearDate(y) \in Dates
         /\ OnCalendar(NewYear(y), NewYearDate(y))
<1>1. NewYear(y) \in Int
  BY SMT DEF NewYear
<1>2. Before(y, 1) = 0 /\ MonthLength(y, 1) = 31
  BY SMT DEF Before, CUMULATIVE, MonthLength
<1> QED
  BY <1>1, <1>2, SMT DEF NewYearDate, OnCalendar, Dates

\* The clock starts without a time, and every synchronisation, tick, midnight
\* and restart keeps the date beside it a day of the calendar.
THEOREM CalInvCorrect == Spec => []CalInv
<1>1. Init => CalInv
  BY FirstDay, SMT DEF Init, CalInv, CalTypeOK, NoTime
<1>2. CalInv /\ [Next]_vars => CalInv'
  <2> SUFFICES ASSUME CalInv, [Next]_vars
               PROVE  CalInv'
    OBVIOUS
  <2> USE DEF CalInv, CalTypeOK
  <2>1. CASE Synchronise
    <3> PICK y \in Years : /\ now' = [days |-> NewYear(y), secs |-> 0]
                           /\ date' = NewYearDate(y)
      BY <2>1 DEF Synchronise
    <3>1. y \in Nat /\ y >= 1970
      BY CalendarAssumption, SMT
    <3> QED
      BY <3>1, FirstDay, SMT
  <2>2. CASE Tick
    <3> PICK s \in Seconds : /\ now # NoTime
                             /\ now' = [now EXCEPT !.secs = s]
                             /\ UNCHANGED date
      BY <2>2 DEF Tick
    <3>1. s \in Nat /\ s < 86400
      BY CalendarAssumption, SMT
    <3> QED
      BY <3>1, SMT
  <2>3. CASE Midnight
    <3>1. /\ OnCalendar(now.days, date) /\ now.days \in Int
          /\ now' = [days |-> now.days + 1, secs |-> 0]
          /\ date' = Tomorrow(date)
      BY <2>3, SMT DEF Midnight
    <3>2. Tomorrow(date) \in Dates
          /\ OnCalendar(now.days + 1, Tomorrow(date))
      BY <3>1, NextDay
    <3> QED
      BY <3>1, <3>2, SMT
  <2>4. CASE Restart
    BY <2>4, FirstDay, SMT DEF Restart, NoTime
  <2>5. CASE UNCHANGED vars
    BY <2>5, SMT DEF vars
  <2> QED
    BY <2>1, <2>2, <2>3, <2>4, <2>5 DEF Next
<1> QED
  BY <1>1, <1>2, PTL DEF Spec

\* A day of the calendar in the fields of epoch_to_tm's result.
Shown(d) ==
  [mday |-> d.mday, mon |-> d.month - 1, year |-> d.year - 1900,
   wday |-> d.wday, yday |-> d.yday]

\* On a day of the calendar epoch_to_tm gives that day: its date, its weekday
\* and its place in the year.
LEMMA DateOfDay ==
  ASSUME NEW n \in Int, NEW t \in Dates, OnCalendar(n, t)
  PROVE  /\ year(n) = t.year /\ t.year \in Nat /\ t.year >= 1970
         /\ date_of(n) = Shown(t)
<1> DEFINE y == t.year
           m == t.month
           k == t.mday
<1>1. /\ y \in Nat /\ y >= 1970 /\ m \in Nat /\ 1 <= m /\ m <= 12
      /\ k \in Nat /\ 1 <= k /\ k <= MonthLength(y, m)
      /\ t.wday = (4 + n) % 7
      /\ t.yday = Before(y, m) + k - 1 /\ n = NewYear(y) + t.yday
  BY SMT DEF Dates, OnCalendar
<1> HIDE DEF y, m, k
<1>2. Before(y, m) \in Nat /\ NewYear(y) \in Int
  BY <1>1, BeforeNat, SMT DEF NewYear
<1>3. n = NewYear(y) + Before(y, m) + k - 1
  BY <1>1, <1>2, SMT
<1>4. year(n) = y /\ month(n) = m /\ day(n) = k
  BY <1>1, <1>3, CivilExact, SMT
<1>5. yday(n) = t.yday
  <2>1. is_leap(y) <=> LeapYear(y)
    BY <1>1, LeapSame, SMT
  <2>2. CUMULATIVE[m] \in Nat
    BY <1>1, MonthFacts, SMT
  <2> QED
    BY <1>1, <1>4, <2>1, <2>2, SMT DEF yday, Before
<1>6. (n + 4) % 7 = t.wday
  BY <1>1, SMT
<1>7. year(n) = t.year /\ month(n) = t.month /\ day(n) = t.mday
  BY <1>4 DEF y, m, k
<1>8. date_of(n) = Shown(t)
  BY <1>5, <1>6, <1>7, SMT DEF date_of, Shown
<1>9. t.year \in Nat /\ t.year >= 1970
  BY <1>1 DEF y
<1> QED
  BY <1>7, <1>8, <1>9, SMT

\* After the year 9999, and without a time, epoch_to_tm gives nothing.
LEMMA CalInvDate == CalInv => DateExact
<1> SUFFICES ASSUME CalInv
             PROVE  DateExact
  OBVIOUS
<1>1. CASE now = NoTime
  BY <1>1 DEF DateExact, HasTime, instant
<1>2. CASE now # NoTime
  <2>1. OnCalendar(now.days, date) /\ now.days \in Int /\ date \in Dates
    BY <1>2, SMT DEF CalInv, CalTypeOK
  <2>2. /\ year(now.days) = date.year /\ date_of(now.days) = Shown(date)
        /\ date.year \in Nat /\ date.year >= 1970
    BY <2>1, DateOfDay, SMT
  <2>3. HasTime <=> Representable(year(now.days))
    BY <1>2, <2>2, SMT DEF HasTime, Representable
  <2>4. CASE HasTime
    <3>1. instant(now) = [date |-> date_of(now.days), time |-> time_of(now.secs)]
      BY <1>2, <2>3, <2>4, SMT DEF instant, epoch_to_tm
    <3>2. instant(now).date = Shown(date)
      BY <2>2, <3>1, SMT
    <3> QED
      BY <2>4, <3>2, SMT DEF DateExact, Shown
  <2>5. CASE ~HasTime
    <3>1. instant(now) = None
      BY <1>2, <2>3, <2>5, SMT DEF instant, epoch_to_tm
    <3> QED
      BY <2>5, <3>1, SMT DEF DateExact
  <2> QED
    BY <2>4, <2>5, SMT
<1> QED
  BY <1>1, <1>2

\* What certificates are checked against is the day and the second of the
\* application's clock, in whatever year it is looked at.
THEOREM InstantExactCorrect == Spec => []InstantExact
<1>1. CalInv => TimeExact
  BY TimeOf, SMT DEF CalInv, CalTypeOK, TimeExact, time_of
<1>2. CalInv => InstantExact
  BY <1>1, CalInvDate DEF InstantExact
<1> QED
  BY <1>2, CalInvCorrect, PTL
=============================================================================
