----------------------------- MODULE Cli_proofs ------------------------------
(***************************************************************************)
(* Theorems about Cli for every command line, alphabet, epoch and clock:   *)
(* the dates that decode prints are the calendar's, and the exit code says *)
(* what has happened.  The latter compares two readings of the arguments,  *)
(* the loop of parse_options and the declarative one (Asked, Said,         *)
(* WellFormed), from one prefix of them to the next.                       *)
(***************************************************************************)
EXTENDS Cli, IdCodec_proofs, FiniteSetTheorems

(* The day doy of year y of group q of century c, all from 0. *)
DayOfEra(c, q, y, doy) == 36524 * c + 1461 * q + 365 * y + doy

(* There is a day 365 only if the year it ends in is a leap year. *)
IsDayOfEra(c, q, y, doy) ==
  /\ c \in Nat /\ q \in Nat /\ y \in Nat /\ doy \in Nat
  /\ c <= 3 /\ q <= 24 /\ y <= 3 /\ doy <= 365
  /\ doy = 365 => y = 3 /\ (q < 24 \/ c = 3)

LEMMA TakeApart ==
  ASSUME NEW doe \in Nat, doe < ERA
  PROVE  \E c, q, y, doy \in Nat : doe = DayOfEra(c, q, y, doy) /\ IsDayOfEra(c, q, y, doy)
<1>1. PICK c \in 0 .. 3 : /\ 36524 * c <= doe
                          /\ doe - 36524 * c <= 36524
                          /\ doe - 36524 * c = 36524 => c = 3
  <2>0. doe \in Int /\ 0 <= doe /\ doe < 146097
    BY DEF ERA
  <2>1. CASE doe < 36524
    BY <2>0, <2>1
  <2>2. CASE 36524 <= doe /\ doe < 73048
    BY <2>0, <2>2
  <2>3. CASE 73048 <= doe /\ doe < 36524 * 3
    BY <2>0, <2>3
  <2>4. CASE 36524 * 3 <= doe
    BY <2>0, <2>4
  <2> QED BY <2>0, <2>1, <2>2, <2>3, <2>4
<1> DEFINE r == doe - 36524 * c
           q == r \div 1461
           s == r - 1461 * q
<1>2. r \in Int /\ 0 <= r /\ r <= 36524 /\ (r = 36524 => c = 3)
  BY <1>1
<1> HIDE DEF r
<1>3. q \in Nat /\ q <= 24 /\ s \in Int /\ 0 <= s /\ s <= 1460 /\ r = 1461 * q + s /\ (s = 1460 => q < 24 \/ c = 3)
  BY <1>2
<1> HIDE DEF q, s
<1>4. PICK y \in 0 .. 3 : 365 * y <= s /\ s - 365 * y <= 365 /\ (s - 365 * y = 365 => y = 3)
  <2>1. CASE s < 365
    BY <1>3, <2>1
  <2>2. CASE 365 <= s /\ s < 730
    BY <1>3, <2>2
  <2>3. CASE 730 <= s /\ s < 1095
    BY <1>3, <2>3
  <2>4. CASE 1095 <= s
    BY <1>3, <2>4
  <2> QED BY <1>3, <2>1, <2>2, <2>3, <2>4
<1> DEFINE doy == s - 365 * y
<1>5. doy \in Nat /\ doy <= 365 /\ (doy = 365 => y = 3 /\ s = 1460)
  BY <1>3, <1>4
<1>6. doe = DayOfEra(c, q, y, doy)
  BY <1>3, <1>4 DEF DayOfEra, r
<1>7. IsDayOfEra(c, q, y, doy)
  BY <1>3, <1>4, <1>5 DEF IsDayOfEra
<1> HIDE DEF doy
<1> QED BY <1>3, <1>5, <1>6, <1>7

(* The corrections by which the code makes all years 365 days long. *)
LEMMA YearOfEra ==
  ASSUME NEW c, NEW q, NEW y, NEW doy, IsDayOfEra(c, q, y, doy)
  PROVE  /\ year_of_era(DayOfEra(c, q, y, doy)) = 100 * c + 4 * q + y
         /\ day_of_year(DayOfEra(c, q, y, doy)) = doy
<1> DEFINE doe == 36524 * c + 1461 * q + 365 * y + doy
           over == IF 24 * c + q + 365 * y + doy >= 1460 THEN 1 ELSE 0
           yoe == 100 * c + 4 * q + y
<1>0. /\ c \in Int /\ 0 <= c /\ c <= 3 /\ q \in Int /\ 0 <= q /\ q <= 24
      /\ y \in Int /\ 0 <= y /\ y <= 3 /\ doy \in Int /\ 0 <= doy /\ doy <= 365
      /\ doy = 365 => y = 3 /\ (q < 24 \/ c = 3)
  BY DEF IsDayOfEra
<1>1. doe \div 1460 = 25 * c + q + over
  BY <1>0
<1>2. doe \div 36524 - doe \div 146096 = c
  BY <1>0
<1>3. 0 <= doy - over /\ doy - over < 365 /\ over \in Int
  BY <1>0
<1>4. doe - doe \div 1460 + doe \div 36524 - doe \div 146096 = 365 * yoe + (doy - over)
  <2>1. /\ doe \div 1460 \in Int /\ doe \div 36524 \in Int /\ doe \div 146096 \in Int
        /\ doe \in Int
    BY <1>0
  <2> HIDE DEF over
  <2> QED BY <1>0, <1>1, <1>2, <1>3, <2>1
<1>5. year_of_era(doe) = yoe
  <2> HIDE DEF doe, over
  <2>1. (365 * yoe + (doy - over)) \div 365 = yoe
    BY <1>0, <1>3
  <2> QED BY <1>4, <2>1 DEF year_of_era
<1>6. yoe \div 4 = 25 * c + q /\ yoe \div 100 = c
  BY <1>0
<1>7. day_of_year(doe) = doy
  <2>1. doe - (365 * yoe + (25 * c + q) - c) = doy
    BY <1>0
  <2> HIDE DEF doe, yoe
  <2> QED BY <1>5, <1>6, <2>1 DEF day_of_year
<1> QED BY <1>5, <1>7 DEF DayOfEra

(* Years that start in March, by the rules: Y + 1 is the year after.  *)
LEMMA YearsBefore ==
  ASSUME NEW era \in Nat, NEW c, NEW q, NEW y, NEW doy, IsDayOfEra(c, q, y, doy)
  PROVE  LET Y == (100 * c + 4 * q + y) + era * 400
         IN  /\ Y \in Nat
             /\ DaysBeforeYear(Y + 1) = era * ERA + DayOfEra(c, q, y, doy) - doy
             /\ doy = 365 => IsLeap(Y + 1)
             /\ DaysBeforeYear(Y) = DaysBeforeYear(Y + 1) - 365 - (IF IsLeap(Y) THEN 1 ELSE 0)
<1> DEFINE Y == (100 * c + 4 * q + y) + era * 400
<1>0. /\ c \in Int /\ 0 <= c /\ c <= 3 /\ q \in Int /\ 0 <= q /\ q <= 24
      /\ y \in Int /\ 0 <= y /\ y <= 3 /\ doy \in Int /\ 0 <= doy /\ doy <= 365
      /\ doy = 365 => y = 3 /\ (q < 24 \/ c = 3)
  BY DEF IsDayOfEra
<1>1. Y \in Nat
  BY <1>0
<1>2. Y \div 4 = 100 * era + 25 * c + q /\ Y \div 100 = 4 * era + c /\ Y \div 400 = era
  BY <1>0
<1>3. DaysBeforeYear(Y + 1) = era * ERA + DayOfEra(c, q, y, doy) - doy
  <2>1. (Y + 1) - 1 = Y
    BY <1>1
  <2>2. 365 * Y + (100 * era + 25 * c + q) - (4 * era + c) + era
          = era * 146097 + (36524 * c + 1461 * q + 365 * y + doy) - doy
    BY <1>0
  <2> HIDE DEF Y
  <2> QED BY <1>2, <2>1, <2>2 DEF DaysBeforeYear, DayOfEra, ERA
<1>4. ASSUME doy = 365 PROVE IsLeap(Y + 1)
  <2>1. y = 3 /\ (q < 24 \/ c = 3)
    BY <1>0, <1>4
  <2>2. (Y + 1) % 4 = 0
    BY <1>0, <2>1
  <2>3. CASE q < 24
    <3>1. (Y + 1) % 100 = 4 * q + 4
      BY <1>0, <2>1, <2>3
    <3> HIDE DEF Y
    <3> QED BY <1>0, <2>2, <3>1 DEF IsLeap
  <2>4. CASE c = 3 /\ q = 24
    <3>1. (Y + 1) % 400 = 0
      BY <1>0, <2>1, <2>4
    <3> HIDE DEF Y
    <3> QED BY <2>2, <3>1 DEF IsLeap
  <2> QED BY <1>0, <2>1, <2>3, <2>4
<1>5. DaysBeforeYear(Y) = DaysBeforeYear(Y + 1) - 365 - (IF IsLeap(Y) THEN 1 ELSE 0)
  <2> HIDE DEF Y
  <2>1. /\ Y \div 4 - (Y - 1) \div 4 = IF Y % 4 = 0 THEN 1 ELSE 0
        /\ Y \div 4 \in Int /\ (Y - 1) \div 4 \in Int
    BY <1>1
  <2>2. /\ Y \div 100 - (Y - 1) \div 100 = IF Y % 100 = 0 THEN 1 ELSE 0
        /\ Y \div 100 \in Int /\ (Y - 1) \div 100 \in Int
    BY <1>1
  <2>3. /\ Y \div 400 - (Y - 1) \div 400 = IF Y % 400 = 0 THEN 1 ELSE 0
        /\ Y \div 400 \in Int /\ (Y - 1) \div 400 \in Int
    BY <1>1
  <2>4. (Y % 400 = 0 => Y % 100 = 0) /\ (Y % 100 = 0 => Y % 4 = 0)
    BY <1>1
  <2>5. (Y + 1) - 1 = Y
    BY <1>1
  <2> QED BY <1>1, <2>1, <2>2, <2>3, <2>4, <2>5 DEF DaysBeforeYear, IsLeap
<1> QED BY <1>1, <1>3, <1>4, <1>5

(* The lengths of the months, from the day of a year that starts in March; *)
(* b is how many of its days are before the first month of the next year.  *)
LEMMA Months ==
  ASSUME NEW doy \in Nat, doy <= 365, NEW Y \in Nat, doy = 365 => IsLeap(Y + 1)
  PROVE  LET year == Y + (IF month_of(doy) <= 2 THEN 1 ELSE 0)
             m    == month_of(doy)
         IN  /\ m \in 1 .. 12
             /\ day_of(doy) \in 1 .. MonthLength(year, m)
             /\ m <= 2 => DaysBeforeMonth(year, m) + day_of(doy) - 1 = doy - 306
             /\ m > 2 => DaysBeforeMonth(year, m) + day_of(doy) - 1
                           = doy + 59 + (IF IsLeap(Y) THEN 1 ELSE 0)
<1>1. PICK k \in 0 .. 11 : month_index(doy) = k
  BY DEF month_index
<1> DEFINE mp == month_index(doy)
<1>2. 153 * mp <= 5 * doy + 2 /\ 5 * doy + 2 < 153 * mp + 153
  BY <1>1 DEF month_index
<1> HIDE DEF mp
<1>3. month_of(doy) = (IF mp < 10 THEN mp + 3 ELSE mp - 9)
  BY DEF month_of, mp
<1>4. day_of(doy) = doy - (153 * mp + 2) \div 5 + 1
  BY DEF day_of, mp
<1>5. mp \in 0 .. 11
  BY <1>1 DEF mp
<1> USE DEF MonthLength, DaysBeforeMonth, MonthStart
<1>6. CASE mp = 10
  BY <1>2, <1>3, <1>4, <1>6
<1>7. CASE mp = 11
  <2>1. month_of(doy) = 2 /\ day_of(doy) = doy - 336 /\ doy >= 337
    BY <1>2, <1>3, <1>4, <1>7
  <2> QED BY <2>1
<1>8. CASE mp = 0
  BY <1>2, <1>3, <1>4, <1>8
<1>9. CASE mp = 1
  BY <1>2, <1>3, <1>4, <1>9
<1>10. CASE mp = 2
  BY <1>2, <1>3, <1>4, <1>10
<1>11. CASE mp = 3
  BY <1>2, <1>3, <1>4, <1>11
<1>12. CASE mp = 4
  BY <1>2, <1>3, <1>4, <1>12
<1>13. CASE mp = 5
  BY <1>2, <1>3, <1>4, <1>13
<1>14. CASE mp = 6
  BY <1>2, <1>3, <1>4, <1>14
<1>15. CASE mp = 7
  BY <1>2, <1>3, <1>4, <1>15
<1>16. CASE mp = 8
  BY <1>2, <1>3, <1>4, <1>16
<1>17. CASE mp = 9
  BY <1>2, <1>3, <1>4, <1>17
<1> QED BY <1>5, <1>6, <1>7, <1>8, <1>9, <1>10, <1>11, <1>12, <1>13, <1>14, <1>15, <1>16, <1>17

(* The date that decode prints is the one of the Gregorian calendar, for   *)
(* every day from 1970 on (main.rs:187-212).                               *)
THEOREM EveryDateIsRight == \A days \in Nat : DateIsRight(days)
<1> TAKE days \in Nat
<1> DEFINE z == days + 719468
           era == z \div ERA
           doe == z - era * ERA
<1>1. /\ era \in Nat /\ doe \in Nat /\ doe < ERA /\ days = era * ERA + doe - 719468
  BY DEF ERA
<1>2. PICK c, q, y, doy \in Nat :
        doe = DayOfEra(c, q, y, doy) /\ IsDayOfEra(c, q, y, doy)
  BY <1>1, TakeApart
<1> DEFINE Y == (100 * c + 4 * q + y) + era * 400
           m == month_of(doy)
           year == Y + (IF m <= 2 THEN 1 ELSE 0)
<1>3. year_of_era(doe) = 100 * c + 4 * q + y /\ day_of_year(doe) = doy
  BY <1>2, YearOfEra
<1>4. civil(days) = [year |-> year, month |-> m, day |-> day_of(doy)]
  BY <1>3 DEF civil
<1> HIDE DEF doe, z, era
<1>5. /\ Y \in Nat
      /\ DaysBeforeYear(Y + 1) = era * ERA + doe - doy
      /\ doy = 365 => IsLeap(Y + 1)
      /\ DaysBeforeYear(Y) = DaysBeforeYear(Y + 1) - 365 - (IF IsLeap(Y) THEN 1 ELSE 0)
  BY <1>1, <1>2, YearsBefore
<1> HIDE DEF Y
<1>6. /\ m \in 1 .. 12
      /\ day_of(doy) \in 1 .. MonthLength(year, m)
      /\ m <= 2 => DaysBeforeMonth(year, m) + day_of(doy) - 1 = doy - 306
      /\ m > 2 => DaysBeforeMonth(year, m) + day_of(doy) - 1
                    = doy + 59 + (IF IsLeap(Y) THEN 1 ELSE 0)
  <2>1. doy \in Nat /\ doy <= 365
    BY <1>2 DEF IsDayOfEra
  <2> QED BY <1>5, <2>1, Months
<1> DEFINE D == DaysBeforeMonth(year, m)
           d == day_of(doy)
           E == era * ERA
<1>7. /\ D \in Int /\ d \in Int /\ E \in Int /\ doe \in Int
  <2>1. MonthStart[m] \in Int
    BY <1>6 DEF MonthStart
  <2>2. MonthLength(year, m) \in Int
    BY DEF MonthLength
  <2> QED BY <1>1, <1>6, <2>1, <2>2 DEF DaysBeforeMonth, ERA
<1> DEFINE L == IF IsLeap(Y) THEN 1 ELSE 0
<1>8. L \in Int
  OBVIOUS
<1>9. /\ DaysBeforeYear(Y + 1) = E + doe - doy
      /\ DaysBeforeYear(Y) = DaysBeforeYear(Y + 1) - 365 - L
      /\ m <= 2 => D + d - 1 = doy - 306
      /\ m > 2 => D + d - 1 = doy + 59 + L
  BY <1>5, <1>6
<1>10. m \in Int /\ year = Y + (IF m <= 2 THEN 1 ELSE 0)
  BY <1>6
<1> HIDE DEF D, d, E, L, m, year
<1>11. days = DaysBeforeYear(year) - 719162 + D + d - 1
  <2>1. days = E + doe - 719468
    BY <1>1 DEF E
  <2>2. CASE m <= 2
    <3>1. year = Y + 1
      BY <1>10, <2>2
    <3> QED BY <1>7, <1>9, <2>1, <2>2, <3>1
  <2>3. CASE m > 2
    <3>1. year = Y
      BY <1>5, <1>10, <2>3
    <3> QED BY <1>7, <1>8, <1>9, <2>1, <2>3, <3>1
  <2> QED BY <1>10, <2>2, <2>3
<1>12. year \in Nat
  BY <1>5, <1>10
<1> QED BY <1>4, <1>6, <1>11, <1>12 DEF DateIsRight, IsDate, DayNumber, D, d

(* A number taken apart by a divisor, and a multiple of it put together.   *)
LEMMA Divided ==
  ASSUME NEW n \in Nat, NEW d \in Nat \ {0}
  PROVE  /\ n \div d \in Nat /\ n % d \in 0 .. d - 1
         /\ n = (n \div d) * d + (n % d)
OBVIOUS

LEMMA QuotientBelow ==
  ASSUME NEW n \in Nat, NEW d \in Nat \ {0}, NEW k \in Nat, n < k * d
  PROVE  n \div d \in 0 .. k - 1
<1> DEFINE q == n \div d
<1>1. q \in Nat /\ q * d <= n
  BY Divided
<1> HIDE DEF q
<1>2. q >= k => q * d >= k * d
  BY <1>1
<1>3. q * d \in Nat /\ k * d \in Nat
  BY <1>1
<1>4. q < k
  <2> DEFINE x == q * d
             y == k * d
  <2>1. x \in Nat /\ y \in Nat /\ x <= n /\ n < y /\ (q >= k => x >= y)
    BY <1>1, <1>2, <1>3
  <2> HIDE DEF x, y
  <2> QED BY <1>1, <2>1
<1> QED BY <1>1, <1>4 DEF q

(* The time of day that is printed exists, and is the one so many seconds  *)
(* after midnight.                                                         *)
LEMMA TimeOfDay ==
  ASSUME NEW second_of_day \in 0 .. DAY_S - 1
  PROVE  LET time == time_of_day(second_of_day)
         IN  /\ IsTime(time)
             /\ second_of_day = time.hour * HOUR_S + time.minute * MINUTE_S + time.second
<1> DEFINE n == second_of_day
           h == n \div HOUR_S
           rest == n % HOUR_S
           m == rest \div MINUTE_S
           k == HOUR_S \div MINUTE_S
           l == DAY_S \div HOUR_S
<1>1. /\ MINUTE_S \in Nat \ {0} /\ HOUR_S \in Nat \ {0} /\ DAY_S \in Nat \ {0}
      /\ HOUR_S = k * MINUTE_S /\ DAY_S = l * HOUR_S /\ n \in Nat /\ n < DAY_S
  BY CalendarAssumption
<1>2. k \in Nat /\ l \in Nat
  BY <1>1, Divided
<1>3. h \in Nat /\ rest \in Nat /\ rest < HOUR_S /\ n = h * HOUR_S + rest
  BY <1>1, Divided
<1>4. h \in 0 .. l - 1
  BY <1>1, <1>2, QuotientBelow
<1>5. m \in 0 .. k - 1
  <2> HIDE DEF rest, k
  <2> QED BY <1>1, <1>2, <1>3, QuotientBelow
<1>6. rest % MINUTE_S \in 0 .. MINUTE_S - 1 /\ rest = m * MINUTE_S + (rest % MINUTE_S)
  <2> HIDE DEF rest
  <2> QED BY <1>1, <1>3, Divided
<1> DEFINE s == rest % MINUTE_S
<1>7. n % MINUTE_S = s
  <2> DEFINE q == h * k + m
  <2>1. q \in Nat /\ s \in Nat /\ s < MINUTE_S
    <3> HIDE DEF h, k, m, s
    <3> QED BY <1>1, <1>2, <1>4, <1>5, <1>6 DEF s
  <2>2. n = q * MINUTE_S + s
    <3>1. n = h * (k * MINUTE_S) + (m * MINUTE_S + s)
      <4> HIDE DEF h, k, m, rest, n
      <4> QED BY <1>1, <1>3, <1>6
    <3>2. h \in Nat /\ k \in Nat /\ m \in Nat
      BY <1>2, <1>3, <1>5
    <3>3. \A a, b, c \in Nat : a * (b * MINUTE_S) + c * MINUTE_S = (a * b + c) * MINUTE_S
      BY <1>1
    <3>4. /\ h * (k * MINUTE_S) \in Nat /\ m * MINUTE_S \in Nat
          /\ h * (k * MINUTE_S) + m * MINUTE_S = q * MINUTE_S
      <4> HIDE DEF h, k, m
      <4> QED BY <1>1, <3>2, <3>3
    <3> HIDE DEF h, k, m, s, n, q
    <3> QED BY <2>1, <3>1, <3>4
  <2> HIDE DEF q, s, n
  <2> QED BY <1>1, <2>1, <2>2
<1> HIDE DEF h, m, s, k, l, rest
<1>8. time_of_day(n) = [hour |-> h, minute |-> m, second |-> s]
  BY <1>7 DEF time_of_day, h, m, rest
<1>9. n = h * HOUR_S + m * MINUTE_S + s
  <2>1. n = h * HOUR_S + rest /\ rest = m * MINUTE_S + s
    BY <1>3, <1>6 DEF s
  <2>2. h * HOUR_S \in Nat /\ m * MINUTE_S \in Nat /\ s \in Nat
    BY <1>1, <1>2, <1>3, <1>5, <1>6 DEF s
  <2> QED BY <2>1, <2>2
<1>10. IsTime(time_of_day(n))
  BY <1>4, <1>5, <1>6, <1>8 DEF IsTime, k, l, s
<1> HIDE DEF n
<1> QED BY <1>8, <1>9, <1>10 DEF n

(* What format_iso8601_ms makes of an instant is that instant.             *)
THEOREM EveryInstantIsRight ==
  \A unix_ms \in Nat : IsInstant(format_iso8601_ms(unix_ms), unix_ms)
<1> TAKE unix_ms \in Nat
<1> DEFINE secs == unix_ms \div SECOND_MS
           ms == unix_ms % SECOND_MS
           days == secs \div DAY_S
           rest == secs % DAY_S
           iso == format_iso8601_ms(unix_ms)
<1>1. SECOND_MS \in Nat \ {0} /\ DAY_S \in Nat \ {0}
  BY CalendarAssumption
<1>2. secs \in Nat /\ ms \in 0 .. SECOND_MS - 1 /\ unix_ms = secs * SECOND_MS + ms
  BY <1>1, Divided
<1>3. days \in Nat /\ rest \in 0 .. DAY_S - 1 /\ secs = days * DAY_S + rest
  <2> HIDE DEF secs
  <2> QED BY <1>1, <1>2, Divided
<1>4. iso = [date |-> civil(days), time |-> time_of_day(rest), ms |-> ms]
  BY DEF format_iso8601_ms
<1> HIDE DEF secs, ms, days, rest, iso
<1>5. IsDate(iso.date) /\ DayNumber(iso.date) = days
  BY <1>3, <1>4, EveryDateIsRight DEF DateIsRight
<1>6. /\ IsTime(iso.time)
      /\ rest = iso.time.hour * HOUR_S + iso.time.minute * MINUTE_S + iso.time.second
  BY <1>3, <1>4, TimeOfDay
<1>7. iso.ms = ms
  BY <1>4
<1> QED BY <1>2, <1>3, <1>5, <1>6, <1>7 DEF IsInstant, iso
-----------------------------------------------------------------------------
(* The loop of parse_options. *)

LEMMA CliNumbers ==
  /\ RADIX \in Nat /\ WINDOW_MS \in Nat \ {0} /\ MS_WORD \in Nat
  /\ DefaultEpoch \in 0 .. MS_WORD - 1 /\ MaxClock \in Nat /\ WORD \in Nat
  /\ MidSpan \in Nat /\ MidSpan = MID_MASK + 1 /\ MID_MASK \in Nat
BY CliAssumption, Numbers, LayoutAssumption DEF MidSpan

LEMMA DecimalOf == decimal \in [Seq(Chars) -> Nat]
<1> DEFINE step == [x \in Nat \X Chars |-> x[1] * RADIX + x[2]]
<1>0. \A n \in Nat, c \in Chars : n * RADIX + c \in Nat
  BY CliNumbers, TextTypes
<1>1. step \in [Nat \X Chars -> Nat]
  BY <1>0
<1>2. PICK f \in [Seq(Chars) -> Nat] : Folds(f, Chars, 0, step)
  <2> HIDE DEF step
  <2> QED BY <1>1, SeqRecursion
<1>3. \A s \in Seq(Chars) : f[s] = IF s = <<>> THEN 0 ELSE f[Front(s)] * RADIX + Last(s)
  BY <1>2, FrontLast DEF Folds
<1> HIDE DEF step
<1>4. f = [s \in Seq(Chars) |-> IF s = <<>> THEN 0 ELSE f[Front(s)] * RADIX + Last(s)]
  BY <1>2, <1>3
<1>5. decimal = [s \in Seq(Chars) |->
                   IF s = <<>> THEN 0 ELSE decimal[Front(s)] * RADIX + Last(s)]
  BY <1>4 DEF decimal
<1> DEFINE T == {s \in Seq(Chars) : decimal[s] \in Nat}
<1>6. <<>> \in T
  BY <1>5, TextTypes
<1>7. \A s \in Seq(Chars), c \in Chars : s \in T => Append(s, c) \in T
  <2> SUFFICES ASSUME NEW s \in Seq(Chars), NEW c \in Chars, decimal[s] \in Nat
               PROVE  Append(s, c) \in T
    OBVIOUS
  <2> DEFINE t == Append(s, c)
  <2>1. t \in Seq(Chars) /\ t # <<>> /\ Front(t) = s /\ Last(t) = c
    BY FrontOfAppend
  <2> HIDE DEF t
  <2>2. decimal[t] = decimal[s] * RADIX + c
    BY <1>5, <2>1
  <2>3. decimal[t] \in Nat
    BY <1>0, <2>2
  <2> QED BY <2>1, <2>3 DEF t
<1>8. Seq(Chars) \subseteq T
  <2> HIDE DEF T
  <2> QED BY <1>6, <1>7, SeqInd
<1> QED BY <1>5, <1>8

LEMMA ParseType ==
  ASSUME NEW s \in Seq(Chars), NEW limit \in Nat
  PROVE  /\ parse(s, limit) \in Int
         /\ parse(s, limit) # NULL => parse(s, limit) \in 0 .. limit - 1
<1>1. decimal[s] \in Nat /\ NULL \in Int
  BY DecimalOf DEF NULL
<1> QED BY <1>1 DEF parse

(* What the loop has in hand. *)
Sane(o) == /\ o.machine_id \in 0 .. MID_MASK
           /\ o.count \in Nat
           /\ o.epoch \in 0 .. MS_WORD - 1

OptionRecords ==
  [bad : BOOLEAN, wants : Valued \cup {""}, machine_id : Int, count : Int,
   epoch : Int, positionals : Seq(Seq(Chars))]

Options == {o \in OptionRecords : ~o.bad => Sane(o)}

LEMMA NoOptionsType == NoOptions \in Options
<1>1. <<>> \in Seq(Seq(Chars)) /\ 0 \in 0 .. MID_MASK
  BY CliNumbers, EmptySeq
<1>2. NoOptions \in OptionRecords
  BY <1>1, CliNumbers DEF NoOptions, OptionRecords
<1> QED BY <1>1, <1>2, CliNumbers DEF NoOptions, Options, Sane

LEMMA TakeValue ==
  ASSUME NEW o \in Options, NEW s \in Seq(Chars), ~o.bad, o.wants # ""
  PROVE  LET v == parse(s, Limit(o.wants))
             p == take_value(o, s)
         IN  /\ p \in Options
             /\ p.bad <=> v = NULL
             /\ p.wants = "" /\ p.positionals = o.positionals
             /\ p.machine_id = IF o.wants = "-m" THEN v ELSE o.machine_id
             /\ p.count = IF o.wants = "-n" THEN v ELSE o.count
             /\ p.epoch = IF o.wants = "--epoch-ms" THEN v ELSE o.epoch
<1> DEFINE v == parse(s, Limit(o.wants))
           p == take_value(o, s)
<1>1. o \in OptionRecords /\ Sane(o) /\ o.wants \in Valued
  BY DEF Options, OptionRecords
<1>2. CASE o.wants = "-m"
  <2>1. v = parse(s, MidSpan) /\ v \in Int /\ (v # NULL => v \in 0 .. MID_MASK)
    BY <1>2, ParseType, CliNumbers DEF Limit
  <2> HIDE DEF v
  <2>2. p = [o EXCEPT !.wants = "", !.machine_id = v, !.bad = (v = NULL)]
    BY <1>1, <1>2, <2>1 DEF take_value, OptionRecords
  <2> HIDE DEF p
  <2> QED BY <1>1, <1>2, <2>1, <2>2 DEF p, v, Options, OptionRecords, Sane
<1>3. CASE o.wants = "-n"
  <2>1. v = parse(s, WORD) /\ v \in Int /\ (v # NULL => v \in Nat)
    BY <1>3, ParseType, CliNumbers DEF Limit
  <2> HIDE DEF v
  <2>2. p = [o EXCEPT !.wants = "", !.count = v, !.bad = (v = NULL)]
    BY <1>1, <1>3, <2>1 DEF take_value, OptionRecords
  <2> HIDE DEF p
  <2> QED BY <1>1, <1>3, <2>1, <2>2 DEF p, v, Options, OptionRecords, Sane
<1>4. CASE o.wants = "--epoch-ms"
  <2>1. v = parse(s, MS_WORD) /\ v \in Int /\ (v # NULL => v \in 0 .. MS_WORD - 1)
    BY <1>4, ParseType, CliNumbers DEF Limit
  <2> HIDE DEF v
  <2>2. p = [o EXCEPT !.wants = "", !.epoch = v, !.bad = (v = NULL)]
    BY <1>1, <1>4, <2>1 DEF take_value, OptionRecords
  <2> HIDE DEF p
  <2> QED BY <1>1, <1>4, <2>1, <2>2 DEF p, v, Options, OptionRecords, Sane
<1> QED BY <1>1, <1>2, <1>3, <1>4 DEF Valued

LEMMA ParseArgumentType ==
  ASSUME NEW o \in Options, NEW a \in Argument
  PROVE  parse_argument(o, a) \in Options
<1>1. o \in OptionRecords /\ a.text \in Seq(Chars)
  BY DEF Options, Argument
<1>2. CASE o.bad
  BY <1>2 DEF parse_argument
<1>3. CASE ~o.bad /\ o.wants # ""
  BY <1>1, <1>3, TakeValue DEF parse_argument
<1>4. CASE ~o.bad /\ o.wants = "" /\ a.name \in Valued
  BY <1>1, <1>4 DEF parse_argument, Options, OptionRecords, Sane
<1>5. CASE ~o.bad /\ o.wants = "" /\ a.name \notin Valued /\ a.name # ""
  BY <1>1, <1>5 DEF parse_argument, Options, OptionRecords, Sane
<1>6. CASE ~o.bad /\ o.wants = "" /\ a.name \notin Valued /\ a.name = ""
  <2>1. Append(o.positionals, a.text) \in Seq(Seq(Chars))
    BY <1>1, AppendProperties DEF OptionRecords
  <2> QED BY <1>1, <1>6, <2>1 DEF parse_argument, Options, OptionRecords, Sane
<1> QED BY <1>2, <1>3, <1>4, <1>5, <1>6

LEMMA ParsingOf ==
  /\ parsing \in [Seq(Argument) -> Options]
  /\ parsing[<<>>] = NoOptions
  /\ \A s \in Seq(Argument), a \in Argument :
       parsing[Append(s, a)] = parse_argument(parsing[s], a)
<1> DEFINE step == [x \in Options \X Argument |-> parse_argument(x[1], x[2])]
<1>0. <<>> \in Seq(Argument)
  BY EmptySeq
<1>1. step \in [Options \X Argument -> Options]
  BY ParseArgumentType
<1>2. PICK f \in [Seq(Argument) -> Options] : Folds(f, Argument, NoOptions, step)
  <2> HIDE DEF step
  <2> QED BY <1>1, NoOptionsType, SeqRecursion
<1>3. \A s \in Seq(Argument) :
        f[s] = IF s = <<>> THEN NoOptions ELSE parse_argument(f[Front(s)], Last(s))
  BY <1>2, FrontLast DEF Folds
<1> HIDE DEF step
<1>4. f = [s \in Seq(Argument) |->
             IF s = <<>> THEN NoOptions ELSE parse_argument(f[Front(s)], Last(s))]
  BY <1>2, <1>3
<1>5. parsing = [s \in Seq(Argument) |->
             IF s = <<>> THEN NoOptions ELSE parse_argument(parsing[Front(s)], Last(s))]
  BY <1>4 DEF parsing
<1>6. parsing[<<>>] = NoOptions
  BY <1>0, <1>5
<1>7. ASSUME NEW s \in Seq(Argument), NEW a \in Argument
      PROVE  parsing[Append(s, a)] = parse_argument(parsing[s], a)
  <2> DEFINE t == Append(s, a)
  <2>1. t \in Seq(Argument) /\ t # <<>> /\ Front(t) = s /\ Last(t) = a
    BY FrontOfAppend
  <2> HIDE DEF t
  <2>2. parsing[t] = parse_argument(parsing[Front(t)], Last(t))
    BY <1>5, <2>1
  <2> QED BY <2>1, <2>2 DEF t
<1> DEFINE T == {s \in Seq(Argument) : parsing[s] \in Options}
<1>8. <<>> \in T
  BY <1>0, <1>6, NoOptionsType
<1>9. \A s \in Seq(Argument), a \in Argument : s \in T => Append(s, a) \in T
  BY <1>7, ParseArgumentType, FrontOfAppend
<1>10. Seq(Argument) \subseteq T
  <2> HIDE DEF T
  <2> QED BY <1>8, <1>9, SeqInd
<1> QED BY <1>5, <1>6, <1>7, <1>10
-----------------------------------------------------------------------------
(* The declarative reading, from one prefix of the arguments to the next.  *)

LEMMA IsValueOf ==
  ASSUME Arguments \in Seq(Argument)
  PROVE  \A i \in 1 .. Len(Arguments) :
           IsValue[i] <=> i > 1 /\ Arguments[i - 1].name \in Valued /\ ~IsValue[i - 1]
<1> DEFINE D == 1 .. Len(Arguments)
           after(i) == Arguments[i - 1].name \in Valued
           size == [i \in D |-> i]
           leaf == {i \in D : i = 1}
           base == [i \in D |-> FALSE]
           down == [i \in D |-> IF i = 1 THEN i ELSE i - 1]
           step == [x \in D \X BOOLEAN |-> after(x[1]) /\ ~x[2]]
<1>0. Len(Arguments) \in Nat /\ DOMAIN Arguments = D
  BY LenProperties
<1>1. /\ size \in [D -> Nat] /\ leaf \in SUBSET D /\ base \in [D -> BOOLEAN]
      /\ down \in [D -> D] /\ \A i \in D \ leaf : size[down[i]] < size[i]
  BY <1>0
<1> HIDE DEF after
<1>2. step \in [D \X BOOLEAN -> BOOLEAN]
  OBVIOUS
<1>3. PICK f \in [D -> BOOLEAN] : Recursive(f, D, leaf, base, down, step)
  <2> HIDE DEF D, size, leaf, base, down, step
  <2> QED BY <1>1, <1>2, Recursion
<1>4. ASSUME NEW i \in D PROVE f[i] = (i > 1 /\ after(i) /\ ~f[i - 1])
  <2>1. CASE i = 1
    <3>1. i \in leaf /\ base[i] = FALSE /\ ~(i > 1)
      BY <2>1
    <3>2. f[i] = base[i]
      <4> HIDE DEF D, leaf, base, down, step
      <4> QED BY <1>3, <3>1 DEF Recursive
    <3> QED BY <3>1, <3>2
  <2>2. CASE i # 1
    <3>1. i - 1 \in D /\ i > 1 /\ f[i - 1] \in BOOLEAN /\ f[i] \in BOOLEAN
      <4>1. i - 1 \in D /\ i > 1
        BY <1>0, <2>2
      <4>2. \A j \in D : f[j] \in BOOLEAN
        <5> HIDE DEF D
        <5> QED BY <1>3
      <4> HIDE DEF D
      <4> QED BY <4>1, <4>2
    <3>2. f[i] = step[<<i, f[i - 1]>>]
      BY <1>3, <2>2 DEF Recursive
    <3>3. step[<<i, f[i - 1]>>] = (after(i) /\ ~f[i - 1])
      BY <3>1
    <3> QED BY <3>1, <3>2, <3>3
  <2> QED BY <2>1, <2>2
<1> HIDE DEF step
<1>5. f = [i \in D |-> i > 1 /\ after(i) /\ ~f[i - 1]]
  BY <1>3, <1>4
<1>6. IsValue = [i \in D |-> i > 1 /\ after(i) /\ ~IsValue[i - 1]]
  <2>1. f = [i \in DOMAIN Arguments |-> i > 1 /\ Arguments[i - 1].name \in Valued /\ ~f[i - 1]]
    BY <1>0, <1>5 DEF after
  <2>2. IsValue = [i \in DOMAIN Arguments |->
                     i > 1 /\ Arguments[i - 1].name \in Valued /\ ~IsValue[i - 1]]
    BY <2>1 DEF IsValue
  <2> QED BY <1>0, <2>2 DEF after
<1> QED BY <1>6 DEF after

(* The argument at i is one that may stand there. *)
Fine(i) == IF IsValue[i]
           THEN parse(Arguments[i].text, Limit(Arguments[i - 1].name)) # NULL
           ELSE Arguments[i].name \in Valued \cup {""}

(* It asks for the next one. *)
Asks(i) == ~IsValue[i] /\ Arguments[i].name \in Valued

(* The value of option n, as the first k arguments have it. *)
AskedBefore(n, k) == {i \in Asked(n) : i < k}

Answered(v, n, default, k) ==
  /\ AskedBefore(n, k) = {} => v = default
  /\ \A i \in AskedBefore(n, k) :
       (\A j \in AskedBefore(n, k) : j <= i)
         => v = parse(Arguments[i + 1].text, Limit(n))

PlainTo(k) == {i \in Plain : i <= k}

PlainsIn(s, k) ==
  /\ Len(s) = Cardinality(PlainTo(k))
  /\ \A i \in PlainTo(k) : \E j \in 1 .. Len(s) : s[j] = Arguments[i].text

(* What the loop has in hand after k arguments is what they say. *)
Agrees(o, k) ==
  /\ o.bad <=> \E i \in 1 .. k : ~Fine(i)
  /\ ~o.bad => /\ o.wants = IF k > 0 /\ Asks(k) THEN Arguments[k].name ELSE ""
               /\ Answered(o.machine_id, "-m", 0, k)
               /\ Answered(o.count, "-n", 1, k)
               /\ Answered(o.epoch, "--epoch-ms", DefaultEpoch, k)
               /\ PlainsIn(o.positionals, k)

LEMMA ArgumentFacts ==
  ASSUME Arguments \in Seq(Argument), NEW i \in 1 .. Len(Arguments)
  PROVE  /\ Len(Arguments) \in Nat /\ DOMAIN Arguments = 1 .. Len(Arguments)
         /\ Arguments[i] \in Argument /\ Arguments[i].text \in Seq(Chars)
         /\ "" \notin Valued
         /\ \A n : i \in Asked(n) <=> Arguments[i].name = n /\ ~IsValue[i]
         /\ i \in Plain <=> Arguments[i].name = "" /\ ~IsValue[i]
<1>1. /\ Len(Arguments) \in Nat /\ DOMAIN Arguments = 1 .. Len(Arguments)
      /\ Arguments[i] \in Argument
  BY LenProperties, ElementOfSeq
<1> QED BY <1>1 DEF Argument, Valued, Asked, Plain

LEMMA AskedRange ==
  ASSUME Arguments \in Seq(Argument)
  PROVE  /\ \A n, k : AskedBefore(n, k) \subseteq 1 .. Len(Arguments)
         /\ \A n : Asked(n) \subseteq 1 .. Len(Arguments)
         /\ Plain \subseteq 1 .. Len(Arguments)
         /\ \A k : PlainTo(k) \subseteq 1 .. Len(Arguments)
<1>1. DOMAIN Arguments = 1 .. Len(Arguments)
  BY LenProperties
<1> QED BY <1>1 DEF AskedBefore, Asked, Plain, PlainTo

(* One more argument, that is no answer to n. *)
LEMMA AnsweredStays ==
  ASSUME Arguments \in Seq(Argument), NEW k \in Nat, k < Len(Arguments),
         NEW n, NEW v, NEW default, Answered(v, n, default, k), k \notin Asked(n)
  PROVE  Answered(v, n, default, k + 1)
<1>1. AskedBefore(n, k + 1) = AskedBefore(n, k)
  <2>1. \A i \in Asked(n) : i < k + 1 <=> i < k
    BY AskedRange
  <2> QED BY <2>1 DEF AskedBefore
<1> QED BY <1>1 DEF Answered

(* One that is. *)
LEMMA AnsweredNow ==
  ASSUME Arguments \in Seq(Argument), NEW k \in Nat, k < Len(Arguments),
         NEW n, NEW default, k \in Asked(n)
  PROVE  Answered(parse(Arguments[k + 1].text, Limit(n)), n, default, k + 1)
<1>1. k \in AskedBefore(n, k + 1)
  BY DEF AskedBefore
<1>2. ASSUME NEW i \in AskedBefore(n, k + 1), \A j \in AskedBefore(n, k + 1) : j <= i
      PROVE  i = k
  <2>1. i \in Nat /\ i < k + 1 /\ k <= i
    BY <1>1, <1>2, AskedRange DEF AskedBefore
  <2> QED BY <2>1
<1> QED BY <1>1, <1>2 DEF Answered

LEMMA PlainsStay ==
  ASSUME Arguments \in Seq(Argument), NEW k \in Nat, k < Len(Arguments),
         NEW s, PlainsIn(s, k), k + 1 \notin Plain
  PROVE  PlainsIn(s, k + 1)
<1>1. PlainTo(k + 1) = PlainTo(k)
  <2>1. \A i \in Plain : i <= k + 1 <=> i <= k
    BY AskedRange
  <2> QED BY <2>1 DEF PlainTo
<1> QED BY <1>1 DEF PlainsIn

LEMMA PlainsGrow ==
  ASSUME Arguments \in Seq(Argument), NEW k \in Nat, k < Len(Arguments),
         NEW s \in Seq(Seq(Chars)), PlainsIn(s, k), k + 1 \in Plain
  PROVE  PlainsIn(Append(s, Arguments[k + 1].text), k + 1)
<1> DEFINE e == Arguments[k + 1].text
           t == Append(s, e)
<1>1. PlainTo(k + 1) = PlainTo(k) \cup {k + 1} /\ k + 1 \notin PlainTo(k)
  <2>1. \A i \in Plain : i <= k + 1 <=> i <= k \/ i = k + 1
    BY AskedRange
  <2> QED BY <2>1 DEF PlainTo
<1>2. IsFiniteSet(PlainTo(k))
  <2>1. IsFiniteSet(1 .. Len(Arguments)) /\ PlainTo(k) \in SUBSET (1 .. Len(Arguments))
    BY FS_Interval, LenProperties, AskedRange
  <2> QED BY <2>1, FS_Subset
<1>3. Cardinality(PlainTo(k + 1)) = Cardinality(PlainTo(k)) + 1
  BY <1>1, <1>2, FS_AddElement
<1>4. e \in Seq(Chars)
  <2>1. k + 1 \in 1 .. Len(Arguments)
    BY LenProperties
  <2> QED BY <2>1, ArgumentFacts
<1> HIDE DEF e
<1>5. /\ Len(t) = Len(s) + 1 /\ Len(s) \in Nat
      /\ \A j \in 1 .. Len(s) : t[j] = s[j]
      /\ t[Len(s) + 1] = e
  BY <1>4, AppendProperties, LenProperties
<1> HIDE DEF t
<1>6. \A i \in PlainTo(k + 1) : \E j \in 1 .. Len(t) : t[j] = Arguments[i].text
  <2> SUFFICES ASSUME NEW i \in PlainTo(k + 1)
               PROVE  \E j \in 1 .. Len(t) : t[j] = Arguments[i].text
    OBVIOUS
  <2>1. CASE i \in PlainTo(k)
    <3>1. PICK j \in 1 .. Len(s) : s[j] = Arguments[i].text
      BY <2>1 DEF PlainsIn
    <3>2. j \in 1 .. Len(t) /\ t[j] = s[j]
      BY <1>5
    <3> QED BY <3>1, <3>2
  <2>2. CASE i = k + 1
    <3>1. Len(s) + 1 \in 1 .. Len(t) /\ t[Len(s) + 1] = Arguments[i].text
      BY <1>5, <2>2 DEF e
    <3> QED BY <3>1
  <2> QED BY <1>1, <2>1, <2>2
<1> QED BY <1>3, <1>5, <1>6 DEF PlainsIn, t, e

LEMMA AgreesStep ==
  ASSUME Arguments \in Seq(Argument), NEW k \in Nat, k < Len(Arguments),
         NEW o \in Options, Agrees(o, k)
  PROVE  Agrees(parse_argument(o, Arguments[k + 1]), k + 1)
<1> DEFINE e == Arguments[k + 1]
           p == parse_argument(o, e)
<1>1. /\ k + 1 \in 1 .. Len(Arguments) /\ Len(Arguments) \in Nat
      /\ e \in Argument /\ e.text \in Seq(Chars)
  <2>1. k + 1 \in 1 .. Len(Arguments) /\ Len(Arguments) \in Nat
    BY LenProperties
  <2> QED BY <2>1, ArgumentFacts
<1>2. /\ \A i \in 1 .. k : i \in 1 .. Len(Arguments) /\ i \in 1 .. k + 1
      /\ \A i \in 1 .. k + 1 : i \in 1 .. k \/ i = k + 1
      /\ k + 1 > 0 /\ (k + 1) - 1 = k /\ (k + 1 > 1 <=> k > 0) /\ (k > 0 => k \in 1 .. k)
  BY <1>1
<1>3. IsValue[k + 1] <=> k > 0 /\ Asks(k)
  BY <1>1, <1>2, IsValueOf DEF Asks
<1>4. "" \notin Valued /\ (k + 1 \in Plain <=> e.name = "" /\ ~IsValue[k + 1])
  BY <1>1, ArgumentFacts
<1>5. \A n \in Valued : k \in Asked(n) <=> k > 0 /\ Asks(k) /\ Arguments[k].name = n
  <2> TAKE n \in Valued
  <2>1. CASE k = 0
    BY <2>1, AskedRange
  <2>2. CASE k > 0
    <3>1. k \in 1 .. Len(Arguments)
      BY <1>2, <2>2
    <3>2. k \in Asked(n) <=> Arguments[k].name = n /\ ~IsValue[k]
      BY <3>1, ArgumentFacts
    <3> QED BY <2>2, <3>2 DEF Asks
  <2> QED BY <2>1, <2>2
<1>6. {"-m", "-n", "--epoch-ms"} = Valued
  BY DEF Valued
<1>7. o \in OptionRecords
  BY DEF Options
<1> HIDE DEF p, e
<1>8. CASE o.bad
  <2>1. p = o
    BY <1>8 DEF parse_argument, p
  <2>2. \E i \in 1 .. k + 1 : ~Fine(i)
    BY <1>2, <1>8 DEF Agrees
  <2> QED BY <1>8, <2>1, <2>2 DEF Agrees, p, e
<1>9. CASE ~o.bad /\ IsValue[k + 1]
  <2> DEFINE n == Arguments[k].name
             v == parse(e.text, Limit(n))
  <2>1. k > 0 /\ Asks(k) /\ o.wants = n /\ n \in Valued /\ n # ""
    BY <1>3, <1>4, <1>9 DEF Agrees, Asks
  <2>2. p = take_value(o, e.text)
    BY <1>9, <2>1 DEF parse_argument, p
  <2>3. /\ p.bad <=> v = NULL
        /\ p.wants = "" /\ p.positionals = o.positionals
        /\ p.machine_id = IF n = "-m" THEN v ELSE o.machine_id
        /\ p.count = IF n = "-n" THEN v ELSE o.count
        /\ p.epoch = IF n = "--epoch-ms" THEN v ELSE o.epoch
    <3>1. e.text \in Seq(Chars) /\ ~o.bad /\ o.wants # ""
      BY <1>1, <1>9, <2>1
    <3>2. v = parse(e.text, Limit(o.wants))
      BY <2>1
    <3> HIDE DEF n, v
    <3> QED BY <2>1, <2>2, <3>1, <3>2, TakeValue
  <2>4. Fine(k + 1) <=> v # NULL
    BY <1>2, <1>9 DEF Fine, e
  <2>5. ~Asks(k + 1)
    BY <1>9 DEF Asks
  <2>6. p.bad <=> \E i \in 1 .. k + 1 : ~Fine(i)
    <3>1. \A i \in 1 .. k : Fine(i)
      BY <1>9 DEF Agrees
    <3>2. k + 1 \in 1 .. k + 1
      BY <1>1
    <3>3. CASE v = NULL
      BY <2>3, <2>4, <3>2, <3>3
    <3>4. CASE v # NULL
      BY <1>2, <2>3, <2>4, <3>1, <3>4
    <3> QED BY <3>3, <3>4
  <2>7. ASSUME NEW m \in Valued, NEW w, NEW default, Answered(w, m, default, k)
        PROVE  Answered(IF n = m THEN v ELSE w, m, default, k + 1)
    <3>1. k \in Asked(m) <=> n = m
      BY <1>5, <2>1
    <3>2. CASE n = m
      <4>1. Answered(parse(Arguments[k + 1].text, Limit(m)), m, default, k + 1)
        BY <3>1, <3>2, AnsweredNow
      <4> QED BY <3>2, <4>1 DEF e
    <3>3. CASE n # m
      BY <2>7, <3>1, <3>3, AnsweredStays
    <3> QED BY <3>2, <3>3
  <2>8. k + 1 \notin Plain
    BY <1>4, <1>9
  <2>9. PlainsIn(p.positionals, k + 1)
    BY <1>9, <2>3, <2>8, PlainsStay DEF Agrees
  <2> HIDE DEF n, v
  <2>10. /\ Answered(p.machine_id, "-m", 0, k + 1)
         /\ Answered(p.count, "-n", 1, k + 1)
         /\ Answered(p.epoch, "--epoch-ms", DefaultEpoch, k + 1)
    BY <1>6, <1>9, <2>3, <2>7 DEF Agrees
  <2> QED BY <2>3, <2>5, <2>6, <2>9, <2>10 DEF Agrees, p, e
<1>10. CASE ~o.bad /\ ~IsValue[k + 1]
  <2>1. o.wants = "" /\ ~(k > 0 /\ Asks(k))
    BY <1>3, <1>10 DEF Agrees
  <2>2. Fine(k + 1) <=> e.name \in Valued \cup {""}
    BY <1>10 DEF Fine, e
  <2>3. (\E i \in 1 .. k + 1 : ~Fine(i)) <=> ~Fine(k + 1)
    <3>1. \A i \in 1 .. k : Fine(i)
      BY <1>10 DEF Agrees
    <3> QED BY <1>1, <1>2, <3>1
  <2>4. /\ Answered(o.machine_id, "-m", 0, k + 1)
        /\ Answered(o.count, "-n", 1, k + 1)
        /\ Answered(o.epoch, "--epoch-ms", DefaultEpoch, k + 1)
    BY <1>5, <1>6, <1>10, <2>1, AnsweredStays DEF Agrees
  <2>5. Asks(k + 1) <=> e.name \in Valued
    BY <1>10 DEF Asks, e
  <2>6. CASE e.name \in Valued
    <3>1. p = [o EXCEPT !.wants = e.name]
      BY <1>10, <2>1, <2>6 DEF parse_argument, p
    <3>2. /\ p.bad = o.bad /\ p.wants = e.name /\ p.machine_id = o.machine_id
          /\ p.count = o.count /\ p.epoch = o.epoch /\ p.positionals = o.positionals
      BY <1>7, <3>1 DEF OptionRecords
    <3>3. PlainsIn(o.positionals, k + 1)
      BY <1>4, <1>10, <2>6, PlainsStay DEF Agrees
    <3> QED BY <1>2, <1>10, <2>2, <2>3, <2>4, <2>5, <2>6, <3>2, <3>3 DEF Agrees, p, e
  <2>7. CASE e.name \notin Valued /\ e.name # ""
    <3>1. p = [o EXCEPT !.bad = TRUE]
      BY <1>10, <2>1, <2>7 DEF parse_argument, p
    <3>2. p.bad
      BY <1>7, <3>1 DEF OptionRecords
    <3> QED BY <2>2, <2>3, <2>7, <3>2 DEF Agrees, p, e
  <2>8. CASE e.name = ""
    <3>1. p = [o EXCEPT !.positionals = Append(o.positionals, e.text)]
      BY <1>4, <1>10, <2>1, <2>8 DEF parse_argument, p
    <3>2. /\ p.bad = o.bad /\ p.wants = "" /\ p.machine_id = o.machine_id
          /\ p.count = o.count /\ p.epoch = o.epoch
          /\ p.positionals = Append(o.positionals, e.text)
      BY <1>7, <2>1, <3>1 DEF OptionRecords
    <3>3. PlainsIn(p.positionals, k + 1)
      <4>1. o.positionals \in Seq(Seq(Chars)) /\ PlainsIn(o.positionals, k)
        BY <1>7, <1>10 DEF OptionRecords, Agrees
      <4>2. k + 1 \in Plain
        BY <1>4, <1>10, <2>8
      <4> QED BY <3>2, <4>1, <4>2, PlainsGrow DEF e
    <3>4. ~Asks(k + 1)
      BY <1>4, <2>5, <2>8
    <3> QED BY <1>10, <2>2, <2>3, <2>4, <2>8, <3>2, <3>3, <3>4 DEF Agrees, p, e
  <2> QED BY <2>6, <2>7, <2>8
<1> QED BY <1>8, <1>9, <1>10

LEMMA AllAgree ==
  ASSUME Arguments \in Seq(Argument)
  PROVE  Agrees(parsing[Arguments], Len(Arguments)) /\ parsing[Arguments] \in Options
<1> DEFINE A == Arguments
           L == Len(Arguments)
           T == {k \in Nat : k <= L => UpTo(A, k) \in Seq(Argument)
                                       /\ Agrees(parsing[UpTo(A, k)], k)}
<1>1. L \in Nat /\ \A i \in 1 .. L : A[i] \in Argument
  BY LenProperties, ElementOfSeq
<1>2. 0 \in T
  <2>1. UpTo(A, 0) = <<>> /\ <<>> \in Seq(Argument)
    BY SubSeqEmpty, EmptySeq DEF UpTo
  <2>2. parsing[UpTo(A, 0)] = NoOptions
    BY <2>1, ParsingOf
  <2>3. \A n : AskedBefore(n, 0) = {}
    BY AskedRange DEF AskedBefore
  <2>4. PlainsIn(<<>>, 0)
    <3>1. PlainTo(0) = {}
      BY AskedRange DEF PlainTo
    <3> QED BY <3>1, <2>1, EmptySeq, FS_EmptySet DEF PlainsIn
  <2>5. Agrees(NoOptions, 0)
    BY <2>3, <2>4 DEF Agrees, Answered, NoOptions
  <2> QED BY <2>1, <2>2, <2>5
<1>3. ASSUME NEW k \in Nat, k \in T PROVE k + 1 \in T
  <2> SUFFICES ASSUME k + 1 <= L
               PROVE  UpTo(A, k + 1) \in Seq(Argument)
                      /\ Agrees(parsing[UpTo(A, k + 1)], k + 1)
    OBVIOUS
  <2> DEFINE s == UpTo(A, k)
             t == UpTo(A, k + 1)
  <2>1. s \in Seq(Argument) /\ Agrees(parsing[s], k) /\ k < L
    BY <1>1, <1>3
  <2>2. k + 1 \in 1 .. L /\ 1 \in 1 .. L /\ k + 1 \in 1 .. L /\ (k + 1) - 1 = k
    BY <1>1
  <2>3. t = Append(s, A[k + 1])
    <3>1. k + 1 \in 1 .. Len(A)
      BY <2>2
    <3>2. SubSeq(A, 1, k + 1) = Append(SubSeq(A, 1, (k + 1) - 1), A[k + 1])
      <4> DEFINE m == k + 1
      <4> HIDE DEF m
      <4>1. 1 \in 1 .. Len(A) /\ m \in 1 .. Len(A)
        BY <2>2 DEF m
      <4>2. SubSeq(A, 1, m) = Append(SubSeq(A, 1, m - 1), A[m])
        BY <4>1, SubSeqRecursiveSecond
      <4> QED BY <4>2 DEF m
    <3> QED BY <2>2, <3>2 DEF UpTo
  <2>4. A[k + 1] \in Argument
    BY <1>1, <2>2
  <2>5. parsing[t] = parse_argument(parsing[s], A[k + 1]) /\ t \in Seq(Argument)
    <3> DEFINE e == A[k + 1]
    <3> HIDE DEF s, t, e
    <3>1. t = Append(s, e) /\ e \in Argument
      BY <2>3, <2>4 DEF e
    <3>2. t \in Seq(Argument) /\ parsing[t] = parse_argument(parsing[s], e)
      BY <2>1, <3>1, ParsingOf, FrontOfAppend
    <3> QED BY <3>2 DEF e
  <2>6. parsing[s] \in Options
    BY <2>1, ParsingOf
  <2> HIDE DEF s, t
  <2>7. Agrees(parse_argument(parsing[s], A[k + 1]), k + 1)
    BY <2>1, <2>6, AgreesStep
  <2> QED BY <2>5, <2>7 DEF t
<1>4. L \in T
  <2> HIDE DEF T, L
  <2>1. \A n \in Nat : (\A j \in Nat : j < n => j \in T) => n \in T
    <3> TAKE n \in Nat
    <3> HAVE \A j \in Nat : j < n => j \in T
    <3>1. CASE n = 0
      BY <1>2, <3>1
    <3>2. CASE n # 0
      <4>1. n - 1 \in Nat /\ n - 1 < n /\ (n - 1) + 1 = n
        BY <3>2
      <4>2. (n - 1) + 1 \in T
        BY <1>3, <4>1
      <4> QED BY <4>1, <4>2
    <3> QED BY <3>1, <3>2
  <2> QED BY <1>1, <2>1, NatInd
<1>5. UpTo(A, L) = A
  BY SubSeqFull DEF UpTo
<1> QED BY <1>4, <1>5, ParsingOf

(* Every argument may stand where it stands, and the last one is answered. *)
LEMMA SaneArguments ==
  ASSUME Arguments \in Seq(Argument)
  PROVE  LET L == Len(Arguments)
         IN  (\A i \in DOMAIN Arguments :
                \/ IsValue[i] \/ i \in Plain
                \/ \E n \in Valued : i \in Asked(n) /\ i < Len(Arguments)
                                     /\ parse(Arguments[i + 1].text, Limit(n)) # NULL)
             <=> (\A i \in 1 .. L : Fine(i)) /\ ~(L > 0 /\ Asks(L))
<1> DEFINE L == Len(Arguments)
           Holds(i) == \/ IsValue[i] \/ i \in Plain
                       \/ \E n \in Valued : i \in Asked(n) /\ i < L
                            /\ parse(Arguments[i + 1].text, Limit(n)) # NULL
<1>1. L \in Nat /\ DOMAIN Arguments = 1 .. L
  BY LenProperties
<1>2. ASSUME NEW i \in 1 .. L, Holds(i)
      PROVE  /\ Asks(i) => i < L /\ parse(Arguments[i + 1].text, Limit(Arguments[i].name)) # NULL
             /\ ~IsValue[i] => Arguments[i].name \in Valued \cup {""}
  <2>1. /\ "" \notin Valued
        /\ \A n : i \in Asked(n) <=> Arguments[i].name = n /\ ~IsValue[i]
        /\ i \in Plain <=> Arguments[i].name = "" /\ ~IsValue[i]
    BY ArgumentFacts
  <2> QED BY <1>2, <2>1 DEF Asks
<1>3. ASSUME \A i \in 1 .. L : Holds(i), NEW i \in 1 .. L PROVE Fine(i)
  <2>1. CASE IsValue[i]
    <3>1. i > 1 /\ Arguments[i - 1].name \in Valued /\ ~IsValue[i - 1]
      BY <2>1, IsValueOf
    <3>2. i - 1 \in 1 .. L /\ (i - 1) + 1 = i
      BY <1>1, <3>1
    <3>3. Holds(i - 1) /\ Asks(i - 1)
      BY <1>3, <3>1, <3>2 DEF Asks
    <3> HIDE DEF Holds
    <3>4. parse(Arguments[(i - 1) + 1].text, Limit(Arguments[i - 1].name)) # NULL
      BY <1>2, <3>2, <3>3
    <3> QED BY <2>1, <3>2, <3>4 DEF Fine
  <2>2. CASE ~IsValue[i]
    <3>1. Holds(i)
      BY <1>3
    <3> HIDE DEF Holds
    <3> QED BY <1>2, <2>2, <3>1 DEF Fine
  <2> QED BY <2>1, <2>2
<1>4. ASSUME \A i \in 1 .. L : Holds(i), L > 0, Asks(L) PROVE FALSE
  <2>1. L \in 1 .. L
    BY <1>1, <1>4
  <2>2. Holds(L)
    BY <1>4, <2>1
  <2> HIDE DEF Holds
  <2>3. L < L
    BY <1>2, <1>4, <2>1, <2>2
  <2> QED BY <1>1, <2>3
<1>5. ASSUME \A i \in 1 .. L : Fine(i), ~(L > 0 /\ Asks(L)), NEW i \in 1 .. L
      PROVE  Holds(i)
  <2>1. /\ "" \notin Valued
        /\ \A n : i \in Asked(n) <=> Arguments[i].name = n /\ ~IsValue[i]
        /\ i \in Plain <=> Arguments[i].name = "" /\ ~IsValue[i]
    BY ArgumentFacts
  <2>2. CASE IsValue[i]
    BY <2>2
  <2>3. CASE ~IsValue[i] /\ Arguments[i].name = ""
    BY <2>1, <2>3
  <2>4. CASE ~IsValue[i] /\ Arguments[i].name # ""
    <3>1. Arguments[i].name \in Valued /\ Asks(i)
      BY <1>5, <2>4 DEF Fine, Asks
    <3>2. i < L
      BY <1>1, <1>5, <3>1
    <3>3. i + 1 \in 1 .. L /\ i + 1 > 1 /\ (i + 1) - 1 = i
      BY <1>1, <3>2
    <3>4. IsValue[i + 1]
      BY <3>1, <3>3, IsValueOf DEF Asks
    <3>5. Fine(i + 1)
      BY <1>5, <3>3
    <3>6. parse(Arguments[i + 1].text, Limit(Arguments[i].name)) # NULL
      BY <3>3, <3>4, <3>5 DEF Fine
    <3>7. i \in Asked(Arguments[i].name)
      BY <2>1, <2>4
    <3> QED BY <3>1, <3>2, <3>6, <3>7
  <2> QED BY <2>2, <2>3, <2>4
<1>6. (\A i \in 1 .. L : Holds(i)) <=> (\A i \in 1 .. L : Fine(i)) /\ ~(L > 0 /\ Asks(L))
  <2> HIDE DEF Holds
  <2> QED BY <1>3, <1>4, <1>5
<1> QED BY <1>1, <1>6

(* A set of places has a last one. *)
LEMMA LastPlace ==
  ASSUME NEW L \in Nat, NEW S \in SUBSET (1 .. L), S # {}
  PROVE  Max(S) \in S /\ \A j \in S : j <= Max(S)
<1> DEFINE T == {L - i : i \in S}
<1>1. T \in SUBSET Nat /\ T # {}
  OBVIOUS
<1>2. PICK m \in T : \A k \in T : m <= k
  <2> HIDE DEF T
  <2> QED BY <1>1, Least
<1>3. PICK x \in S : m = L - x
  BY <1>2
<1>4. ASSUME NEW y \in S PROVE x >= y
  <2>1. L - y \in T /\ x \in Nat /\ y \in Nat
    OBVIOUS
  <2>2. m <= L - y
    BY <1>2, <2>1
  <2> HIDE DEF T
  <2> QED BY <1>3, <2>1, <2>2
<1> DEFINE x0 == CHOOSE z \in S : \A y \in S : z >= y
<1>5. x0 \in S /\ \A y \in S : x0 >= y
  BY <1>4
<1>6. Max(S) = x0
  BY DEF Max
<1> HIDE DEF x0
<1> QED BY <1>5, <1>6

LEMMA SaidIs ==
  ASSUME Arguments \in Seq(Argument), NEW n \in Valued, NEW v, NEW default,
         LET L == Len(Arguments) IN Answered(v, n, default, L) /\ ~(L > 0 /\ Asks(L))
  PROVE  Said(n, default) = v
<1> DEFINE L == Len(Arguments)
<1>1. L \in Nat /\ Asked(n) \in SUBSET (1 .. L)
  BY AskedRange, LenProperties
<1>2. ASSUME NEW i \in Asked(n) PROVE i < L
  <2>1. i \in 1 .. L
    BY <1>1, <1>2
  <2>2. Arguments[i].name = n /\ ~IsValue[i]
    BY <1>2, <2>1, ArgumentFacts
  <2>3. Asks(i)
    BY <2>2 DEF Asks
  <2>4. i # L
    BY <1>1, <2>1, <2>3
  <2> QED BY <1>1, <2>1, <2>4
<1>3. AskedBefore(n, L) = Asked(n)
  BY <1>2 DEF AskedBefore
<1>4. CASE Asked(n) = {}
  BY <1>3, <1>4 DEF Answered, Said
<1>5. CASE Asked(n) # {}
  <2> DEFINE i == Max(Asked(n))
  <2>1. i \in Asked(n) /\ \A j \in Asked(n) : j <= i
    BY <1>1, <1>5, LastPlace
  <2>2. Said(n, default) = parse(Arguments[i + 1].text, Limit(n))
    BY <1>5 DEF Said
  <2> HIDE DEF i
  <2> QED BY <1>3, <2>1, <2>2 DEF Answered
<1> QED BY <1>4, <1>5

(* The options are what the command line says. *)
LEMMA OptionsSay ==
  ASSUME Arguments \in Seq(Argument)
  PROVE  LET o == parse_options(Arguments)
             L == Len(Arguments)
         IN  /\ o \in Options
             /\ ~o.bad <=> (\A i \in 1 .. L : Fine(i)) /\ ~(L > 0 /\ Asks(L))
             /\ ~o.bad => /\ o.machine_id = Said("-m", 0)
                          /\ o.count = Said("-n", 1)
                          /\ o.epoch = Said("--epoch-ms", DefaultEpoch)
                          /\ Len(o.positionals) = Cardinality(Plain)
                          /\ \A i \in Plain : \E j \in 1 .. Len(o.positionals) :
                               o.positionals[j] = Arguments[i].text
<1> DEFINE o == parse_options(Arguments)
           L == Len(Arguments)
           p == parsing[Arguments]
<1>1. L \in Nat /\ Agrees(p, L) /\ p \in Options /\ p \in OptionRecords
  BY AllAgree, LenProperties DEF Options
<1> HIDE DEF p
<1>2. o = [p EXCEPT !.bad = p.bad \/ p.wants # ""]
  BY DEF parse_options, p
<1> HIDE DEF o
<1>3. /\ o.bad <=> p.bad \/ p.wants # ""
      /\ o.machine_id = p.machine_id /\ o.count = p.count /\ o.epoch = p.epoch
      /\ o.positionals = p.positionals /\ o.wants = p.wants
      /\ o \in OptionRecords
  BY <1>1, <1>2 DEF OptionRecords
<1>4. o \in Options
  BY <1>1, <1>3 DEF Options, Sane
<1>5. ~p.bad => (p.wants # "" <=> L > 0 /\ Asks(L))
  <2>1. "" \notin Valued
    BY DEF Valued
  <2> QED BY <1>1, <2>1 DEF Agrees, Asks
<1>6. ~p.bad <=> \A i \in 1 .. L : Fine(i)
  BY <1>1 DEF Agrees
<1>7. ~o.bad <=> (\A i \in 1 .. L : Fine(i)) /\ ~(L > 0 /\ Asks(L))
  BY <1>3, <1>5, <1>6
<1>8. ASSUME ~o.bad
      PROVE  /\ o.machine_id = Said("-m", 0)
             /\ o.count = Said("-n", 1)
             /\ o.epoch = Said("--epoch-ms", DefaultEpoch)
             /\ Len(o.positionals) = Cardinality(Plain)
             /\ \A i \in Plain : \E j \in 1 .. Len(o.positionals) :
                  o.positionals[j] = Arguments[i].text
  <2>1. ~p.bad /\ ~(L > 0 /\ Asks(L))
    BY <1>3, <1>7, <1>8
  <2>2. /\ Answered(p.machine_id, "-m", 0, L) /\ Answered(p.count, "-n", 1, L)
        /\ Answered(p.epoch, "--epoch-ms", DefaultEpoch, L)
        /\ PlainsIn(p.positionals, L)
    BY <1>1, <2>1 DEF Agrees
  <2>3. "-m" \in Valued /\ "-n" \in Valued /\ "--epoch-ms" \in Valued
    BY DEF Valued
  <2>4. p.machine_id = Said("-m", 0)
    BY <2>1, <2>2, <2>3, SaidIs
  <2>5. p.count = Said("-n", 1)
    BY <2>1, <2>2, <2>3, SaidIs
  <2>6. p.epoch = Said("--epoch-ms", DefaultEpoch)
    BY <2>1, <2>2, <2>3, SaidIs
  <2>7. PlainTo(L) = Plain
    BY <1>1, AskedRange DEF PlainTo
  <2> QED BY <1>3, <2>2, <2>4, <2>5, <2>6, <2>7 DEF PlainsIn
<1> QED BY <1>4, <1>7, <1>8 DEF o

(* The two readings of the command line come to the same. *)
LEMMA WellFormedOrMisused ==
  ASSUME args \in Seq(Argument),
         options = IF args = <<>> THEN NoOptions ELSE parse_options(Tail(args))
  PROVE  /\ WellFormed <=> ~Misused
         /\ ~Misused /\ Command = "generate" =>
              /\ options \in Options /\ ~options.bad
              /\ options.machine_id = Said("-m", 0) /\ options.count = Said("-n", 1)
              /\ options.epoch = Said("--epoch-ms", DefaultEpoch)
         /\ ~Misused /\ Command = "decode" =>
              /\ options \in Options /\ ~options.bad
              /\ options.epoch = Said("--epoch-ms", DefaultEpoch)
              /\ Len(options.positionals) = 1
<1> DEFINE L == Len(Arguments)
           o == options
           s == o.positionals
           Sensible ==
             \A i \in DOMAIN Arguments :
               \/ IsValue[i] \/ i \in Plain
               \/ \E n \in Valued : i \in Asked(n) /\ i < Len(Arguments)
                                    /\ parse(Arguments[i + 1].text, Limit(n)) # NULL
<1>1. CASE args = <<>>
  BY <1>1 DEF Command, Misused, WellFormed, Commands
<1>2. CASE args # <<>>
  <2>1. Arguments \in Seq(Argument) /\ o = parse_options(Arguments)
    BY <1>2, HeadTailProperties DEF Arguments
  <2>2. o \in Options /\ (~o.bad <=> Sensible)
    BY <2>1, OptionsSay, SaneArguments
  <2>3. ~o.bad => /\ o.machine_id = Said("-m", 0)
                  /\ o.count = Said("-n", 1)
                  /\ o.epoch = Said("--epoch-ms", DefaultEpoch)
                  /\ Len(s) = Cardinality(Plain)
                  /\ \A i \in Plain : \E j \in 1 .. Len(s) : s[j] = Arguments[i].text
    BY <2>1, OptionsSay
  <2>4. s \in Seq(Seq(Chars)) /\ Len(s) \in Nat /\ (s = <<>> <=> Len(s) = 0)
    <3>1. s \in Seq(Seq(Chars))
      BY <2>2 DEF Options, OptionRecords
    <3> QED BY <3>1, LenProperties, EmptySeq
  <2> HIDE DEF Sensible
  <2>5. WellFormed <=>
          \/ Command \in {"-h", "-V"}
          \/ /\ Command \in Commands
             /\ Sensible
             /\ Cardinality(Plain) = IF Command = "generate" THEN 0 ELSE 1
             /\ Command = "encode" =>
                  \A i \in Plain : parse(Arguments[i].text, WORD) # NULL
    BY DEF WellFormed, Sensible
  <2> HIDE DEF o
  <2>6. CASE Command = "generate"
    <3>1. Misused <=> o.bad \/ s # <<>>
      BY <2>6 DEF Misused, o
    <3>2. WellFormed <=> Sensible /\ Cardinality(Plain) = 0
      BY <2>5, <2>6 DEF Commands
    <3> QED BY <2>2, <2>3, <2>4, <2>6, <3>1, <3>2 DEF o
  <2>7. CASE Command = "decode"
    <3>1. Misused <=> o.bad \/ Len(s) # 1
      BY <2>7 DEF Misused, o
    <3>2. WellFormed <=> Sensible /\ Cardinality(Plain) = 1
      BY <2>5, <2>7 DEF Commands
    <3> QED BY <2>2, <2>3, <2>4, <2>7, <3>1, <3>2 DEF o
  <2>8. CASE Command = "encode"
    <3>1. Misused <=> o.bad \/ Number = NULL
      BY <2>8 DEF Misused, o
    <3>2. WellFormed <=> /\ Sensible /\ Cardinality(Plain) = 1
                         /\ \A i \in Plain : parse(Arguments[i].text, WORD) # NULL
      BY <2>5, <2>8 DEF Commands
    <3>3. Number = IF Len(s) # 1 THEN NULL ELSE parse(s[1], WORD)
      BY DEF Number, o
    <3>4. CASE ~o.bad /\ Len(s) = 1
      <4>1. \A j \in 1 .. Len(s) : j = 1
        BY <3>4
      <4>2. \A i \in Plain : Arguments[i].text = s[1]
        BY <2>3, <3>4, <4>1
      <4>3. IsFiniteSet(Plain)
        <5>1. IsFiniteSet(1 .. L) /\ Plain \in SUBSET (1 .. L)
          BY <2>1, FS_Interval, LenProperties, AskedRange
        <5> QED BY <5>1, FS_Subset
      <4>4. Cardinality(Plain) = 1
        BY <2>3, <3>4
      <4>5. PICK x \in Plain : TRUE
        BY <4>3, <4>4, FS_Singleton
      <4>6. WellFormed <=> parse(s[1], WORD) # NULL
        BY <2>2, <3>2, <3>4, <4>2, <4>4, <4>5
      <4>7. Misused <=> parse(s[1], WORD) = NULL
        BY <3>1, <3>3, <3>4
      <4> QED BY <2>8, <4>6, <4>7
    <3>5. CASE o.bad \/ Len(s) # 1
      BY <2>2, <2>3, <2>8, <3>1, <3>2, <3>3, <3>5
    <3> QED BY <3>4, <3>5
  <2>9. CASE Command \notin Commands
    BY <2>5, <2>9 DEF Misused, Commands
  <2> QED BY <2>6, <2>7, <2>8, <2>9 DEF Commands
<1> QED BY <1>1, <1>2
-----------------------------------------------------------------------------
(* One invocation. *)

(* What has been read does not change. *)
ReadInv ==
  /\ args \in Seq(Argument)
  /\ options = IF args = <<>> THEN NoOptions ELSE parse_options(Tail(args))
  /\ clock \in 0 .. MaxClock

(* Nothing is printed by a command that makes no sense or goes wrong.      *)
ExitInv ==
  /\ exit \in {NULL, OK, RUNTIME, USAGE, PANIC}
  /\ exit # NULL => (exit = USAGE <=> Misused)
  /\ Misused \/ (exit # OK /\ Command # "generate") => lines = <<>>

(* `generate` so far: the last ID printed is the generator's last one.     *)
GeneratedInv ==
  Command = "generate" /\ ~Misused =>
    /\ lines \in Seq(Ids) /\ Len(lines) <= options.count
    /\ exit # NULL => (exit = OK <=> Len(lines) = options.count)
    /\ \A i \in 1 .. Len(lines) : machine_id(lines[i]) = options.machine_id
    /\ \A i, j \in 1 .. Len(lines) : i < j => lines[i] < lines[j]
    /\ IF lines = <<>> THEN gen.ts = NULL
       ELSE /\ gen.ts \in 0 .. TS_MASK /\ gen.seq \in 0 .. SEQ_MASK
            /\ gen.seq < Len(lines)
            /\ lines[Len(lines)]
                 = from_parts_unchecked(gen.ts, options.machine_id, gen.seq)

(* `decode` prints an ID, the instant of its window and that day's date.   *)
DecodedInv ==
  Command = "decode" /\ exit = OK =>
    \E id \in Ids :
      LET ms == window_start_ms(id, options.epoch)
      IN  /\ lines = <<id>>
          /\ printed = <<[ms  |-> ms % MS_WORD,
                          iso |-> format_iso8601_ms(ms % MS_WORD)]>>

(* Where the command may panic: two additions that leave the word.         *)
MayPanic == /\ Command \in {"generate", "decode"}
            /\ options.epoch + (TS_MASK + 1) * WINDOW_MS >= MS_WORD
            /\ Command = "generate" => Len(lines) > SEQ_MASK

PanicInv == exit = PANIC => MayPanic

CliInv == ReadInv /\ ExitInv /\ GeneratedInv /\ DecodedInv /\ PanicInv

LEMMA SameCommand ==
  ASSUME args' = args, options' = options
  PROVE  Command' = Command /\ (Misused' <=> Misused)
BY DEF Command, Misused, Number

LEMMA CliInitial == CliInit => CliInv
<1> SUFFICES ASSUME CliInit PROVE CliInv
  OBVIOUS
<1>0. 0 \in 0 .. MaxClock
  BY CliNumbers
<1>1. args \in Seq(Argument) /\ clock = 0 /\ exit = NULL /\ lines = <<>> /\ gen.ts = NULL
  BY CliAssumption DEF CliInit
<1>2. options = IF args = <<>> THEN NoOptions ELSE parse_options(Tail(args))
  BY DEF CliInit
<1>3. ReadInv
  BY <1>0, <1>1, <1>2 DEF ReadInv
<1>4. NULL # OK /\ NULL # RUNTIME /\ NULL # USAGE /\ NULL # PANIC
  BY DEF NULL, OK, RUNTIME, USAGE, PANIC
<1>5. ExitInv /\ DecodedInv /\ PanicInv
  BY <1>1, <1>4 DEF ExitInv, DecodedInv, PanicInv
<1>6. GeneratedInv
  <2> SUFFICES ASSUME Command = "generate", ~Misused PROVE GeneratedInv
    BY DEF GeneratedInv
  <2>1. options \in Options /\ ~options.bad
    BY <1>3, WellFormedOrMisused DEF ReadInv
  <2>2. options.count \in Nat
    BY <2>1, CliNumbers DEF Options, Sane
  <2>3. lines \in Seq(Ids) /\ Len(lines) = 0
    BY <1>1, EmptySeq
  <2> QED BY <1>1, <2>2, <2>3 DEF GeneratedInv
<1> QED BY <1>3, <1>5, <1>6 DEF CliInv

(* The next window comes after the last ID's, and so does the next number. *)
LEMMA LaterIsLarger ==
  ASSUME NEW ts \in 0 .. TS_MASK, NEW seq \in 0 .. SEQ_MASK, NEW mid \in 0 .. MID_MASK,
         NEW ts2 \in 0 .. TS_MASK, NEW seq2 \in 0 .. SEQ_MASK,
         ts < ts2 \/ (ts = ts2 /\ seq < seq2)
  PROVE  from_parts_unchecked(ts, mid, seq) < from_parts_unchecked(ts2, mid, seq2)
<1>1. /\ ts \in Nat /\ ts2 \in Nat /\ seq \in Nat /\ seq2 \in Nat /\ mid \in Nat
      /\ MidSpan \in Nat /\ SeqSpan \in Nat
  BY LayoutAssumption, Spans
<1>2. CASE ts < ts2
  BY <1>1, <1>2, TimeOrder
<1>3. CASE ts = ts2 /\ seq < seq2
  <2> DEFINE hi == (ts * MidSpan + mid) * SeqSpan
  <2>1. hi \in Nat
    BY <1>1
  <2>2. /\ from_parts_unchecked(ts, mid, seq) = hi + seq
        /\ from_parts_unchecked(ts2, mid, seq2) = hi + seq2
    BY <1>3 DEF from_parts_unchecked
  <2> HIDE DEF hi
  <2> QED BY <1>1, <1>3, <2>1, <2>2
<1> QED BY <1>2, <1>3

(* One more ID, larger than the last one. *)
LEMMA PrintStep ==
  ASSUME CliInv, Generating, NEW ts \in 0 .. TS_MASK, NEW seq \in 0 .. SEQ_MASK,
         PrintId(ts, seq),
         gen.ts = NULL \/ gen.ts < ts \/ (gen.ts = ts /\ gen.seq < seq),
         seq = 0 \/ (lines # <<>> /\ seq = gen.seq + 1)
  PROVE  CliInv'
<1> DEFINE e == from_parts_unchecked(ts, options.machine_id, seq)
           n == Len(lines)
<1>1. /\ args' = args /\ options' = options /\ clock' = clock /\ exit' = exit
      /\ gen' = [ts |-> ts, seq |-> seq] /\ lines' = Append(lines, e)
      /\ printed' = printed
  BY DEF PrintId
<1>2. /\ exit = NULL /\ Command = "generate" /\ ~Misused /\ n < options.count
  BY DEF Generating, Running
<1>3. Command' = Command /\ (Misused' <=> Misused)
  BY <1>1, SameCommand
<1>4. options.machine_id \in 0 .. MID_MASK /\ options.count \in Nat
  <2>1. options \in Options /\ ~options.bad
    BY <1>2, WellFormedOrMisused DEF CliInv, ReadInv
  <2> QED BY <2>1, CliNumbers DEF Options, Sane
<1>5. e \in Ids /\ machine_id(e) = options.machine_id
  BY <1>4, FieldsRoundTrip
<1>6. /\ lines \in Seq(Ids)
      /\ \A i \in 1 .. n : machine_id(lines[i]) = options.machine_id
      /\ \A i, j \in 1 .. n : i < j => lines[i] < lines[j]
  BY <1>2 DEF CliInv, GeneratedInv
<1>7. n > 0 => lines[n] < e
  <2> SUFFICES ASSUME n > 0 PROVE lines[n] < e
    OBVIOUS
  <2>1. lines # <<>>
    BY EmptySeq
  <2>2. /\ gen.ts \in 0 .. TS_MASK /\ gen.seq \in 0 .. SEQ_MASK
        /\ lines[n] = from_parts_unchecked(gen.ts, options.machine_id, gen.seq)
    BY <1>2, <2>1 DEF CliInv, GeneratedInv
  <2>3. gen.ts # NULL
    BY <2>2 DEF NULL
  <2> QED BY <1>4, <2>2, <2>3, LaterIsLarger
<1> HIDE DEF e
<1>8. /\ n \in Nat /\ lines' \in Seq(Ids) /\ Len(lines') = n + 1
      /\ \A i \in 1 .. n : lines'[i] = lines[i] /\ lines[i] \in Ids
      /\ lines'[n + 1] = e
  BY <1>1, <1>5, <1>6, AppendProperties, LenProperties, ElementOfSeq
<1> HIDE DEF n
<1>9. \A i \in 1 .. n + 1 : i \in 1 .. n \/ i = n + 1
  BY <1>8
<1>10. \A i \in 1 .. n : lines[i] < e
  <2> TAKE i \in 1 .. n
  <2>1. lines[i] \in Nat /\ lines[n] \in Nat /\ e \in Nat /\ n \in 1 .. n /\ i <= n
    BY <1>5, <1>8, Numbers
  <2>2. CASE i = n
    BY <1>7, <1>8, <2>2
  <2>3. CASE i # n
    <3>1. lines[i] < lines[n] /\ lines[n] < e
      BY <1>6, <1>7, <1>8, <2>1, <2>3
    <3> QED BY <2>1, <3>1
  <2> QED BY <2>2, <2>3
<1>11. \A i, j \in 1 .. n + 1 : i < j => lines'[i] < lines'[j]
  <2> SUFFICES ASSUME NEW i \in 1 .. n + 1, NEW j \in 1 .. n + 1, i < j
               PROVE  lines'[i] < lines'[j]
    OBVIOUS
  <2>1. i \in 1 .. n
    BY <1>8
  <2>2. CASE j \in 1 .. n
    BY <1>6, <1>8, <2>1, <2>2
  <2>3. CASE j = n + 1
    BY <1>8, <1>10, <2>1, <2>3
  <2> QED BY <1>9, <2>2, <2>3
<1>12. \A i \in 1 .. n + 1 : machine_id(lines'[i]) = options.machine_id
  <2> TAKE i \in 1 .. n + 1
  <2>1. CASE i \in 1 .. n
    BY <1>6, <1>8, <2>1
  <2>2. CASE i = n + 1
    BY <1>5, <1>8, <2>2
  <2> QED BY <1>9, <2>1, <2>2
<1>13. lines' # <<>> /\ n + 1 <= options.count
  <2>1. n + 1 # 0
    BY <1>8
  <2>2. lines' # <<>>
    BY <1>8, <2>1, EmptySeq
  <2> QED BY <1>2, <1>4, <1>8, <2>2 DEF n
<1>14. GeneratedInv'
  <2>0. seq < n + 1
    <3>1. lines # <<>> => gen.seq \in Nat /\ gen.seq < n
      BY <1>2, LayoutAssumption DEF CliInv, GeneratedInv, n
    <3> QED BY <1>8, <3>1
  <2>1. exit' = NULL
    BY <1>1, <1>2
  <2>2. gen'.ts = ts /\ gen'.seq = seq
    BY <1>1
  <2>3. (IF lines = <<>> THEN gen.ts = NULL
         ELSE /\ gen.ts \in 0 .. TS_MASK /\ gen.seq \in 0 .. SEQ_MASK
              /\ gen.seq < Len(lines)
              /\ lines[Len(lines)]
                   = from_parts_unchecked(gen.ts, options.machine_id, gen.seq))'
    BY <1>1, <1>8, <1>13, <2>0, <2>2 DEF e
  <2> QED BY <1>1, <1>8, <1>11, <1>12, <1>13, <2>1, <2>3 DEF GeneratedInv
<1>15. ReadInv' /\ ExitInv' /\ DecodedInv' /\ PanicInv'
  <2>1. NULL # OK /\ NULL # PANIC
    BY DEF NULL, OK, PANIC
  <2>2. ReadInv'
    BY <1>1 DEF CliInv, ReadInv
  <2>3. ExitInv'
    BY <1>1, <1>2, <1>3 DEF CliInv, ExitInv
  <2>4. DecodedInv' /\ PanicInv'
    BY <1>1, <1>2, <2>1 DEF DecodedInv, PanicInv
  <2> QED BY <2>2, <2>3, <2>4
<1> QED BY <1>14, <1>15 DEF CliInv

(* A step after which the lines are as they were. *)
LEMMA ExitStep ==
  ASSUME CliInv, exit = NULL, NEW code \in {OK, RUNTIME, USAGE, PANIC}, Exit(code),
         lines' = lines, code = USAGE <=> Misused,
         Command = "generate" /\ ~Misused =>
           (code = OK <=> Len(lines) = options.count),
         Command # "decode" \/ code # OK, code = PANIC => MayPanic
  PROVE  CliInv'
<1>1. /\ args' = args /\ options' = options /\ clock' = clock /\ exit' = code
      /\ gen' = gen
  BY DEF Exit
<1>2. Command' = Command /\ (Misused' <=> Misused)
  BY <1>1, SameCommand
<1>3. NULL # OK /\ NULL # RUNTIME /\ NULL # USAGE /\ NULL # PANIC
  BY DEF NULL, OK, RUNTIME, USAGE, PANIC
<1>4. ReadInv'
  BY <1>1 DEF CliInv, ReadInv
<1>5. ExitInv'
  BY <1>1, <1>2, <1>3 DEF CliInv, ExitInv
<1>6. GeneratedInv'
  BY <1>1, <1>2, <1>3 DEF CliInv, GeneratedInv
<1>7. DecodedInv' /\ PanicInv'
  BY <1>1, <1>2 DEF DecodedInv, PanicInv, MayPanic
<1> QED BY <1>4, <1>5, <1>6, <1>7 DEF CliInv

(* decode, when the text is an ID's. *)
LEMMA DecodePrints ==
  ASSUME CliInv, Running("decode"), ~Misused, NEW id,
         LET r == decode(options.positionals[1])
         IN  r.error = "none" /\ r.value = id
  PROVE  id \in Ids
<1> DEFINE s == options.positionals[1]
           r == decode_str(s)
<1>1. options \in Options /\ Len(options.positionals) = 1
  BY WellFormedOrMisused DEF CliInv, ReadInv, Running
<1>2. s \in Seq(Chars)
  <2>1. options.positionals \in Seq(Seq(Chars))
    BY <1>1 DEF Options, OptionRecords
  <2>2. 1 \in 1 .. Len(options.positionals)
    BY <1>1
  <2> QED BY <2>1, <2>2, ElementOfSeq
<1> HIDE DEF s
<1>3. r \in TextOutcomes /\ (r.error = "none" => r.value \in Ids)
  BY <1>2, DecodeStr
<1> HIDE DEF r
<1>4. decode(s) = IF r.error = "none" THEN [r EXCEPT !.value = untransform(r.value)] ELSE r
  BY DEF decode, r
<1>5. r.error = "none" /\ id = untransform(r.value)
  <2>1. decode(s).error = "none" /\ decode(s).value = id
    BY DEF s
  <2>2. CASE r.error = "none"
    BY <1>3, <1>4, <2>1, <2>2 DEF TextOutcomes
  <2>3. CASE r.error # "none"
    BY <1>4, <2>1, <2>3
  <2> QED BY <2>2, <2>3
<1> QED BY <1>3, <1>5, TransformUntransform

LEMMA WindowIsNat == ReadInv /\ options.epoch \in Nat => TNow \in Nat
<1> SUFFICES ASSUME ReadInv, options.epoch \in Nat PROVE TNow \in Nat
  OBVIOUS
<1> DEFINE t == IF clock >= options.epoch THEN clock - options.epoch ELSE 0
<1>1. t \in Nat
  BY DEF ReadInv
<1>2. TNow = t \div WINDOW_MS
  BY DEF TNow
<1> HIDE DEF t
<1> QED BY <1>1, <1>2, CliNumbers

(* A used-up window whose end is beyond the last u64.                      *)
LEMMA UsedUp ==
  ASSUME CliInv, WaitsForNothing
  PROVE  /\ options.epoch \in Nat /\ options.count \in Nat /\ Len(lines) \in Nat
         /\ gen.ts \in 0 .. TS_MASK /\ Len(lines) > SEQ_MASK
         /\ options.epoch + (TS_MASK + 1) * WINDOW_MS >= MS_WORD
<1>1. Command = "generate" /\ ~Misused
  BY DEF WaitsForNothing, Generating, Running
<1>2. options.epoch \in Nat /\ options.count \in Nat
  <2>1. options \in Options /\ ~options.bad
    BY <1>1, WellFormedOrMisused DEF CliInv, ReadInv
  <2> QED BY <2>1, CliNumbers DEF Options, Sane
<1>3. lines # <<>> /\ gen.seq = SEQ_MASK
  BY <1>1 DEF WaitsForNothing, NewWindow, CliInv, GeneratedInv
<1>4. /\ Len(lines) \in Nat /\ gen.ts \in 0 .. TS_MASK /\ SEQ_MASK < Len(lines)
  BY <1>1, <1>3, LenProperties DEF CliInv, GeneratedInv
<1>5. options.epoch + (TS_MASK + 1) * WINDOW_MS >= MS_WORD
  <2> DEFINE x == (gen.ts + 1) * WINDOW_MS
             y == (TS_MASK + 1) * WINDOW_MS
  <2>1. x \in Nat /\ y \in Nat /\ x <= y
    BY <1>4, CliNumbers, LayoutAssumption
  <2>2. options.epoch + x >= MS_WORD
    BY DEF WaitsForNothing, WindowEnd
  <2> HIDE DEF x, y
  <2>3. options.epoch + y >= MS_WORD
    BY <1>2, <2>1, <2>2, CliNumbers
  <2> QED BY <2>3 DEF y
<1> QED BY <1>2, <1>4, <1>5, LayoutAssumption

LEMMA CliStep == CliInv /\ [CliNext]_<<vars, cliVars>> => CliInv'
<1> SUFFICES ASSUME CliInv, [CliNext]_<<vars, cliVars>> PROVE CliInv'
  OBVIOUS
<1>1. OK # RUNTIME /\ OK # USAGE /\ OK # PANIC /\ RUNTIME # USAGE /\ PANIC # USAGE
      /\ RUNTIME # PANIC /\ NULL # OK /\ NULL # PANIC
  BY DEF OK, RUNTIME, USAGE, PANIC, NULL
<1>2. CASE UNCHANGED cliVars
  <2>1. /\ args' = args /\ options' = options /\ clock' = clock /\ exit' = exit
        /\ gen' = gen /\ lines' = lines /\ printed' = printed
    BY <1>2 DEF cliVars
  <2>2. Command' = Command /\ (Misused' <=> Misused)
    BY <2>1, SameCommand
  <2> QED BY <2>1, <2>2
          DEF CliInv, ReadInv, ExitInv, GeneratedInv, DecodedInv, PanicInv, MayPanic
<1>3. CASE Inform
  <2>1. exit = NULL /\ Command \in {"-h", "-V"} /\ Exit(OK) /\ lines' = lines /\ ~Misused
    BY <1>3 DEF Inform, Misused
  <2> QED BY <1>1, <2>1, ExitStep
<1>4. CASE Usage
  <2>1. exit = NULL /\ Misused /\ Exit(USAGE) /\ lines' = lines
    BY <1>4 DEF Usage
  <2> QED BY <1>1, <2>1, ExitStep
<1>5. CASE EncodeCommand
  <2>1. exit = NULL /\ Command = "encode" /\ ~Misused
    BY <1>5 DEF EncodeCommand, Running
  <2>2. CASE Exit(RUNTIME) /\ UNCHANGED lines
    BY <1>1, <2>1, <2>2, ExitStep
  <2>3. CASE Exit(OK)
    <3>1. /\ args' = args /\ options' = options /\ clock' = clock /\ exit' = OK
      BY <2>3 DEF Exit
    <3>2. Command' = Command /\ (Misused' <=> Misused)
      BY <3>1, SameCommand
    <3>3. ReadInv'
      BY <3>1 DEF CliInv, ReadInv
    <3>4. ExitInv'
      BY <1>1, <2>1, <3>1, <3>2 DEF ExitInv
    <3>5. GeneratedInv' /\ DecodedInv' /\ PanicInv'
      BY <1>1, <2>1, <3>1, <3>2 DEF GeneratedInv, DecodedInv, PanicInv
    <3> QED BY <3>3, <3>4, <3>5 DEF CliInv
  <2> QED BY <1>5, <2>2, <2>3 DEF EncodeCommand
<1>6. CASE DecodeCommand
  <2> DEFINE r == decode(options.positionals[1])
             ms == window_start_ms(r.value, options.epoch)
  <2>1. exit = NULL /\ Command = "decode" /\ ~Misused /\ Running("decode")
    BY <1>6 DEF DecodeCommand, Running
  <2>2. CASE Exit(RUNTIME) /\ UNCHANGED lines
    BY <1>1, <2>1, <2>2, ExitStep
  <2>3. CASE r.error = "none" /\ ms >= MS_WORD /\ Exit(PANIC) /\ UNCHANGED lines
    <3>1. r.value \in Ids
      BY <2>1, <2>3, DecodePrints
    <3>2. options.epoch \in Nat
      <4>1. options \in Options /\ ~options.bad
        BY <2>1, WellFormedOrMisused DEF CliInv, ReadInv
      <4> QED BY <4>1, CliNumbers DEF Options, Sane
    <3>3. options.epoch + (TS_MASK + 1) * WINDOW_MS >= MS_WORD
      <4> DEFINE ts == timestamp(r.value)
      <4>1. ts \in Nat /\ ts <= TS_MASK /\ options.epoch + ts * WINDOW_MS >= MS_WORD
        BY <2>3, <3>1, FieldTypes DEF window_start_ms
      <4> HIDE DEF ts
      <4>2. ts * WINDOW_MS <= (TS_MASK + 1) * WINDOW_MS
        BY <4>1, CliNumbers, LayoutAssumption
      <4>3. ts * WINDOW_MS \in Nat /\ (TS_MASK + 1) * WINDOW_MS \in Nat
        BY <4>1, CliNumbers, LayoutAssumption
      <4> QED BY <3>2, <4>1, <4>2, <4>3, CliNumbers
    <3>4. MayPanic
      BY <2>1, <3>3 DEF MayPanic
    <3> QED BY <1>1, <2>1, <2>3, <3>4, ExitStep
  <2>4. CASE /\ r.error = "none" /\ Exit(OK) /\ lines' = <<r.value>>
             /\ printed' = <<[ms  |-> ms % MS_WORD,
                              iso |-> format_iso8601_ms(ms % MS_WORD)]>>
    <3>1. /\ args' = args /\ options' = options /\ clock' = clock /\ exit' = OK
      BY <2>4 DEF Exit
    <3>2. Command' = Command /\ (Misused' <=> Misused)
      BY <3>1, SameCommand
    <3>3. ReadInv'
      BY <3>1 DEF CliInv, ReadInv
    <3>4. ExitInv'
      BY <1>1, <2>1, <3>1, <3>2 DEF ExitInv
    <3>5. r.value \in Ids
      BY <2>1, <2>4, DecodePrints
    <3>6. GeneratedInv'
      BY <2>1, <3>2 DEF GeneratedInv
    <3>7. DecodedInv'
      <4> DEFINE id == r.value
      <4>1. /\ lines' = <<id>>
            /\ printed' = <<[ms  |-> window_start_ms(id, options.epoch) % MS_WORD,
                 iso |-> format_iso8601_ms(window_start_ms(id, options.epoch) % MS_WORD)]>>
        BY <2>4
      <4> HIDE DEF id
      <4>2. id \in Ids
        BY <3>5 DEF id
      <4>3. window_start_ms(id, options'.epoch) = window_start_ms(id, options.epoch)
        BY <3>1
      <4>4. (\E jd \in Ids :
              LET t == window_start_ms(jd, options.epoch)
              IN  /\ lines = <<jd>>
                  /\ printed = <<[ms  |-> t % MS_WORD,
                                  iso |-> format_iso8601_ms(t % MS_WORD)]>>)'
        BY <3>1, <4>1, <4>2
      <4> QED BY <4>4 DEF DecodedInv
    <3>8. PanicInv'
      BY <1>1, <3>1 DEF PanicInv
    <3> QED BY <3>3, <3>4, <3>6, <3>7, <3>8 DEF CliInv
  <2> HIDE DEF r, ms
  <2>5. \/ Exit(RUNTIME) /\ UNCHANGED lines
        \/ r.error = "none" /\ ms >= MS_WORD /\ Exit(PANIC) /\ UNCHANGED lines
        \/ /\ r.error = "none" /\ Exit(OK) /\ lines' = <<r.value>>
           /\ printed' = <<[ms  |-> ms % MS_WORD,
                            iso |-> format_iso8601_ms(ms % MS_WORD)]>>
    BY <1>6 DEF DecodeCommand, r, ms
  <2> QED BY <2>2, <2>3, <2>4, <2>5
<1>7. CASE GenerateNext
  <2>1. Generating /\ TNow <= TS_MASK /\ exit = NULL /\ Command = "generate" /\ ~Misused
    BY <1>7 DEF GenerateNext, Generating, Running
  <2>2. options \in Options /\ ~options.bad
    BY <2>1, WellFormedOrMisused DEF CliInv, ReadInv
  <2>3. options.epoch \in Nat
    BY <2>2 DEF Options, Sane
  <2>4. TNow \in 0 .. TS_MASK /\ 0 \in 0 .. SEQ_MASK
    BY <2>1, <2>3, WindowIsNat, LayoutAssumption DEF CliInv
  <2>5. CASE NewWindow /\ PrintId(TNow, 0)
    BY <2>1, <2>4, <2>5, PrintStep DEF NewWindow
  <2>6. CASE ~NewWindow /\ gen.seq < SEQ_MASK /\ PrintId(gen.ts, gen.seq + 1)
    <3>1. lines # <<>>
      BY <2>1, <2>6 DEF NewWindow, CliInv, GeneratedInv
    <3>2. gen.ts \in 0 .. TS_MASK /\ gen.seq \in 0 .. SEQ_MASK
      BY <2>1, <3>1 DEF CliInv, GeneratedInv
    <3>3. gen.seq + 1 \in 0 .. SEQ_MASK /\ gen.seq < gen.seq + 1
      BY <2>6, <3>2, LayoutAssumption
    <3> QED BY <2>1, <2>6, <3>1, <3>2, <3>3, PrintStep
  <2> QED BY <1>7, <2>5, <2>6 DEF GenerateNext
<1>8. CASE GenerateExhausted
  <2>1. /\ exit = NULL /\ Command = "generate" /\ ~Misused /\ Len(lines) < options.count
        /\ Exit(RUNTIME) /\ lines' = lines
    BY <1>8 DEF GenerateExhausted, Generating, Running
  <2>2. options.count \in Nat
    <3>1. options \in Options /\ ~options.bad
      BY <2>1, WellFormedOrMisused DEF CliInv, ReadInv
    <3> QED BY <3>1 DEF Options, Sane
  <2>3. Len(lines) \in Nat
    <3>1. lines \in Seq(Ids)
      BY <2>1 DEF CliInv, GeneratedInv
    <3> QED BY <3>1, LenProperties
  <2>4. Len(lines) # options.count
    BY <2>1, <2>2, <2>3
  <2> QED BY <1>1, <2>1, <2>4, ExitStep
<1>9. CASE GenerateDone
  <2>1. /\ exit = NULL /\ Command = "generate" /\ ~Misused /\ Len(lines) = options.count
        /\ Exit(OK) /\ lines' = lines
    BY <1>9 DEF GenerateDone, Running
  <2> QED BY <1>1, <2>1, ExitStep
<1>10. CASE Tick
  <2>1. /\ args' = args /\ options' = options /\ clock' = clock + 1 /\ exit' = exit
        /\ gen' = gen /\ lines' = lines /\ printed' = printed
    BY <1>10 DEF Tick
  <2>2. Command' = Command /\ (Misused' <=> Misused)
    BY <2>1, SameCommand
  <2>3. clock' \in 0 .. MaxClock
    BY <1>10, <2>1, CliNumbers DEF CliInv, ReadInv, Tick
  <2> QED BY <2>1, <2>2, <2>3
          DEF CliInv, ReadInv, ExitInv, GeneratedInv, DecodedInv, PanicInv, MayPanic
<1>11. CASE Library
  <2>1. UNCHANGED cliVars
    BY <1>11 DEF Library
  <2> QED BY <1>2, <2>1
<1>12. CASE GeneratePanics
  <2>1. /\ exit = NULL /\ Command = "generate" /\ ~Misused /\ Len(lines) < options.count
        /\ Exit(PANIC) /\ lines' = lines /\ WaitsForNothing
    BY <1>12 DEF GeneratePanics, WaitsForNothing, Generating, Running
  <2>2. MayPanic
    BY <2>1, UsedUp DEF MayPanic
  <2>3. options.count \in Nat /\ Len(lines) \in Nat
    BY <2>1, UsedUp
  <2> QED BY <1>1, <2>1, <2>2, <2>3, ExitStep
<1> QED BY <1>2, <1>3, <1>4, <1>5, <1>6, <1>7, <1>8, <1>9, <1>10, <1>11, <1>12
        DEF CliNext, Generate

(* Every invocation prints and exits as the invariant says. *)
THEOREM CliInvariant == CliSpec => []CliInv
<1>1. CliInit => CliInv
  BY CliInitial
<1>2. CliInv /\ [CliNext]_<<vars, cliVars>> => CliInv'
  BY CliStep
<1> QED BY <1>1, <1>2, PTL DEF CliSpec

(* The exit code says what happened (main.rs:34-47), for every command     *)
(* line, every epoch and every clock: 2 exactly for command lines that     *)
(* make no sense, and then nothing has been printed; and `generate` has    *)
(* printed as many IDs as were asked for exactly if the code is 0.         *)
THEOREM ExitCodesTell == CliSpec => []ExitCodeTells
<1>1. CliInv => ExitCodeTells
  <2> SUFFICES ASSUME CliInv, exit # NULL PROVE ExitCodeTells
    BY DEF ExitCodeTells
  <2>1. /\ WellFormed <=> ~Misused
        /\ ~Misused /\ Command = "generate" =>
             options.machine_id = Said("-m", 0) /\ options.count = Said("-n", 1)
    BY WellFormedOrMisused DEF CliInv, ReadInv
  <2>2. exit = USAGE <=> Misused
    BY DEF CliInv, ExitInv
  <2>3. exit = USAGE \/ (exit # OK /\ Command # "generate") => lines = <<>>
    BY <2>2 DEF CliInv, ExitInv
  <2>4. ASSUME Command = "generate", ~Misused
        PROVE  /\ Len(lines) <= Said("-n", 1)
               /\ exit = OK <=> Len(lines) = Said("-n", 1)
               /\ \A i \in DOMAIN lines : machine_id(lines[i]) = Said("-m", 0)
               /\ \A i, j \in DOMAIN lines : i < j => lines[i] < lines[j]
    <3>1. /\ lines \in Seq(Ids) /\ Len(lines) <= options.count
          /\ exit = OK <=> Len(lines) = options.count
          /\ \A i \in 1 .. Len(lines) : machine_id(lines[i]) = options.machine_id
          /\ \A i, j \in 1 .. Len(lines) : i < j => lines[i] < lines[j]
      BY <2>4 DEF CliInv, GeneratedInv
    <3>2. DOMAIN lines = 1 .. Len(lines)
      BY <3>1, LenProperties
    <3>3. options.machine_id = Said("-m", 0) /\ options.count = Said("-n", 1)
      BY <2>1, <2>4
    <3> HIDE DEF CliInv
    <3> QED BY <3>1, <3>2, <3>3
  <2>5. ASSUME exit = PANIC
        PROVE  /\ Command \in {"generate", "decode"}
               /\ Said("--epoch-ms", DefaultEpoch) + (TS_MASK + 1) * WINDOW_MS >= MS_WORD
               /\ Command = "generate" => Len(lines) > SEQ_MASK
    <3>1. MayPanic
      BY <2>5 DEF CliInv, PanicInv
    <3>2. ~Misused /\ (Command = "generate" \/ Command = "decode")
      BY <2>2, <2>5, <3>1 DEF PANIC, USAGE, MayPanic
    <3>3. options.epoch = Said("--epoch-ms", DefaultEpoch)
      BY <3>2, WellFormedOrMisused DEF CliInv, ReadInv
    <3> QED BY <3>1, <3>3 DEF MayPanic
  <2> QED BY <2>1, <2>2, <2>3, <2>4, <2>5 DEF ExitCodeTells
<1> QED BY <1>1, CliInvariant, PTL

(* "The Unix-millisecond instant at which this ID's 1024 ms timestamp      *)
(* window starts" (id.rs:81) and its date and time of day (main.rs:187-    *)
(* 212): right for every ID, for every epoch and for every length of a     *)
(* window, except that a build without overflow checks prints an instant   *)
(* before the epoch where the window starts after the last u64.            *)
THEOREM PrintedDatesAreRight == CliSpec => []DatesAreRight
<1>1. CliInv => DatesAreRight
  <2> SUFFICES ASSUME CliInv, exit = OK, Command = "decode" PROVE DatesAreRight
    BY DEF DatesAreRight
  <2>1. OK # NULL /\ OK # USAGE
    BY DEF OK, NULL, USAGE
  <2>2. ~Misused
    BY <2>1 DEF CliInv, ExitInv
  <2>3. options.epoch = Said("--epoch-ms", DefaultEpoch) /\ options \in Options
        /\ ~options.bad
    BY <2>2, WellFormedOrMisused DEF CliInv, ReadInv
  <2> DEFINE epoch == Said("--epoch-ms", DefaultEpoch)
  <2>4. epoch \in 0 .. MS_WORD - 1 /\ options.epoch = epoch
    BY <2>3 DEF Options, Sane
  <2> HIDE DEF epoch
  <2>5. PICK id \in Ids :
          LET t == window_start_ms(id, options.epoch)
          IN  /\ lines = <<id>>
              /\ printed = <<[ms  |-> t % MS_WORD,
                              iso |-> format_iso8601_ms(t % MS_WORD)]>>
    BY DEF CliInv, DecodedInv
  <2> DEFINE ts == timestamp(id)
             a == ts * WINDOW_MS
             ms == printed[1].ms
  <2>6. ts \in 0 .. TS_MASK
    BY FieldTypes
  <2>7. lines[1] = id /\ ms = (epoch + a) % MS_WORD
        /\ printed[1].iso = format_iso8601_ms(ms)
    BY <2>4, <2>5 DEF window_start_ms
  <2>8. a \in Nat /\ a \div WINDOW_MS = ts /\ (a - 1) \div WINDOW_MS < ts
    <3>1. a \in Nat
      BY <2>6, CliNumbers
    <3>2. a \div WINDOW_MS = ts
      BY <2>6, CliNumbers
    <3>3. (a - 1) \div WINDOW_MS < ts
      <4> HIDE DEF ts
      <4> DEFINE q == (a - 1) \div WINDOW_MS
      <4>1. q \in Int /\ WINDOW_MS * q <= a - 1
        BY <3>1, CliNumbers
      <4>2. q >= ts => WINDOW_MS * q >= WINDOW_MS * ts
        <5> HIDE DEF q, a
        <5> QED BY <2>6, <4>1, CliNumbers
      <4>3. WINDOW_MS * ts = a
        BY <2>6, CliNumbers
      <4>4. q < ts
        <5> DEFINE b == WINDOW_MS * q
        <5>1. b \in Int /\ b <= a - 1 /\ (q >= ts => b >= a)
          BY <4>1, <4>2, <4>3, CliNumbers
        <5> HIDE DEF q, a, b
        <5> QED BY <2>6, <3>1, <4>1, <5>1
      <4> QED BY <4>4
    <3> QED BY <3>1, <3>2, <3>3
  <2>9. a < MS_WORD /\ MS_WORD \in Nat \ {0} /\ epoch < MS_WORD
    <3> DEFINE y == (TS_MASK + 1) * WINDOW_MS
    <3>1. y \in Nat /\ a < y /\ y <= MS_WORD
      BY <2>6, CliNumbers, LayoutAssumption, CliAssumption
    <3>2. epoch < MS_WORD
      BY <2>4, CliNumbers
    <3> HIDE DEF y
    <3> QED BY <2>8, <3>1, <3>2, CliNumbers
  <2>10. /\ ms \in Nat
         /\ epoch + a < MS_WORD => ms = epoch + a
         /\ epoch + a >= MS_WORD => ms < epoch
    <3> HIDE DEF ts, a
    <3>1. CASE epoch + a < MS_WORD
      BY <2>4, <2>7, <2>8, <2>9, <3>1
    <3>2. CASE epoch + a >= MS_WORD
      <4>1. (epoch + a) % MS_WORD = epoch + a - MS_WORD
        BY <2>4, <2>8, <2>9, <3>2
      <4> QED BY <2>4, <2>7, <2>8, <2>9, <3>2, <4>1
    <3> QED BY <2>4, <2>8, <2>9, <3>1, <3>2
  <2>11. IsInstant(printed[1].iso, ms)
    BY <2>7, <2>10, EveryInstantIsRight
  <2>12. ASSUME ms >= epoch
         PROVE  /\ (ms - epoch) \div WINDOW_MS = ts
                /\ (ms - 1 - epoch) \div WINDOW_MS < ts
    <3> HIDE DEF ts, a, ms
    <3>1. ms - epoch = a /\ ms - 1 - epoch = a - 1
      BY <2>4, <2>8, <2>9, <2>10, <2>12
    <3> QED BY <2>8, <3>1
  <2>13. ms < epoch => epoch + a >= MS_WORD
    <3> HIDE DEF ts, a, ms
    <3> QED BY <2>4, <2>8, <2>9, <2>10
  <2> QED BY <2>7, <2>11, <2>12, <2>13 DEF DatesAreRight, epoch
<1> QED BY <1>1, CliInvariant, PTL

(* Where a used-up window ends beyond the last u64 (generator.rs:90) there *)
(* is no way on: until a build that checks overflow panics, `generate`     *)
(* waits, whatever the clock does.  So GenerateEnds excepts no more than   *)
(* it has to.                                                              *)
THEOREM NoWayOut ==
  CliSpec => [][WaitsForNothing => WaitsForNothing' \/ exit' = PANIC]_<<vars, cliVars>>
<1>1. ASSUME CliInv, CliInv', [CliNext]_<<vars, cliVars>>, WaitsForNothing
      PROVE  WaitsForNothing' \/ exit' = PANIC
  <2>1. /\ exit = NULL /\ Command = "generate" /\ ~Misused /\ args # <<>>
        /\ Len(lines) < options.count /\ ~NewWindow /\ gen.seq = SEQ_MASK
    BY <1>1 DEF WaitsForNothing, Generating, Running, Command
  <2>2. /\ options.epoch \in Nat /\ options.count \in Nat /\ Len(lines) \in Nat
        /\ gen.ts \in 0 .. TS_MASK
    BY <1>1, UsedUp
  <2>3. CASE UNCHANGED <<args, options, exit, lines, printed, gen>>
    <3>1. Command' = Command /\ (Misused' <=> Misused)
      BY <2>3, SameCommand
    <3>2. Generating' /\ gen' = gen /\ WindowEnd' = WindowEnd
      BY <2>1, <2>3, <3>1 DEF Generating, Running, WindowEnd
    <3>3. TNow' \in Nat /\ TNow' <= gen.ts
      <4> DEFINE t == IF clock' >= options.epoch THEN clock' - options.epoch ELSE 0
                 k == gen.ts + 1
      <4>1. t \in Nat /\ k \in Nat /\ clock' < MS_WORD
        BY <1>1, <2>2, CliNumbers, CliAssumption DEF CliInv, ReadInv
      <4>2. t < k * WINDOW_MS
        <5> DEFINE e == k * WINDOW_MS
        <5>1. e \in Nat /\ e > 0
          BY <2>2, <4>1, CliNumbers
        <5>2. options.epoch + e >= MS_WORD
          BY <1>1 DEF WaitsForNothing, WindowEnd
        <5> HIDE DEF e, k
        <5>3. t < e
          BY <1>1, <2>2, <4>1, <5>1, <5>2, CliNumbers DEF CliInv, ReadInv
        <5> QED BY <5>3 DEF e
      <4>3. TNow' = t \div WINDOW_MS
        BY <2>3 DEF TNow
      <4> HIDE DEF t
      <4>4. t \div WINDOW_MS \in 0 .. k - 1
        BY <4>1, <4>2, CliNumbers, QuotientBelow
      <4> QED BY <2>2, <4>3, <4>4
    <3>4. gen.ts # NULL
      BY <2>2 DEF NULL
    <3>5. ~NewWindow' /\ TNow' <= TS_MASK
      BY <2>2, <3>2, <3>3, <3>4, LayoutAssumption DEF NewWindow
    <3> QED BY <1>1, <2>1, <3>2, <3>5 DEF WaitsForNothing
  <2>4. CASE GeneratePanics
    BY <2>4 DEF GeneratePanics, Exit
  <2>5. ~Usage /\ ~Inform /\ ~EncodeCommand /\ ~DecodeCommand /\ ~Library
    BY <2>1 DEF Usage, Inform, EncodeCommand, DecodeCommand, Library, Running
  <2>6. ~GenerateNext /\ ~GenerateExhausted /\ ~GenerateDone
    BY <1>1, <2>1, <2>2, LayoutAssumption, WindowIsNat
       DEF GenerateNext, GenerateExhausted, GenerateDone, WaitsForNothing, CliInv
  <2>7. CASE UNCHANGED <<vars, cliVars>>
    BY <2>3, <2>7 DEF cliVars
  <2>8. CASE Tick
    BY <2>3, <2>8 DEF Tick
  <2> QED BY <1>1, <2>4, <2>5, <2>6, <2>7, <2>8 DEF CliNext, Generate
<1>2. CliInv /\ CliInv' /\ [CliNext]_<<vars, cliVars>> =>
        [WaitsForNothing => WaitsForNothing' \/ exit' = PANIC]_<<vars, cliVars>>
  BY <1>1
<1> QED BY <1>2, CliInvariant, PTL DEF CliSpec

(* What the command runs beside is the library as IdCodec has it: its      *)
(* theorems hold of it.                                                    *)
LEMMA LibraryUse == CliSpec => Spec
<1>1. CliInit => Init
  BY DEF CliInit
<1>2. [CliNext]_<<vars, cliVars>> => [Next]_vars
  <2> SUFFICES ASSUME [CliNext]_<<vars, cliVars>> PROVE [Next]_vars
    OBVIOUS
  <2>1. CASE Library
    BY <2>1 DEF Library
  <2>2. CASE UNCHANGED <<vars, cliVars>>
    BY <2>2
  <2>3. CASE Inform \/ Usage \/ EncodeCommand \/ DecodeCommand \/ Tick
             \/ GenerateNext \/ GenerateExhausted \/ GenerateDone \/ GeneratePanics
    BY <2>3 DEF Inform, Usage, EncodeCommand, DecodeCommand, Tick,
       GenerateNext, GenerateExhausted, GenerateDone, GeneratePanics, PrintId, Exit
  <2> QED BY <2>1, <2>2, <2>3 DEF CliNext, Generate
<1> QED BY <1>1, <1>2, PTL DEF CliSpec, Spec
=============================================================================
