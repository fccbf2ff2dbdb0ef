------------------------------ MODULE Calendar ------------------------------
(***************************************************************************)
(* format_iso8601_ms (snowdrop-id-cli/src/main.rs:187-212): from           *)
(* milliseconds since 1970-01-01 to a date, by counting eras of 400 years  *)
(* that start on a 1 March, and a time of day; and, to compare it with,    *)
(* the Gregorian calendar by its rules.                                    *)
(***************************************************************************)
EXTENDS Integers

CONSTANTS SECOND_MS,   \* milliseconds of a second: 1000
          MINUTE_S,    \* seconds of a minute: 60
          HOUR_S,      \* seconds of an hour: 3_600
          DAY_S        \* seconds of a day: 86_400

ASSUME CalendarAssumption ==
  /\ {SECOND_MS, MINUTE_S, HOUR_S, DAY_S} \subseteq Nat \ {0}
  /\ HOUR_S = (HOUR_S \div MINUTE_S) * MINUTE_S
  /\ DAY_S = (DAY_S \div HOUR_S) * HOUR_S

ERA == 146097    \* days in 400 years

(* Mutant: the century without a leap day is overlooked. *)
year_of_era_Julian(doe) == (doe - doe \div 1460) \div 365

(* yoe: the year within the era, from the day within the era. *)
year_of_era(doe) == (doe - doe \div 1460 + doe \div 36524 - doe \div 146096) \div 365

(* doy: the day within a year that starts on 1 March. *)
day_of_year(doe) ==
  LET yoe == year_of_era(doe)
  IN  doe - (365 * yoe + yoe \div 4 - yoe \div 100)

(* mp, month and day. *)
month_index(doy) == (5 * doy + 2) \div 153

month_of(doy) == LET mp == month_index(doy) IN IF mp < 10 THEN mp + 3 ELSE mp - 9

day_of(doy) == doy - (153 * month_index(doy) + 2) \div 5 + 1

civil(days) ==
  LET z   == days + 719468
      era == z \div ERA
      doe == z - era * ERA
      doy == day_of_year(doe)
  IN  [year  |-> year_of_era(doe) + era * 400 + (IF month_of(doy) <= 2 THEN 1 ELSE 0),
       month |-> month_of(doy),
       day   |-> day_of(doy)]

(* Mutant: the minutes are counted from midnight. *)
time_of_day_WholeMinutes(second_of_day) ==
  [hour   |-> second_of_day \div HOUR_S,
   minute |-> second_of_day \div MINUTE_S,
   second |-> second_of_day % MINUTE_S]

time_of_day(second_of_day) ==
  [hour   |-> second_of_day \div HOUR_S,
   minute |-> (second_of_day % HOUR_S) \div MINUTE_S,
   second |-> second_of_day % MINUTE_S]

format_iso8601_ms(unix_ms) ==
  LET secs == unix_ms \div SECOND_MS
  IN  [date |-> civil(secs \div DAY_S),
       time |-> time_of_day(secs % DAY_S),
       ms   |-> unix_ms % SECOND_MS]

-----------------------------------------------------------------------------
(* The Gregorian calendar. *)

IsLeap(y) == (y % 4 = 0) /\ ((y % 100 # 0) \/ (y % 400 = 0))

MonthLength(y, m) == IF m = 2 THEN IF IsLeap(y) THEN 29 ELSE 28
                     ELSE IF m \in {4, 6, 9, 11} THEN 30 ELSE 31

(* Days before 1 January of y, counted from year 1; 719162 up to 1970. *)
DaysBeforeYear(y) ==
  365 * (y - 1) + (y - 1) \div 4 - (y - 1) \div 100 + (y - 1) \div 400

MonthStart == <<0, 31, 59, 90, 120, 151, 181, 212, 243, 273, 304, 334>>

DaysBeforeMonth(y, m) == MonthStart[m] + (IF m > 2 /\ IsLeap(y) THEN 1 ELSE 0)

(* Days from 1970-01-01 to a date. *)
DayNumber(date) == DaysBeforeYear(date.year) - 719162
                     + DaysBeforeMonth(date.year, date.month) + date.day - 1

IsDate(date) == /\ date.year \in Nat
                /\ date.month \in 1 .. 12
                /\ date.day \in 1 .. MonthLength(date.year, date.month)

IsTime(time) == /\ time.hour \in 0 .. DAY_S \div HOUR_S - 1
                /\ time.minute \in 0 .. HOUR_S \div MINUTE_S - 1
                /\ time.second \in 0 .. MINUTE_S - 1

(* The date and the time exist, and are the ones unix_ms after 1970. *)
IsInstant(iso, unix_ms) ==
  /\ IsDate(iso.date) /\ IsTime(iso.time) /\ iso.ms \in 0 .. SECOND_MS - 1
  /\ LET second_of_day == iso.time.hour * HOUR_S + iso.time.minute * MINUTE_S
                            + iso.time.second
     IN  unix_ms = (DayNumber(iso.date) * DAY_S + second_of_day) * SECOND_MS + iso.ms

DateIsRight(days) == IsDate(civil(days)) /\ DayNumber(civil(days)) = days
=============================================================================
