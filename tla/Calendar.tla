------------------------------ MODULE Calendar ------------------------------
(***************************************************************************)
(* types/Date.h and types/Timestamp.h: dates are kept as days and times as *)
(* seconds since 1970-01-01, and go from and to the fields of a text by    *)
(* integer arithmetic over the 400 years of an era, which begins on the    *)
(* first of March.                                                         *)
(*                                                                         *)
(* The text of a date is <<y, m, d>> and that of a time                    *)
(* <<y, m, d, hour, minute, second>>: what the digits at the fixed places  *)
(* of "2013-07-15 10:59:59" say.                                           *)
(***************************************************************************)
EXTENDS Integers, Sequences

\* The quotient and the remainder of C++, for b > 0: towards zero.
Quot(a, b) == IF a >= 0 THEN a \div b ELSE -((-a) \div b)
Rem(a, b)  == a - b * Quot(a, b)

Units == {"YEAR", "MONTH", "DAY", "HOUR", "MINUTE", "SECOND"}

-----------------------------------------------------------------------------
(* Seeded bugs: each, put in the place of a definition below, is what shows *)
(* that a property of Transforms can fail.                                  *)

\* Every fourth year of an era is a leap year (for DayOfEra).
JulianDayOfEra(yoe, doy) == yoe * 365 + yoe \div 4 + doy

-----------------------------------------------------------------------------
\* The era of year or day n, in eras of the given length.
EraOf(n, length) == Quot(IF n >= 0 THEN n ELSE n - (length - 1), length)

\* doe, from the year of the era and the day of the year.
DayOfEra(yoe, doy) == yoe * 365 + yoe \div 4 - yoe \div 100 + doy

\* Date::Parse.
ParseDate(date) ==
  LET month == date[2]
      year == IF month <= 2 THEN date[1] - 1 ELSE date[1]
      era == EraOf(year, 400)
      doy == (153 * (month + (IF month > 2 THEN -3 ELSE 9)) + 2) \div 5 + date[3] - 1
  IN era * 146097 + DayOfEra(year - era * 400, doy) - 719468

\* The computation that Date::Format and Date::Truncate share.
FormatDate(n) ==
  LET days == n + 719468
      era == EraOf(days, 146097)
      doe == days - era * 146097
      yoe == (doe - doe \div 1460 + doe \div 36524 - doe \div 146096) \div 365
      doy == doe - DayOfEra(yoe, 0)
      mp == (5 * doy + 2) \div 153
      m == IF mp < 10 THEN mp + 3 ELSE mp - 9
      y == yoe + era * 400
  IN <<IF m <= 2 THEN y + 1 ELSE y, m, doy - (153 * mp + 2) \div 5 + 1>>

\* Date::Truncate.
TruncateDate(n, unit) ==
  LET date == FormatDate(n)
      e == EraOf(date[1], 400)
  IN CASE unit = "MONTH" -> n - date[3] + 1
       [] unit = "YEAR"  -> e * 146097 + DayOfEra(date[1] - e * 400, 306) - 719468
       [] OTHER          -> n

SecondsInDay(n) == IF Rem(n, 86400) < 0 THEN Rem(n, 86400) + 86400 ELSE Rem(n, 86400)

\* Timestamp::Parse.
ParseTime(t) == ParseDate(SubSeq(t, 1, 3)) * 86400 + t[4] * 3600 + t[5] * 60 + t[6]

\* Timestamp::Format.
FormatTime(n) ==
  LET s == SecondsInDay(n)
      days == IF Rem(n, 86400) < 0 THEN Quot(n, 86400) - 1 ELSE Quot(n, 86400)
  IN FormatDate(days) \o <<s \div 3600, (s % 3600) \div 60, s % 60>>

ExtractMinute(n) == (SecondsInDay(n) % 3600) \div 60

\* Timestamp::Truncate.
TruncateTime(n, unit) ==
  CASE unit = "MINUTE" -> n - (SecondsInDay(n) % 60)
    [] unit = "HOUR"   -> n - (SecondsInDay(n) % 3600)
    [] unit = "DAY"    -> n - SecondsInDay(n)
    [] unit = "SECOND" -> n
    [] OTHER           -> TruncateDate(Quot(n, 86400), unit) * 86400

-----------------------------------------------------------------------------
(* What a date is, by definition, without eras.                             *)

IsLeap(y) == y % 4 = 0 /\ (y % 100 # 0 \/ y % 400 = 0)

MonthLength(y, m) == CASE m = 2              -> IF IsLeap(y) THEN 29 ELSE 28
                       [] m \in {4, 6, 9, 11} -> 30
                       [] OTHER               -> 31

\* The days before year y, counted from the beginning of year 0.
DaysBefore(y) == 365 * y + (y + 3) \div 4 - (y + 99) \div 100 + (y + 399) \div 400

\* The days from 1970-01-01 to a date.
DayNumber(date) ==
  LET inMonth[m \in 1..12] == IF m = 1 THEN 0 ELSE inMonth[m - 1] + MonthLength(date[1], m - 1)
  IN DaysBefore(date[1]) - DaysBefore(1970) + inMonth[date[2]] + date[3] - 1

\* The texts that are dates.
IsDate(date) == /\ date[1] \in 0..9999
                /\ date[2] \in 1..12
                /\ date[3] \in 1..MonthLength(date[1], date[2])
=============================================================================
