------------------------------ MODULE Calendar ------------------------------
(***************************************************************************)
(* Timestamps: the age floor, the dormant gap and every admission compare    *)
(* seconds that were computed from civil dates, by two copies of the same    *)
(* arithmetic, one for update policy and one for the migration to schema 5.  *)
(* A timestamp is a pair of a day and a second of that day, so that numbers  *)
(* stay within the 32 bits of TLC; the code's 64 bits hold both.             *)
(***************************************************************************)
EXTENDS Integers, FiniteSets

SecondsPerDay == 86400

\* a civil time as the digits of a timestamp spell it
Civil(y, mo, d, h, mi, s) ==
    [year |-> y, month |-> mo, day |-> d, hour |-> h, minute |-> mi, second |-> s]

YearInRange(y) == 1970 <= y /\ y <= 9999

Refused == [day |-> -1, second |-> 0]

SecondOfDay(c) == c.hour * 3600 + c.minute * 60 + c.second

IsLeapYear(y) == y % 4 = 0 /\ (y % 100 # 0 \/ y % 400 = 0)

DaysInMonth(y, m) ==
    CASE m \in {1, 3, 5, 7, 8, 10, 12} -> 31
      [] m \in {4, 6, 9, 11} -> 30
      [] m = 2 -> IF IsLeapYear(y) THEN 29 ELSE 28
      [] OTHER -> 0

\* days since 1970-01-01, with years that begin in March
DaysFromCivil(c) ==
    LET y == IF c.month <= 2 THEN c.year - 1 ELSE c.year
        era == y \div 400
        yearOfEra == y - era * 400
        shifted == IF c.month > 2 THEN c.month - 3 ELSE c.month + 9
        dayOfYear == (153 * shifted + 2) \div 5 + c.day - 1
        dayOfEra == yearOfEra * 365 + yearOfEra \div 4 - yearOfEra \div 100
                    + dayOfYear
    IN  era * 146097 + dayOfEra - 719468

\* mutant: the last day of a cycle of 400 years opens the next century
CivilFromDaysLeaping(days, second) ==
    LET z == days + 719468
        era == z \div 146097
        dayOfEra == z - era * 146097
        yearOfEra == (dayOfEra - dayOfEra \div 1460 + dayOfEra \div 36524) \div 365
        dayOfYear == dayOfEra - (365 * yearOfEra + yearOfEra \div 4
                                 - yearOfEra \div 100)
        shifted == (5 * dayOfYear + 2) \div 153
        month == IF shifted < 10 THEN shifted + 3 ELSE shifted - 9
        year == yearOfEra + era * 400
    IN  Civil(IF month <= 2 THEN year + 1 ELSE year, month,
              dayOfYear - (153 * shifted + 2) \div 5 + 1,
              second \div 3600, (second % 3600) \div 60, second % 60)

CivilFromDays(days, second) ==
    LET z == days + 719468
        era == z \div 146097
        dayOfEra == z - era * 146097
        yearOfEra == (dayOfEra - dayOfEra \div 1460 + dayOfEra \div 36524
                      - dayOfEra \div 146096) \div 365
        dayOfYear == dayOfEra - (365 * yearOfEra + yearOfEra \div 4
                                 - yearOfEra \div 100)
        shifted == (5 * dayOfYear + 2) \div 153
        month == IF shifted < 10 THEN shifted + 3 ELSE shifted - 9
        year == yearOfEra + era * 400
    IN  Civil(IF month <= 2 THEN year + 1 ELSE year, month,
              dayOfYear - (153 * shifted + 2) \div 5 + 1,
              second \div 3600, (second % 3600) \div 60, second % 60)

\* UtcTimestamp::parse
Parse(c) ==
    IF /\ YearInRange(c.year) /\ c.month \in 1..12
       /\ c.day \in 1..DaysInMonth(c.year, c.month)
       /\ c.hour <= 23 /\ c.minute <= 59 /\ c.second <= 59
    THEN [day |-> DaysFromCivil(c), second |-> SecondOfDay(c)]
    ELSE Refused

\* UtcTimestamp::from_unix_seconds: what is printed is parsed again
FromUnixSeconds(t) ==
    LET c == CivilFromDays(t.day, t.second) IN
    IF c.year <= 9999 THEN Parse(c) ELSE Refused

\* canonicalize_pubtime: a timestamp with an offset; only month and day have
\* a range, what is left over carries into the next day
CanonicalizePubtime(c, offset) ==
    LET seconds == SecondOfDay(c) - offset
        days == DaysFromCivil(c) + seconds \div SecondsPerDay
    IN  IF c.month \in 1..12 /\ c.day \in 1..31
        THEN Parse(CivilFromDays(days, seconds % SecondsPerDay))
        ELSE Refused

----------------------------------------------------------------------------

\* the calendar itself: whole years, whole months, days
Counted(c) ==
    LET leaps == Cardinality({y \in 1970..(c.year - 1) : IsLeapYear(y)})
        before == {t \in (1..12) \X (1..31) :
                       t[1] < c.month /\ t[2] <= DaysInMonth(c.year, t[1])}
    IN  365 * (c.year - 1970) + leaps + Cardinality(before) + c.day - 1

LastDay == Civil(9999, 12, 31, 0, 0, 0)

Real(c) ==
    /\ YearInRange(c.year) /\ c.month \in 1..12
    /\ c.day \in 1..DaysInMonth(c.year, c.month)
    /\ c.hour \in 0..23 /\ c.minute \in 0..59 /\ c.second \in 0..59

\* Both copies of the date arithmetic count the days of the calendar: a real time
\* parses to its instant, prints and parses back to itself, and means the same
\* instant when crates.io writes it with an offset.  UtcTimestamp takes nothing else;
\* canonicalize_pubtime, which does, is asked for real times only.
CountsTheCalendar(c, offset) ==
    IF ~Real(c) THEN Parse(c) = Refused
    ELSE LET t == [day |-> Counted(c), second |-> SecondOfDay(c)]
             s == t.second - offset
             shifted == [day |-> t.day + s \div SecondsPerDay,
                         second |-> s % SecondsPerDay]
         IN  /\ Parse(c) = t
             /\ CivilFromDays(t.day, t.second) = c
             /\ FromUnixSeconds(t) = t
             /\ CanonicalizePubtime(c, offset)
                    = IF shifted.day >= 0 /\ shifted.day <= Counted(LastDay)
                      THEN shifted ELSE Refused

=============================================================================
